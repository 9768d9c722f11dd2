-------------------------- MODULE PrintFlow_proofs --------------------------
(***************************************************************************)
(* The theorems about PrintFlow: facts about the queue and the planner; one *)
(* or more lemmas for every action, which show that it keeps the inductive  *)
(* invariant; and what follows for every reachable state.  At the end the   *)
(* same for PrintFlowCrash.                                                 *)
(***************************************************************************)
EXTENDS PrintFlowInv, PrintFlowCrash, TLAPS

-----------------------------------------------------------------------------
(* Facts about sequences, lengths and the order of the queue and the planner. *)

\* A length is a natural number, and a short one is stored as it is.
LEMMA TruncFacts ==
    \A n \in Int : Trunc(n) \in Nat /\ (0 <= n /\ n < SDLEN_MOD => Trunc(n) = n)
  BY SizeAssumption DEF Trunc

\* What Append leaves of a sequence.
LEMMA AppendShape ==
    ASSUME NEW S, NEW s \in Seq(S), NEW e \in S
    PROVE  /\ Append(s, e) \in Seq(S) /\ Len(Append(s, e)) = Len(s) + 1
           /\ \A i \in 1 .. Len(s) : Append(s, e)[i] = s[i]
           /\ Append(s, e)[Len(s) + 1] = e
  OBVIOUS

\* What is left of a sequence when an element is put in front of it.
LEMMA ConsShape ==
    ASSUME NEW S, NEW s \in Seq(S), NEW e \in S
    PROVE  /\ <<e>> \o s \in Seq(S) /\ Len(<<e>> \o s) = Len(s) + 1
           /\ (<<e>> \o s)[1] = e
           /\ \A i \in 2 .. Len(s) + 1 : (<<e>> \o s)[i] = s[i - 1]
  OBVIOUS

\* What Tail leaves of a sequence.
LEMMA TailShape ==
    ASSUME NEW S, NEW s \in Seq(S), Len(s) > 0
    PROVE  /\ Tail(s) \in Seq(S) /\ Len(Tail(s)) = Len(s) - 1
           /\ \A i \in 1 .. Len(s) - 1 : Tail(s)[i] = s[i + 1]
  OBVIOUS

\* What is left of a queue when its first command gets another type.
LEMMA RetypeShape ==
    ASSUME NEW s \in Seq(Command), Len(s) > 0, NEW t \in Types
    PROVE  LET v == [s EXCEPT ![1].type = t]
           IN  /\ v \in Seq(Command) /\ Len(v) = Len(s)
               /\ v[1].type = t /\ v[1].from = s[1].from
               /\ v[1].to = s[1].to /\ v[1].len = s[1].len
               /\ \A i \in 2 .. Len(s) : v[i] = s[i]
  <1> DEFINE c == [s[1] EXCEPT !.type = t]
             v == [s EXCEPT ![1] = c]
  <1>1. s[1] \in Command
    OBVIOUS
  <1>2. /\ c \in Command /\ c.type = t
        /\ c.from = s[1].from /\ c.to = s[1].to /\ c.len = s[1].len
    BY <1>1 DEF Command
  <1> HIDE DEF c
  <1>3. /\ v \in Seq(Command) /\ Len(v) = Len(s) /\ v[1] = c
        /\ \A i \in 2 .. Len(s) : v[i] = s[i]
    BY <1>2
  <1> QED
    BY <1>2, <1>3 DEF c

\* What the types say of the two sequences and of the numbers.
ShapeOK ==
    /\ cmds \in Seq(Command) /\ Len(cmds) \in Nat
    /\ cmds = <<>> <=> Len(cmds) = 0
    /\ blocks \in Seq(Block) /\ Len(blocks) \in Nat
    /\ blocks = <<>> <=> Len(blocks) = 0
    /\ \A i \in 1 .. Len(cmds) :
          /\ cmds[i] \in Command
          /\ cmds[i].from \in Int /\ cmds[i].to \in Int
          /\ cmds[i].len \in Nat /\ cmds[i].type \in Types
    /\ \A i \in 1 .. Len(blocks) :
          /\ blocks[i] \in Block
          /\ blocks[i].from \in Int /\ blocks[i].to \in Int
          /\ blocks[i].sdlen \in Nat /\ blocks[i].line \in Int
    /\ sdpos_atomic \in Int /\ readpos \in Int /\ saved_sdpos \in Int
    /\ buflen \in Nat /\ line \in Int /\ segs \in Nat
    /\ idx \in Nat \ {0} /\ acc \in Nat
    /\ moved \subseteq Int /\ reached \in Int

\* The types of the variables, in the form the steps below need.
LEMMA Shape == TypeOK => ShapeOK
  <1> SUFFICES ASSUME TypeOK PROVE ShapeOK
    OBVIOUS
  <1>1. cmds \in Seq(Command) /\ blocks \in Seq(Block)
    BY DEF TypeOK, QueueTypes, PlanTypes
  <1>2. /\ Len(cmds) \in Nat /\ (cmds = <<>> <=> Len(cmds) = 0)
        /\ \A i \in 1 .. Len(cmds) : cmds[i] \in Command
    BY <1>1
  <1>3. /\ Len(blocks) \in Nat /\ (blocks = <<>> <=> Len(blocks) = 0)
        /\ \A i \in 1 .. Len(blocks) : blocks[i] \in Block
    BY <1>1
  <1>4. \A c \in Command : /\ c.from \in Int /\ c.to \in Int
                           /\ c.len \in Nat /\ c.type \in Types
    BY DEF Command
  <1>5. \A b \in Block : /\ b.from \in Int /\ b.to \in Int
                         /\ b.sdlen \in Nat /\ b.line \in Int
    BY DEF Block
  <1> QED
    BY <1>1, <1>2, <1>3, <1>4, <1>5
       DEF ShapeOK, TypeOK, FileTypes, QueueTypes, SavedTypes, MainTypes,
           SaveTypes, GhostTypes

\* Everything that is queued lies between the resume point and the end of
\* the last line read.
LEMMA CoreOrder ==
    ASSUME Core
    PROVE  /\ QueueStart \in Int /\ ResumePoint \in Int
           /\ ResumePoint <= QueueStart /\ QueueStart <= sdpos_atomic
           /\ \A i \in 1 .. Len(cmds) : cmds[i].to <= sdpos_atomic
           /\ \A i \in 1 .. Len(cmds) :
                 cmds[i].type = "SDCARD" => QueueStart <= cmds[i].from
           /\ \A i \in 1 .. Len(blocks) :
                 ResumePoint <= blocks[i].from /\ blocks[i].to <= QueueStart
  <1>s. ShapeOK
    BY Shape DEF Core
  <1> USE <1>s DEF Core, ShapeOK
  <1>1. \A i \in 1 .. Len(cmds) : cmds[i].to <= sdpos_atomic
    <2> SUFFICES ASSUME NEW i \in 1 .. Len(cmds) PROVE cmds[i].to <= sdpos_atomic
      OBVIOUS
    <2>1. CASE i = Len(cmds)
      BY <2>1 DEF QueueChain
    <2>2. CASE i < Len(cmds)
      <3>1. /\ cmds[i].to <= cmds[Len(cmds)].from
            /\ cmds[Len(cmds)].from <= cmds[Len(cmds)].to
        BY <2>2 DEF QueueChain
      <3> QED
        BY <3>1, <2>2 DEF QueueChain
    <2> QED
      BY <2>1, <2>2
  <1>2. /\ QueueStart \in Int /\ QueueStart <= sdpos_atomic
        /\ \A i \in 1 .. Len(cmds) :
              cmds[i].type = "SDCARD" => QueueStart <= cmds[i].from
    <2>1. CASE Len(cmds) = 0
      BY <2>1 DEF QueueStart
    <2>2. CASE Len(cmds) > 0
      <3>1. 1 \in 1 .. Len(cmds) /\ cmds[1].from <= cmds[1].to
        BY <2>2 DEF QueueChain
      <3>2. QueueStart = IF cmds[1].type = "TO_BE_REMOVED" THEN cmds[1].to
                         ELSE cmds[1].from
        BY <2>2 DEF QueueStart
      <3>3. \A i \in 1 .. Len(cmds) : i > 1 => cmds[1].to <= cmds[i].from
        BY <3>1 DEF QueueChain
      <3> QED
        BY <1>1, <3>1, <3>2, <3>3
    <2> QED
      BY <2>1, <2>2
  <1>3. \A i \in 1 .. Len(blocks) : blocks[i].to <= QueueStart
    <2> SUFFICES ASSUME NEW i \in 1 .. Len(blocks)
                 PROVE  blocks[i].to <= QueueStart
      OBVIOUS
    <2>1. CASE i = Len(blocks)
      BY <2>1, <1>2 DEF BlockChain
    <2>2. CASE i < Len(blocks)
      <3>1. /\ blocks[i].to <= blocks[Len(blocks)].from
            /\ blocks[Len(blocks)].from <= blocks[Len(blocks)].to
        BY <2>2 DEF BlockChain
      <3> QED
        BY <3>1, <2>2, <1>2 DEF BlockChain
    <2> QED
      BY <2>1, <2>2
  <1>4. /\ ResumePoint \in Int /\ ResumePoint <= QueueStart
        /\ \A i \in 1 .. Len(blocks) : ResumePoint <= blocks[i].from
    <2>1. CASE Len(blocks) = 0
      BY <2>1, <1>2 DEF ResumePoint
    <2>2. CASE Len(blocks) > 0
      <3>1. /\ 1 \in 1 .. Len(blocks) /\ ResumePoint = blocks[1].from
            /\ blocks[1].from <= blocks[1].to
        BY <2>2 DEF BlockChain, ResumePoint
      <3>2. blocks[1].from \in Int /\ blocks[1].to \in Int
        BY <3>1
      <3>3. ASSUME NEW i \in 1 .. Len(blocks)
            PROVE  blocks[1].from <= blocks[i].from
        <4>1. CASE i = 1
          BY <4>1, <3>2
        <4>2. CASE i > 1
          BY <4>2, <3>1, <3>2 DEF BlockChain
        <4> QED
          BY <4>1, <4>2
      <3>4. blocks[1].to <= QueueStart
        BY <3>1, <1>3
      <3> QED
        BY <1>2, <3>1, <3>2, <3>3, <3>4
    <2> QED
      BY <2>1, <2>2
  <1> QED
    BY <1>1, <1>2, <1>3, <1>4

\* The same, for a state that satisfies the whole invariant.
LEMMA Order ==
    ASSUME Inv
    PROVE  /\ QueueStart \in Int /\ ResumePoint \in Int
           /\ ResumePoint <= QueueStart /\ QueueStart <= sdpos_atomic
           /\ \A i \in 1 .. Len(cmds) : cmds[i].to <= sdpos_atomic
           /\ \A i \in 1 .. Len(cmds) :
                 cmds[i].type = "SDCARD" => QueueStart <= cmds[i].from
           /\ \A i \in 1 .. Len(blocks) :
                 ResumePoint <= blocks[i].from /\ blocks[i].to <= QueueStart
  BY CoreOrder DEF Inv

-----------------------------------------------------------------------------
(* Every action preserves the inductive invariant.                         *)

\* A line of the file is being processed and has planned moves.
Working ==
    /\ InCommand \/ pc \in {"hand", "handover"}
    /\ ~already /\ segs > 0 /\ line # NoLine

\* A step of the main thread that leaves the queue, the planner and the saved
\* position alone preserves the invariant if it keeps the parts of it that
\* speak of where the main thread is.
LEMMA MainFrame ==
    ASSUME Core, save = "off",
           UNCHANGED <<cmds, blocks, sdpos_atomic, moved, saved_printing,
                       saved_type, saved_sdpos, save>>,
           TypeOK', BuflenAgrees', QueueBytes', Control', Processed',
           sdpos_atomic <= readpos'
    PROVE  /\ Core'
           /\ (/\ Inv /\ Alone'
               /\ sdprinting' => sdprinting
               /\ Working => Working' /\ line' = line
               /\ saved_printing => already' \/ line' = NoLine
               /\ pc' = "restore" => saved_printing \/ pc = "restore")
              => Inv'
  <1>q. /\ QueueStart' = QueueStart /\ ResumePoint' = ResumePoint
        /\ SavedSD' = SavedSD
    BY DEF QueueStart, ResumePoint, SavedSD
  <1>p. Pending' = Pending
    BY DEF Pending
  <1>1. QueueChain' /\ BlockChain' /\ Summed'
    BY <1>q DEF Core, QueueChain, BlockChain, Summed, PositionSaved
  <1>2. Core'
    BY <1>1 DEF Core
  <1>3. ASSUME Inv, Alone', sdprinting' => sdprinting,
               Working => Working' /\ line' = line,
               saved_printing => already' \/ line' = NoLine,
               pc' = "restore" => saved_printing \/ pc = "restore"
        PROVE  Inv'
    <2>1. BlockLines'
      BY <1>3 DEF Inv, BlockLines, Unfinished, Working
    <2>2. Quiet' /\ Saver'
      BY <1>3, <1>q DEF Inv, Quiet, Saver
    <2>3. Moved'
      BY <1>3, <1>q, <1>p DEF Inv, Moved
    <2>4. MovedHere'
      BY <1>3, <1>q DEF Inv, MovedHere, Working
    <2> QED
      BY <1>2, <1>3, <2>1, <2>2, <2>3, <2>4 DEF Inv
  <1> QED
    BY <1>2, <1>3

\* loop(), manage_inactivity() and a waiting command enter get_command().
LEMMA EnterStep == Core /\ (LoopTop \/ GetWhileWaiting \/ LoopEnd) => Core' /\ (Inv => Inv')
  <1> SUFFICES ASSUME Core, LoopTop \/ GetWhileWaiting \/ LoopEnd PROVE Core' /\ (Inv => Inv')
    OBVIOUS
  <1> USE DEF fileVars, queueVars, savedVars, isrVars, ghostVars
  <1>f. /\ save = "off"
        /\ UNCHANGED <<readpos, isopen, sdprinting, sdpos_atomic, queueVars,
                       blocks, savedVars, isrVars, back, line, segs, finished,
                       ghostVars>>
        /\ stopBuffering' \in BOOLEAN /\ planner_aborted' \in BOOLEAN
    BY DEF LoopTop, GetWhileWaiting, LoopEnd, GetEnter, Running, planVars,
           Core, TypeOK, FileTypes, PlanTypes
  <1>c. /\ \/ pc = "loop" /\ ret' = "top" /\ pc' \in {"get", "top"}
           \/ pc = "idle" /\ ret' = "loop" /\ pc' = "get"
           \/ pc = "idle" /\ ret' \in {ret, "loop"} /\ pc' = "loop"
           \/ pc = "proc" /\ ret' = "proc" /\ pc' \in {"get", "proc"}
        /\ pc # "loop" => planner_aborted' = planner_aborted
        /\ pc' = "get" => sdprinting
    BY DEF LoopTop, GetWhileWaiting, LoopEnd, GetEnter, Running, planVars
  <1>1. FileTypes' /\ QueueTypes' /\ PlanTypes' /\ SavedTypes'
    BY <1>f DEF Core, TypeOK, FileTypes, QueueTypes, PlanTypes, SavedTypes
  <1>2. MainTypes' /\ SaveTypes' /\ GhostTypes'
    BY <1>f, <1>c DEF Core, TypeOK, MainTypes, SaveTypes, GhostTypes
  <1>3. BuflenAgrees' /\ QueueBytes' /\ Control' /\ (Inv => Alone')
    BY <1>f, <1>c DEF Core, Inv, BuflenAgrees, Window, QueueBytes, Control, Alone
  <1>4. Processed'
    BY <1>f, <1>c DEF Core, Processed, InCommand
  <1>5. Working => Working' /\ line' = line
    BY <1>f, <1>c DEF Working, InCommand
  <1> QED
    BY <1>f, <1>c, <1>1, <1>2, <1>3, <1>4, <1>5, MainFrame
       DEF Core, Inv, TypeOK, QueueChain, Quiet

\* get_command() has read a line, with a command or without one.
LEMMA ReadStep == Core /\ (GetLine \/ GetBlankLine) => Core' /\ (Inv => Inv')
  <1> SUFFICES ASSUME Core, GetLine \/ GetBlankLine PROVE Core' /\ (Inv => Inv')
    OBVIOUS
  <1> USE DEF fileVars, queueVars, planVars, savedVars, isrVars, ghostVars
  <1>s. ShapeOK
    BY Shape DEF Core
  <1>f. /\ pc = "get" /\ save = "off"
        /\ UNCHANGED <<isopen, sdprinting, sdpos_atomic, queueVars, planVars,
                       savedVars, isrVars, ret, back, line, segs, finished,
                       ghostVars>>
    BY DEF GetLine, GetBlankLine, Running
  <1>b. stopBuffering' \in BOOLEAN
    <2>1. stopBuffering' = (readpos \in Hash)
      BY DEF GetLine, GetBlankLine
    <2>2. (readpos \in Hash) \in BOOLEAN
      OBVIOUS
    <2> QED
      BY ONLY <2>1, <2>2
  <1>r. /\ readpos' \in Int /\ readpos < readpos'
        /\ pc' = "commit" \/ pc' = ret
    BY <1>s, FileAssumption DEF GetLine, GetBlankLine, EndsLine, ShapeOK
  <1>c. ret \in {"top", "loop", "proc"} /\ sdpos_atomic < readpos'
    BY <1>f, <1>r, <1>s DEF Core, Control, QueueChain, ShapeOK
  <1>1. FileTypes' /\ QueueTypes' /\ PlanTypes' /\ SavedTypes'
    BY <1>f, <1>b, <1>r DEF Core, TypeOK, FileTypes, QueueTypes, PlanTypes, SavedTypes
  <1>2. MainTypes' /\ SaveTypes' /\ GhostTypes'
    BY <1>f, <1>r DEF Core, TypeOK, MainTypes, SaveTypes, GhostTypes
  <1>3. BuflenAgrees' /\ QueueBytes' /\ Control' /\ (Inv => Alone')
    BY <1>f, <1>r, <1>c DEF Core, Inv, BuflenAgrees, Window, QueueBytes, Control, Alone
  <1>4. Processed'
    BY <1>f, <1>r, <1>c DEF Core, Processed, InCommand
  <1>5. Working => Working' /\ line' = line
    BY <1>f, <1>r, <1>c DEF Working, InCommand
  <1> QED
    BY <1>f, <1>r, <1>c, <1>s, <1>1, <1>2, <1>3, <1>4, <1>5, MainFrame
       DEF Core, Inv, TypeOK, Quiet, ShapeOK

\* get_command() returns, at the end of the file after the last move.
LEMMA ReturnStep ==
    Core /\ (GetReturn \/ GetEndOfFile \/ PrintingHasFinished) => Core' /\ (Inv => Inv')
  <1> SUFFICES ASSUME Core, GetReturn \/ GetEndOfFile \/ PrintingHasFinished
               PROVE  Core' /\ (Inv => Inv')
    OBVIOUS
  <1> USE DEF fileVars, queueVars, planVars, savedVars, isrVars, ghostVars
  <1>f. /\ save = "off"
        /\ UNCHANGED <<readpos, stopBuffering, sdpos_atomic, queueVars,
                       planVars, saved_printing, saved_type, saved_sdpos,
                       paused, isrVars, ret, back, line, segs, ghostVars>>
    BY DEF GetReturn, GetEndOfFile, PrintingHasFinished, Running
  <1>b. /\ isopen' \in BOOLEAN /\ sdprinting' \in BOOLEAN
        /\ finished' \in BOOLEAN /\ (sdprinting' => sdprinting)
    <2>t. isopen \in BOOLEAN /\ sdprinting \in BOOLEAN /\ finished \in BOOLEAN
      BY DEF Core, TypeOK, FileTypes, SavedTypes
    <2>1. CASE GetReturn
      BY <2>1, <2>t DEF GetReturn
    <2>2. CASE GetEndOfFile
      BY <2>2, <2>t DEF GetEndOfFile
    <2>3. CASE PrintingHasFinished
      BY <2>3, <2>t DEF PrintingHasFinished
    <2> QED
      BY <2>1, <2>2, <2>3
  <1>c. /\ pc \in {"get", "finish"} /\ (pc' = ret \/ pc' = "finish")
        /\ ret \in {"top", "loop", "proc"}
    BY DEF GetReturn, GetEndOfFile, PrintingHasFinished, Running, Core, Control
  <1>1. FileTypes' /\ QueueTypes' /\ PlanTypes' /\ SavedTypes'
    BY <1>f, <1>b DEF Core, TypeOK, FileTypes, QueueTypes, PlanTypes, SavedTypes
  <1>2. MainTypes' /\ SaveTypes' /\ GhostTypes'
    BY <1>f, <1>c DEF Core, TypeOK, MainTypes, SaveTypes, GhostTypes
  <1>3. BuflenAgrees' /\ QueueBytes' /\ Control' /\ (Inv => Alone')
    BY <1>f, <1>b, <1>c DEF Core, Inv, BuflenAgrees, Window, QueueBytes, Control, Alone
  <1>4. Processed'
    BY <1>f, <1>c DEF Core, Processed, InCommand
  <1>5. Working => Working' /\ line' = line
    BY <1>f, <1>c DEF Working, InCommand
  <1> QED
    BY <1>f, <1>b, <1>c, <1>1, <1>2, <1>3, <1>4, <1>5, MainFrame
       DEF Core, Inv, TypeOK, QueueChain, Quiet

\* loop() takes up the command at the front of the queue.
LEMMA DispatchStep == Core /\ LoopDispatch => Core' /\ (Inv => Inv')
  <1> SUFFICES ASSUME Core, LoopDispatch PROVE Core' /\ (Inv => Inv')
    OBVIOUS
  <1> USE DEF fileVars, queueVars, planVars, savedVars, isrVars, ghostVars
  <1>s. ShapeOK
    BY Shape DEF Core
  <1>f. /\ pc = "top" /\ save = "off"
        /\ UNCHANGED <<fileVars, cmds, buflen, planVars, savedVars, isrVars,
                       ret, back, finished, ghostVars>>
        /\ pc' \in {"proc", "idle"} /\ already' \in BOOLEAN
    BY DEF LoopDispatch, Running, Core, TypeOK, QueueTypes
  <1>h. Len(cmds) = buflen
    BY <1>f DEF Core, BuflenAgrees, Window, ShapeOK, QueueTypes, TypeOK
  <1>c. \/ /\ pc' = "proc" /\ ~already' /\ segs' = 0
           /\ Len(cmds) > 0 /\ 1 \in 1 .. Len(cmds)
           /\ line' = IF cmds[1].type = "SDCARD" THEN cmds[1].from ELSE NoLine
        \/ pc' = "idle" /\ UNCHANGED <<already, line, segs>>
    BY <1>h, <1>s DEF LoopDispatch, ShapeOK
  <1>1. FileTypes' /\ QueueTypes' /\ PlanTypes' /\ SavedTypes'
    BY <1>f DEF Core, TypeOK, FileTypes, QueueTypes, PlanTypes, SavedTypes
  <1>2. MainTypes' /\ SaveTypes' /\ GhostTypes'
    <2>1. line' \in Int /\ segs' \in Nat
      BY <1>c, <1>s DEF ShapeOK, NoLine
    <2> QED
      BY <1>f, <2>1 DEF Core, TypeOK, MainTypes, SaveTypes, GhostTypes
  <1>3. BuflenAgrees' /\ QueueBytes' /\ Control' /\ (Inv => Alone')
    BY <1>f DEF Core, Inv, BuflenAgrees, Window, QueueBytes, Control, Alone
  <1>4. Processed'
    BY <1>f, <1>c DEF Processed, InCommand
  <1>5. Inv => (saved_printing => already' \/ line' = NoLine)
    BY <1>c DEF Inv, Quiet
  <1>6. ~Working /\ sdpos_atomic <= readpos' /\ (sdprinting' => sdprinting)
    BY <1>f DEF Working, InCommand, Core, QueueChain
  <1> QED
    BY <1>f, <1>1, <1>2, <1>3, <1>4, <1>5, <1>6, MainFrame DEF Core, Inv, TypeOK

\* process_commands() begins a move, or ends, and loop() looks whether there
\* is a command to release.
LEMMA ProcessStep ==
    Core /\ (PlanPrepare \/ ProcessM601 \/ CommandDone \/ ReleaseCheck) => Core' /\ (Inv => Inv')
  <1> SUFFICES ASSUME Core, PlanPrepare \/ ProcessM601 \/ CommandDone \/ ReleaseCheck
               PROVE  Core' /\ (Inv => Inv')
    OBVIOUS
  <1> USE DEF fileVars, queueVars, planVars, savedVars, isrVars, ghostVars
  <1>s. ShapeOK
    BY Shape DEF Core
  <1>f. /\ save = "off"
        /\ UNCHANGED <<fileVars, queueVars, planVars, savedVars, isrVars, back,
                       line, segs, finished, ghostVars>>
    BY DEF PlanPrepare, ProcessM601, CommandDone, ReleaseCheck, Running
  <1>h. pc \in {"proc", "hand"} => Len(cmds) = buflen
    BY DEF Core, BuflenAgrees, Window, QueueTypes, TypeOK
  <1>c. \/ pc = "proc" /\ pc' = "prep" /\ ret' = ret
        \/ /\ pc = "proc" /\ pc' = "pop" /\ ret' = "m601"
           /\ ~already /\ line # NoLine /\ blocks = <<>> /\ segs = 0
        \/ pc = "proc" /\ pc' = "hand" /\ ret' = ret
        \/ pc = "hand" /\ pc' = "handover" /\ ret' = ret /\ Len(cmds) > 0
        \/ pc = "hand" /\ pc' = "idle" /\ ret' = ret /\ (already \/ Len(cmds) = 0)
    BY <1>h, <1>s
       DEF PlanPrepare, ProcessM601, CommandDone, ReleaseCheck, Running, ShapeOK
  <1>1. FileTypes' /\ QueueTypes' /\ PlanTypes' /\ SavedTypes'
    BY <1>f DEF Core, TypeOK, FileTypes, QueueTypes, PlanTypes, SavedTypes
  <1>2. MainTypes' /\ SaveTypes' /\ GhostTypes'
    BY <1>f, <1>c DEF Core, TypeOK, MainTypes, SaveTypes, GhostTypes
  <1>3. BuflenAgrees' /\ QueueBytes'
    BY <1>f, <1>c DEF Core, BuflenAgrees, Window, QueueBytes
  <1>4. Control' /\ (Inv => Alone')
    <2>1. pc' = "pop" => /\ Len(cmds) > 0 /\ cmds[1].type = "SDCARD"
                         /\ blocks = <<>>
      BY <1>c DEF Core, Processed, InCommand
    <2>2. Control'
      BY <1>f, <1>c, <2>1 DEF Core, Control
    <2>3. Inv => Alone'
      BY <1>f, <1>c DEF Inv, Alone, Quiet
    <2> QED
      BY <2>2, <2>3
  <1>5. Processed'
    BY <1>f, <1>c DEF Core, Processed, InCommand
  <1>6. Working => Working' /\ line' = line
    BY <1>f, <1>c, <1>s DEF Core, Processed, Working, InCommand, ShapeOK
  <1> QED
    BY <1>f, <1>c, <1>1, <1>2, <1>3, <1>4, <1>5, <1>6, MainFrame
       DEF Core, Inv, TypeOK, QueueChain, Quiet

\* cmdqueue_pop_front() counts the command as gone.
LEMMA PopCountStep == Core /\ PopCount => Core' /\ (Inv => Inv')
  <1> SUFFICES ASSUME Core, PopCount PROVE Core' /\ (Inv => Inv')
    OBVIOUS
  <1> USE DEF fileVars, planVars, savedVars, isrVars, ghostVars
  <1>s. ShapeOK
    BY Shape DEF Core
  <1>f. /\ pc = "pop" /\ pc' = "pop2" /\ save = "off" /\ buflen' = buflen - 1
        /\ UNCHANGED <<fileVars, cmds, already, planVars, savedVars, isrVars,
                       ret, back, line, segs, finished, ghostVars>>
    BY DEF PopCount, Running
  <1>h. buflen = Len(cmds) /\ Len(cmds) > 0 /\ buflen' \in Nat
    BY <1>f, <1>s DEF Core, BuflenAgrees, Window, Control, ShapeOK
  <1>1. FileTypes' /\ QueueTypes' /\ PlanTypes' /\ SavedTypes'
    BY <1>f, <1>h DEF Core, TypeOK, FileTypes, QueueTypes, PlanTypes, SavedTypes
  <1>2. MainTypes' /\ SaveTypes' /\ GhostTypes'
    BY <1>f DEF Core, TypeOK, MainTypes, SaveTypes, GhostTypes
  <1>3. BuflenAgrees' /\ QueueBytes'
    BY <1>f, <1>h, <1>s DEF Core, BuflenAgrees, Window, QueueBytes, ShapeOK
  <1>4. Control' /\ Processed' /\ ~Working /\ (Inv => Alone')
    BY <1>f DEF Core, Inv, Control, Alone, Processed, Working, InCommand
  <1> QED
    BY <1>f, <1>1, <1>2, <1>3, <1>4, MainFrame DEF Core, Inv, TypeOK, QueueChain, Quiet

\* The user resumes a print.
LEMMA ResumeStep ==
    ASSUME Core, Resume, saved_printing => already \/ line = NoLine
    PROVE  Core' /\ (Inv => Inv')
  <1> USE DEF fileVars, queueVars, planVars, isrVars, ghostVars
  <1>f. /\ pc \in Waits /\ save = "off"
        /\ UNCHANGED <<fileVars, queueVars, planVars, saved_printing,
                       saved_type, saved_sdpos, isrVars, ret, line, segs,
                       finished, ghostVars>>
        /\ paused' \in BOOLEAN
    BY DEF Resume, Core, TypeOK, SavedTypes
  <1>c. \/ saved_printing /\ pc' = "restore" /\ back' = pc
        \/ pc' = pc /\ back' = back
    BY DEF Resume
  <1>q. saved_printing => already \/ line = NoLine
    OBVIOUS
  <1>1. FileTypes' /\ QueueTypes' /\ PlanTypes' /\ SavedTypes'
    BY <1>f DEF Core, TypeOK, FileTypes, QueueTypes, PlanTypes, SavedTypes
  <1>2. MainTypes' /\ SaveTypes' /\ GhostTypes'
    BY <1>f, <1>c DEF Core, TypeOK, MainTypes, SaveTypes, GhostTypes, Waits
  <1>3. BuflenAgrees' /\ QueueBytes' /\ Control' /\ (Inv => Alone')
    BY <1>f, <1>c DEF Core, Inv, BuflenAgrees, Window, QueueBytes, Control, Alone, Waits
  <1>4. Processed'
    BY <1>f, <1>c, <1>q DEF Core, Processed, InCommand, Waits
  <1> QED
    BY <1>f, <1>c, <1>q, <1>1, <1>2, <1>3, <1>4, MainFrame
       DEF Core, Inv, TypeOK, QueueChain, Working, InCommand, Waits

-----------------------------------------------------------------------------
(* The queue and the planner                                               *)

\* A line enters the queue behind all others.
LEMMA CommitLineStep == Core /\ CommitLine => Core' /\ (Inv => Inv')
  <1> SUFFICES ASSUME Core, CommitLine PROVE Core' /\ (Inv => Inv')
    OBVIOUS
  <1> DEFINE n == Len(cmds)
             c == [type |-> "SDCARD", what |-> "line",
                   len  |-> Trunc(readpos - sdpos_atomic),
                   from |-> sdpos_atomic, to |-> readpos]
  <1> USE DEF CommitLine, Running, fileVars, queueVars, planVars, savedVars,
              mainVars, isrVars, ghostVars
  <1>s. ShapeOK
    BY Shape DEF Core
  <1>c. c \in Command /\ sdpos_atomic < readpos
    BY <1>s, TruncFacts DEF ShapeOK, Command, Types, Kinds, Core, Control
  <1>v. /\ cmds' \in Seq(Command) /\ Len(cmds') = n + 1
        /\ \A i \in 1 .. n : cmds'[i] = cmds[i]
        /\ cmds'[n + 1] = c
    BY <1>s, <1>c, AppendShape DEF ShapeOK
  <1> HIDE DEF c
  <1>e. /\ c.from = sdpos_atomic /\ c.to = readpos /\ c.type = "SDCARD"
        /\ c.len = Trunc(readpos - sdpos_atomic)
    BY DEF c
  <1>q. QueueStart' = QueueStart /\ ResumePoint' = ResumePoint
    <2>1. CASE n = 0
      BY <1>s, <1>v, <1>e, <2>1 DEF QueueStart, ResumePoint, ShapeOK
    <2>2. CASE n > 0
      BY <1>s, <1>v, <2>2 DEF QueueStart, ResumePoint, ShapeOK
    <2> QED
      BY <1>s, <2>1, <2>2 DEF ShapeOK
  <1>1. FileTypes' /\ QueueTypes' /\ PlanTypes' /\ SavedTypes'
    BY <1>s, <1>v DEF Core, TypeOK, FileTypes, QueueTypes, PlanTypes,
                      SavedTypes, ShapeOK
  <1>2. MainTypes' /\ SaveTypes' /\ GhostTypes'
    BY DEF Core, TypeOK, MainTypes, SaveTypes, GhostTypes
  <1>3. QueueChain'
    <2>1. /\ n \in Nat /\ sdpos_atomic' = readpos /\ readpos' = readpos
          /\ \A i \in 1 .. n : cmds[i].to <= sdpos_atomic /\ cmds[i].to \in Int
      BY <1>s, CoreOrder DEF ShapeOK
    <2>2. QueueChain
      BY DEF Core
    <2>3. \A i \in 1 .. n + 1 : i = n + 1 \/ i \in 1 .. n
      BY <2>1
    <2>4. /\ \A i \in 1 .. n + 1 : cmds'[i].from <= cmds'[i].to
          /\ \A i, j \in 1 .. n + 1 : i < j => cmds'[i].to <= cmds'[j].from
      BY <1>s, <1>c, <1>v, <1>e, <2>1, <2>2, <2>3 DEF QueueChain, ShapeOK
    <2>5. \A i, j \in 1 .. n + 1 : j = i + 1 => cmds'[i].to = cmds'[j].from
      BY <1>v, <1>e, <2>1, <2>2, <2>3 DEF QueueChain
    <2> QED
      BY <1>s, <1>v, <1>e, <2>1, <2>4, <2>5 DEF QueueChain, ShapeOK
  <1>4. QueueBytes'
    BY <1>s, <1>c, <1>v, <1>e DEF Core, QueueBytes, ShapeOK
  <1>5. BuflenAgrees' /\ Control' /\ (Inv => Alone')
    BY <1>s, <1>v DEF Core, Inv, BuflenAgrees, Window, Control, Alone, ShapeOK
  <1>6. Inv => BlockLines'
    BY DEF Core, Inv, BlockLines, Unfinished, InCommand
  <1>a. Processed'
    <2>1. Len(cmds) > 0 => Len(cmds') > 0 /\ cmds'[1] = cmds[1]
      BY <1>s, <1>v DEF ShapeOK
    <2> QED
      BY <2>1 DEF Core, Processed, InCommand, Control
  <1>7. BlockChain'
    BY <1>q DEF Core, BlockChain
  <1>8. Summed' /\ (Inv => Quiet' /\ Saver')
    BY <1>s DEF Core, Inv, Alone, Control, Quiet, Saver, SavedSD, Waits, Summed,
                PositionSaved, ShapeOK
  <1>9. Inv => Moved'
    <2> SUFFICES ASSUME Inv PROVE Moved'
      OBVIOUS
    <2>1. Pending \subseteq Pending'
      <3>1. \A i \in 1 .. n : i \in 1 .. Len(cmds') /\ cmds'[i] = cmds[i]
        BY <1>s, <1>v DEF ShapeOK
      <3> QED
        BY <3>1 DEF Pending
    <2> QED
      BY <1>s, <1>c, <1>q, <2>1 DEF Core, Inv, Alone, Control, Moved, SavedSD, ShapeOK,
                                               Quiet
  <1>b. Inv => MovedHere'
    BY <1>q DEF Core, Inv, MovedHere, InCommand, Control
  <1> QED
    BY <1>b, <1>1, <1>2, <1>3, <1>4, <1>5, <1>6, <1>7, <1>8, <1>9, <1>a
       DEF Core, Inv, TypeOK

\* A command of the printer's own is appended: it stands for no byte of the
\* file.
LEMMA AppendStep ==
    ASSUME Core, NEW k \in Kinds, save = "off", pc \in {"idle", "proc", "loop"},
           pc' = pc \/ (pc = "proc" /\ pc' = "hand"),
           cmds' = Append(cmds, UI(k, sdpos_atomic)), buflen' = buflen + 1,
           UNCHANGED <<fileVars, already, planVars, savedVars, ret, back, line,
                       segs, isrVars, finished, ghostVars>>
    PROVE  Core' /\ (Inv => Inv')
  <1> DEFINE n == Len(cmds)
             c == UI(k, sdpos_atomic)
  <1> USE DEF fileVars, queueVars, planVars, savedVars, isrVars, ghostVars
  <1>s. ShapeOK
    BY Shape DEF Core
  <1>c. c \in Command
    BY <1>s DEF ShapeOK, Command, Types, UI
  <1>v. /\ cmds' \in Seq(Command) /\ Len(cmds') = n + 1
        /\ \A i \in 1 .. n : cmds'[i] = cmds[i]
        /\ cmds'[n + 1] = c
    BY <1>s, <1>c, AppendShape DEF ShapeOK
  <1> HIDE DEF c
  <1>e. c.from = sdpos_atomic /\ c.to = sdpos_atomic /\ c.type = "UI"
    BY DEF c, UI
  <1>q. QueueStart' = QueueStart /\ ResumePoint' = ResumePoint
    <2>1. CASE n = 0
      BY <1>s, <1>v, <1>e, <2>1 DEF QueueStart, ResumePoint, ShapeOK
    <2>2. CASE n > 0
      <3>1. n \in Nat
        BY <1>s DEF ShapeOK
      <3>2. cmds # <<>> /\ cmds' # <<>> /\ cmds'[1] = cmds[1]
        BY ONLY <1>v, <2>2, <3>1
      <3> QED
        BY <3>2 DEF QueueStart, ResumePoint
    <2> QED
      BY <1>s, <2>1, <2>2 DEF ShapeOK
  <1>1. FileTypes' /\ QueueTypes' /\ PlanTypes' /\ SavedTypes'
    BY <1>s, <1>v DEF Core, TypeOK, FileTypes, QueueTypes, PlanTypes,
                      SavedTypes, ShapeOK
  <1>2. MainTypes' /\ SaveTypes' /\ GhostTypes'
    BY DEF Core, TypeOK, MainTypes, SaveTypes, GhostTypes
  <1>3. QueueChain'
    BY <1>s, <1>v, <1>e, CoreOrder DEF Core, QueueChain, ShapeOK
  <1>4. QueueBytes'
    BY <1>s, <1>v, <1>e DEF Core, QueueBytes, ShapeOK
  <1>5. BuflenAgrees' /\ Control' /\ (Inv => Alone')
    BY <1>s, <1>v DEF Core, Inv, BuflenAgrees, Window, Control, Alone, ShapeOK
  <1>6. BlockChain' /\ (Inv => BlockLines')
    BY <1>q DEF Core, Inv, BlockLines, BlockChain, Unfinished, InCommand
  <1>7. Processed'
    <2>1. Len(cmds) > 0 => Len(cmds') > 0 /\ cmds'[1] = cmds[1]
      BY <1>s, <1>v DEF ShapeOK
    <2> QED
      BY <2>1 DEF Core, Processed, InCommand, Control
  <1>8. Inv => Quiet'
    BY <1>s, <1>v, <1>e DEF Core, Inv, Quiet, ShapeOK
  <1>9. Summed' /\ (Inv => Saver')
    BY <1>s DEF Core, Inv, Saver, SavedSD, Waits, Summed, PositionSaved, ShapeOK
  <1>10. Inv => Moved'
    <2> SUFFICES ASSUME Inv PROVE Moved'
      OBVIOUS
    <2>1. Pending \subseteq Pending'
      BY <1>s, <1>v DEF Pending, ShapeOK
    <2> QED
      BY <1>s, <1>q, <2>1 DEF Core, Inv, Moved, SavedSD, ShapeOK
  <1>11. Inv => MovedHere'
    BY <1>q DEF Core, Inv, MovedHere, InCommand
  <1> QED
    BY <1>11, <1>1, <1>2, <1>3, <1>4, <1>5, <1>6, <1>7, <1>8, <1>9, <1>10
       DEF Core, Inv, TypeOK

\* The menu appends a command.
LEMMA EnqueueUIStep == Core /\ EnqueueUI => Core' /\ (Inv => Inv')
  BY AppendStep DEF EnqueueUI, Kinds, mainVars

\* A command is pushed to the front, in the first of the two steps of
\* enquecommand_front(): it stands for no byte of the file, and no line that
\* is partly planned stands behind it.
LEMMA PushFrontStep == Core /\ (RepeatAfterHoming \/ EnqueueM600) => Core' /\ (Inv => Inv')
  <1> SUFFICES ASSUME Core, RepeatAfterHoming \/ EnqueueM600 PROVE Core' /\ (Inv => Inv')
    OBVIOUS
  <1> DEFINE n == Len(cmds)
             c == [UI("ui", QueueStart) EXCEPT !.type = "STALE"]
  <1>a. /\ cmds' = <<c>> \o cmds /\ pc' = "front"
        /\ save = "off" /\ power = "on"
        /\ UNCHANGED <<fileVars, buflen, planVars, savedVars, isrVars, ret,
                       line, segs, finished, ghostVars>>
    BY DEF RepeatAfterHoming, EnqueueM600, Running
  <1>b. \/ pc = "proc" /\ segs = 0 /\ back' = "hand" /\ already'
        \/ pc = "m600" /\ back' = back /\ already' = already
    BY DEF RepeatAfterHoming, EnqueueM600, Running, queueVars
  <1> USE DEF fileVars, planVars, savedVars, isrVars, ghostVars
  <1>s. ShapeOK
    BY Shape DEF Core
  <1>c. c \in Command
    BY CoreOrder DEF Command, Types, Kinds, UI
  <1>v. /\ cmds' \in Seq(Command) /\ Len(cmds') = n + 1
        /\ cmds'[1] = c
        /\ \A i \in 2 .. n + 1 : cmds'[i] = cmds[i - 1]
    BY <1>a, <1>s, <1>c, ConsShape DEF ShapeOK
  <1>e. c.from = QueueStart /\ c.to = QueueStart /\ c.type = "STALE"
    BY DEF UI
  <1> HIDE DEF c
  <1>p. \A i \in 1 .. n : cmds[i].type \notin {"STALE", "TO_BE_REMOVED"}
    BY <1>a, <1>b DEF Core, QueueBytes
  <1>o. \A i \in 1 .. n : QueueStart <= cmds[i].from
    <2>1. CASE n = 0
      BY <2>1
    <2>2. CASE n > 0
      <3>1. QueueStart = cmds[1].from
        BY <1>p, <1>s, <2>2 DEF QueueStart, ShapeOK
      <3>2. \A i \in 1 .. n : i = 1 \/ cmds[1].to <= cmds[i].from
        BY <1>s, <2>2 DEF Core, QueueChain, ShapeOK
      <3>3. cmds[1].from <= cmds[1].to
        BY <1>s, <2>2 DEF Core, QueueChain, ShapeOK
      <3> QED
        BY <1>s, <2>2, <3>1, <3>2, <3>3 DEF ShapeOK
    <2> QED
      BY <1>s, <2>1, <2>2 DEF ShapeOK
  <1>q. QueueStart' = QueueStart /\ ResumePoint' = ResumePoint
    BY <1>a, <1>b, <1>s, <1>v, <1>e DEF QueueStart, ResumePoint, ShapeOK
  <1>h. /\ n > 0 => QueueStart = cmds[1].from
        /\ n = 0 => QueueStart = sdpos_atomic
    BY <1>p, <1>s DEF QueueStart, ShapeOK
  <1>1. FileTypes' /\ QueueTypes' /\ PlanTypes' /\ SavedTypes'
    BY <1>a, <1>b, <1>v, <1>s DEF Core, TypeOK, FileTypes, QueueTypes, PlanTypes,
                      SavedTypes, ShapeOK
  <1>2. MainTypes' /\ SaveTypes' /\ GhostTypes'
    BY <1>a, <1>b DEF Core, TypeOK, MainTypes, SaveTypes, GhostTypes
  <1>3. QueueChain'
    <2>i. \A i \in 1 .. Len(cmds') : i = 1 \/ i - 1 \in 1 .. n
      BY <1>s, <1>v DEF ShapeOK
    <2>t. \A i \in 1 .. n : cmds[i].from \in Int /\ cmds[i].to \in Int
      BY <1>s DEF ShapeOK
    <2>1. \A i \in 1 .. Len(cmds') : cmds'[i].from <= cmds'[i].to
      <3> TAKE i \in 1 .. Len(cmds')
      <3>1. CASE i = 1
        BY <3>1, <1>v, <1>e, CoreOrder
      <3>2. CASE i - 1 \in 1 .. n
        BY <3>2, <1>s, <1>v DEF Core, QueueChain, ShapeOK
      <3> QED
        BY <2>i, <3>1, <3>2
    <2>2. ASSUME NEW i \in 1 .. Len(cmds'), NEW j \in 1 .. Len(cmds'), i < j
          PROVE  cmds'[i].to <= cmds'[j].from
      <3>1. j - 1 \in 1 .. n /\ cmds'[j] = cmds[j - 1]
        BY <2>2, <1>s, <1>v DEF ShapeOK
      <3>2. CASE i = 1
        BY <3>1, <3>2, <1>v, <1>e, <1>o
      <3>3. CASE i - 1 \in 1 .. n
        <4>1. cmds'[i] = cmds[i - 1] /\ i - 1 < j - 1
          BY <3>3, <2>2, <1>s, <1>v DEF ShapeOK
        <4> QED
          BY <3>1, <3>3, <4>1 DEF Core, QueueChain
      <3> QED
        BY <2>i, <3>2, <3>3
    <2>3. ASSUME NEW i \in 1 .. Len(cmds'), NEW j \in 1 .. Len(cmds'), j = i + 1
          PROVE  cmds'[i].to = cmds'[j].from
      <3>1. j - 1 \in 1 .. n /\ cmds'[j] = cmds[j - 1]
        BY <2>3, <1>s, <1>v DEF ShapeOK
      <3>2. CASE i = 1
        BY <3>1, <3>2, <2>3, <1>s, <1>v, <1>e, <1>h DEF ShapeOK
      <3>3. CASE i - 1 \in 1 .. n
        <4>1. cmds'[i] = cmds[i - 1] /\ j - 1 = (i - 1) + 1
          BY <3>3, <2>3, <1>s, <1>v DEF ShapeOK
        <4> QED
          BY <3>1, <3>3, <4>1 DEF Core, QueueChain
      <3> QED
        BY <2>i, <3>2, <3>3
    <2>4. cmds'[Len(cmds')].to = sdpos_atomic
      BY <1>s, <1>v, <1>e, <1>h DEF Core, QueueChain, ShapeOK
    <2> QED
      BY <1>a, <1>b, <2>1, <2>2, <2>3, <2>4 DEF Core, QueueChain
  <1>4. QueueBytes'
    BY <1>a, <1>b, <1>s, <1>v, <1>e, <1>p DEF Core, QueueBytes, ShapeOK
  <1>5. BuflenAgrees' /\ Control' /\ (Inv => Alone')
    BY <1>a, <1>b, <1>s, <1>v, <1>e DEF Core, Inv, BuflenAgrees, Window, Control, Alone, ShapeOK
  <1>6. Inv => BlockLines'
    BY <1>a, <1>b, <1>s DEF Core, Inv, BlockLines, Unfinished, InCommand,
                Processed, ShapeOK
  <1>7. BlockChain'
    BY <1>a, <1>b, <1>q DEF Core, BlockChain
  <1>8. Processed'
    BY <1>a, <1>b DEF Core, Processed, InCommand
  <1>9. Inv => Quiet'
    BY <1>a, <1>b, <1>s, <1>v, <1>e DEF Core, Inv, Quiet, ShapeOK
  <1>10. Summed' /\ (Inv => Saver')
    BY <1>a, <1>b, <1>s DEF Core, Inv, Saver, SavedSD, Waits, Summed, PositionSaved, ShapeOK
  <1>11. Inv => Moved'
    <2> SUFFICES ASSUME Inv PROVE Moved'
      OBVIOUS
    <2>1. Pending \subseteq Pending'
      <3>1. \A i \in 1 .. n : i + 1 \in 1 .. Len(cmds') /\ cmds'[i + 1] = cmds[i]
        BY <1>s, <1>v DEF ShapeOK
      <3> QED
        BY <1>a, <1>b, <3>1 DEF Pending
    <2> QED
      BY <1>a, <1>b, <1>s, <1>q, <2>1 DEF Core, Inv, Moved, SavedSD, ShapeOK
  <1>12. Inv => MovedHere'
    BY <1>a, <1>b, <1>q DEF Core, Inv, MovedHere, InCommand
  <1> QED
    BY <1>12, <1>1, <1>2, <1>3, <1>4, <1>5, <1>6, <1>7, <1>8, <1>9, <1>10, <1>11
       DEF Core, Inv, TypeOK

\* The command in front is written: now it counts.
LEMMA EnqueueFrontCommitStep == Core /\ EnqueueFrontCommit => Core' /\ (Inv => Inv')
  <1> SUFFICES ASSUME Core, EnqueueFrontCommit PROVE Core' /\ (Inv => Inv')
    OBVIOUS
  <1> DEFINE n == Len(cmds)
  <1> USE DEF EnqueueFrontCommit, Running, fileVars, queueVars, planVars,
              savedVars, mainVars, isrVars, ghostVars
  <1>s. ShapeOK
    BY Shape DEF Core
  <1>h. n > 0 /\ 1 \in 1 .. n /\ cmds[1].type = "STALE"
    BY <1>s DEF Core, Control, ShapeOK
  <1>v. /\ cmds' \in Seq(Command) /\ Len(cmds') = n
        /\ \A i \in 1 .. n : cmds'[i].from = cmds[i].from /\ cmds'[i].to = cmds[i].to
                             /\ cmds'[i].len = cmds[i].len
        /\ cmds'[1].type = "UI"
        /\ \A i \in 2 .. n : cmds'[i].type = cmds[i].type
    <2>1. cmds \in Seq(Command) /\ "UI" \in Types
      BY <1>s DEF ShapeOK, Types
    <2>2. cmds' = [cmds EXCEPT ![1].type = "UI"]
      OBVIOUS
    <2>3. /\ cmds' \in Seq(Command) /\ Len(cmds') = n
          /\ cmds'[1].from = cmds[1].from /\ cmds'[1].to = cmds[1].to
          /\ cmds'[1].len = cmds[1].len /\ cmds'[1].type = "UI"
          /\ \A i \in 2 .. n : cmds'[i] = cmds[i]
      BY ONLY <1>h, <2>1, <2>2, RetypeShape
    <2>5. \A i \in 1 .. n : i = 1 \/ i \in 2 .. n
      BY <1>s DEF ShapeOK
    <2> QED
      BY <2>3, <2>5
  <1> HIDE DEF EnqueueFrontCommit
  <1>f. /\ pc = "front" /\ pc' = back /\ save = "off" /\ buflen' = buflen + 1
        /\ UNCHANGED <<fileVars, already, planVars, savedVars, isrVars, ret,
                       back, line, segs, finished, ghostVars>>
    BY DEF EnqueueFrontCommit
  <1>b. back \in {"idle", "proc", "finish", "hand"}
    BY DEF Core, TypeOK, MainTypes
  <1>q. QueueStart' = QueueStart /\ ResumePoint' = ResumePoint
    BY <1>f, <1>s, <1>h, <1>v DEF QueueStart, ResumePoint, ShapeOK
  <1>1. FileTypes' /\ QueueTypes' /\ PlanTypes' /\ SavedTypes'
    BY <1>f, <1>v, <1>s DEF Core, TypeOK, FileTypes, QueueTypes, PlanTypes,
                            SavedTypes, ShapeOK
  <1>2. MainTypes' /\ SaveTypes' /\ GhostTypes'
    BY <1>f DEF Core, TypeOK, MainTypes, SaveTypes, GhostTypes
  <1>3. QueueChain'
    BY <1>f, <1>b, <1>s, <1>v DEF Core, QueueChain, ShapeOK
  <1>4. QueueBytes'
    <2> SUFFICES ASSUME NEW i \in 1 .. n
                 PROVE  QueueBytes!(i)'
      BY <1>v DEF QueueBytes
    <2>1. CASE i = 1
      BY <2>1, <1>h, <1>v DEF Core, QueueBytes
    <2>2. CASE i \in 2 .. n
      BY <2>2, <1>f, <1>v DEF Core, QueueBytes
    <2> QED
      BY <2>1, <2>2, <1>s DEF ShapeOK
  <1>5. BuflenAgrees'
    BY <1>f, <1>b, <1>s, <1>v DEF Core, BuflenAgrees, Window, ShapeOK
  <1>12. Control' /\ (Inv => Alone')
    BY <1>f, <1>b DEF Core, Inv, Control, Alone
  <1>6. Inv => BlockLines'
    BY <1>f DEF Core, Inv, BlockLines, Unfinished, InCommand
  <1>7. BlockChain'
    BY <1>f, <1>q DEF Core, BlockChain
  <1>8. Processed'
    BY <1>f, <1>b DEF Core, Processed, InCommand
  <1>9. Inv => Quiet'
    BY <1>f, <1>s, <1>v DEF Core, Inv, Quiet, ShapeOK
  <1>10. Summed' /\ (Inv => Saver')
    BY <1>f, <1>b, <1>s DEF Core, Inv, Saver, SavedSD, Waits, Summed, PositionSaved
  <1>11. Inv => Moved'
    <2> SUFFICES ASSUME Inv PROVE Moved'
      OBVIOUS
    <2>1. Pending \subseteq Pending'
      <3>1. \A i \in 1 .. n : cmds[i].type = "SDCARD" => cmds'[i].type = "SDCARD"
        BY <1>s, <1>h, <1>v DEF ShapeOK
      <3> QED
        BY <1>f, <1>v, <3>1 DEF Pending
    <2> QED
      BY <1>f, <1>q, <2>1 DEF Core, Inv, Moved, SavedSD
  <1>13. Inv => MovedHere'
    BY <1>f, <1>b, <1>q DEF Core, Inv, MovedHere, InCommand
  <1> QED
    BY <1>13, <1>1, <1>2, <1>3, <1>4, <1>5, <1>6, <1>7, <1>8, <1>9, <1>10, <1>11,
       <1>12 DEF Core, Inv, TypeOK

\* The command at the head is removed.
LEMMA PopAdvanceStep == Core /\ PopAdvance => Core' /\ (Inv => Inv')
  <1> SUFFICES ASSUME Core, PopAdvance PROVE Core' /\ (Inv => Inv')
    OBVIOUS
  <1> DEFINE n == Len(cmds)
  <1> USE DEF fileVars, queueVars, planVars, savedVars, isrVars
  <1>s. ShapeOK
    BY Shape DEF Core
  <1>f. /\ pc = "pop2" /\ pc' = ret /\ save = "off" /\ cmds' = Tail(cmds)
        /\ ret \in {"idle", "m601"}
        /\ UNCHANGED <<fileVars, buflen, already, planVars, savedVars,
                       isrVars, ret, back, line, segs, finished, moved>>
    BY DEF PopAdvance, Running, Core, Control
  <1>h. n > 0 /\ 1 \in 1 .. n
    BY <1>f, <1>s DEF Core, Control, ShapeOK
  <1>v. /\ cmds' \in Seq(Command) /\ Len(cmds') = n - 1
        /\ \A i \in 1 .. n - 1 : cmds'[i] = cmds[i + 1] /\ i + 1 \in 1 .. n
    BY <1>f, <1>h, <1>s, TailShape DEF ShapeOK
  <1>i. \A i \in 2 .. n : i - 1 \in 1 .. Len(cmds') /\ cmds'[i - 1] = cmds[i]
    BY <1>s, <1>v DEF ShapeOK
  <1>t. \A i \in 1 .. n - 1 : cmds'[i].type \notin {"STALE", "TO_BE_REMOVED"}
    BY <1>f, <1>s, <1>v DEF Core, QueueBytes, ShapeOK
  <1>a. QueueStart' = cmds[1].to
    <2>1. CASE n = 1
      BY <2>1, <1>f, <1>s, <1>v DEF Core, QueueStart, QueueChain, ShapeOK
    <2>2. CASE n # 1
      <3>1. QueueStart' = cmds'[1].from
        BY <2>2, <1>h, <1>s, <1>v, <1>t DEF QueueStart, ShapeOK
      <3>2. cmds'[1] = cmds[2] /\ cmds[1].to = cmds[2].from
        BY <2>2, <1>h, <1>s, <1>v DEF Core, QueueChain, ShapeOK
      <3> QED
        BY <3>1, <3>2
    <2> QED
      BY <2>1, <2>2
  <1>q. ret = "idle" => QueueStart' = QueueStart /\ ResumePoint' = ResumePoint
    <2> SUFFICES ASSUME ret = "idle"
                 PROVE  QueueStart' = QueueStart /\ ResumePoint' = ResumePoint
      OBVIOUS
    <2>1. cmds[1].type \in {"UI", "TO_BE_REMOVED"}
      BY <1>f, <1>h, <1>s DEF Core, Control, QueueBytes, ShapeOK, Types
    <2>2. QueueStart = cmds[1].to
      BY <2>1, <1>h, <1>s DEF Core, QueueBytes, QueueStart, ShapeOK
    <2> QED
      BY <1>a, <1>f, <2>2 DEF ResumePoint
  <1>m. ret = "m601" => blocks = <<>> /\ ResumePoint' = cmds[1].to
                        /\ cmds[1].type = "SDCARD" /\ ResumePoint = cmds[1].from
    BY <1>a, <1>f, <1>h, <1>s
       DEF Core, Control, ResumePoint, QueueStart, ShapeOK
  <1>1. FileTypes' /\ QueueTypes' /\ PlanTypes' /\ SavedTypes'
    BY <1>f, <1>v, <1>s DEF Core, TypeOK, FileTypes, QueueTypes, PlanTypes,
                            SavedTypes, ShapeOK
  <1>2. MainTypes' /\ SaveTypes' /\ GhostTypes'
    BY <1>f, <1>h, <1>s DEF Core, TypeOK, MainTypes, SaveTypes, GhostTypes, ShapeOK, PopAdvance
  <1>3. QueueChain'
    <2>1. \A i \in 1 .. n - 1 : cmds'[i].from <= cmds'[i].to
      BY <1>v DEF Core, QueueChain
    <2>2. ASSUME NEW i \in 1 .. n - 1, NEW j \in 1 .. n - 1
          PROVE  /\ i < j => cmds'[i].to <= cmds'[j].from
                 /\ j = i + 1 => cmds'[i].to = cmds'[j].from
      <3>1. /\ cmds'[i] = cmds[i + 1] /\ cmds'[j] = cmds[j + 1]
            /\ i + 1 \in 1 .. n /\ j + 1 \in 1 .. n
            /\ i < j => i + 1 < j + 1
            /\ j = i + 1 => j + 1 = (i + 1) + 1
        BY <1>s, <1>v DEF ShapeOK
      <3> QED
        BY <3>1 DEF Core, QueueChain
    <2>3. Len(cmds') > 0 => cmds'[Len(cmds')].to = sdpos_atomic
      <3>1. Len(cmds') > 0 => cmds'[Len(cmds')] = cmds[n]
        BY <1>s, <1>v DEF ShapeOK
      <3> QED
        BY <1>h, <3>1 DEF Core, QueueChain
    <2> QED
      BY <1>f, <1>v, <2>1, <2>2, <2>3 DEF Core, QueueChain
  <1>4. QueueBytes'
    BY <1>v, <1>t DEF Core, QueueBytes
  <1>5. BuflenAgrees' /\ Control' /\ (Inv => Alone')
    BY <1>f, <1>s, <1>v DEF Core, Inv, BuflenAgrees, Window, Control, Alone, ShapeOK
  <1>6. Inv => BlockLines'
    BY <1>f DEF Core, Inv, BlockLines, Unfinished, InCommand
  <1>7. BlockChain'
    BY <1>f, <1>q, <1>m, <1>s DEF Core, BlockChain, ShapeOK
  <1>8. Processed'
    BY <1>f DEF Core, Processed, InCommand
  <1>9. Inv => Quiet'
    BY <1>f, <1>v DEF Core, Inv, Quiet
  <1>10. Summed' /\ (Inv => Saver')
    BY <1>f, <1>s DEF Core, Inv, Saver, SavedSD, Waits, Summed, PositionSaved
  <1>11. Inv => Moved'
    <2> SUFFICES ASSUME Inv, NEW l \in moved
                 PROVE  l < ResumePoint' \/ l \in Pending'
      BY <1>f DEF Core, Inv, Moved, SavedSD
    <2>0. \A i \in 1 .. n : i = 1 \/ i \in 2 .. n
      BY <1>s DEF ShapeOK
    <2>1. \A i \in 2 .. n : cmds[i].type = "SDCARD" => cmds[i].from \in Pending'
      BY <1>i DEF Pending
    <2>2. \A i \in 1 .. Len(blocks) : blocks[i].line # NoLine => blocks[i].line \in Pending'
      BY <1>f DEF Pending
    <2>3. CASE ret = "idle"
      <3>1. cmds[1].type # "SDCARD"
        BY <2>3, <1>f DEF Core, Inv, Control
      <3>2. Pending \subseteq Pending'
        BY <2>0, <2>1, <2>2, <3>1 DEF Pending
      <3> QED
        BY <1>q, <2>3, <3>2 DEF Core, Inv, Moved
    <2>4. CASE ret = "m601"
      <3>1. cmds[1].from < ResumePoint' /\ ResumePoint < ResumePoint'
        BY <2>4, <1>m, <1>h DEF Core, Inv, QueueBytes
      <3>2. l < ResumePoint => l < ResumePoint'
        BY <3>1, <1>m, <2>4, <1>h, <1>s DEF ShapeOK
      <3>3. l \in Pending => l = cmds[1].from \/ l \in Pending'
        BY <2>0, <2>1, <2>2 DEF Pending
      <3> QED
        BY <3>1, <3>2, <3>3 DEF Core, Inv, Moved
    <2> QED
      BY <1>f, <2>3, <2>4
  <1>12. Inv => MovedHere'
    <2> SUFFICES ASSUME Inv PROVE MovedHere'
      OBVIOUS
    <2>1. QueueStart <= QueueStart' /\ QueueStart \in Int /\ QueueStart' \in Int
      <3>1. QueueStart \in Int /\ cmds[1].from <= cmds[1].to /\ cmds[1].to \in Int
            /\ cmds[1].from \in Int
        BY <1>h, <1>s, CoreOrder DEF Core, Inv, QueueChain, ShapeOK
      <3>2. QueueStart \in {cmds[1].from, cmds[1].to}
        BY <1>h, <1>s DEF QueueStart, ShapeOK
      <3> QED
        BY <3>1, <3>2, <1>a
    <2>2. \A l \in moved : ~(QueueStart <= l) /\ l # NoLine /\ l \in Int
      BY <1>f, <1>s DEF Core, Inv, MovedHere, InCommand, ShapeOK
    <2> QED
      BY <1>f, <2>1, <2>2 DEF MovedHere
  <1> QED
    BY <1>12, <1>1, <1>2, <1>3, <1>4, <1>5, <1>6, <1>7, <1>8, <1>9, <1>10, <1>11
       DEF Core, Inv, TypeOK

\* Between cli() and sei() the head of the queue becomes bytes of the last
\* block.
LEMMA HandOverStep == Core /\ HandOver => Core' /\ (Inv => Inv')
  <1> SUFFICES ASSUME Core, HandOver PROVE Core' /\ (Inv => Inv')
    OBVIOUS
  <1> DEFINE n == Len(cmds)
             m == Len(blocks)
  <1> USE DEF fileVars, savedVars, isrVars
  <1>s. ShapeOK
    BY Shape DEF Core
  <1>f. /\ pc = "handover" /\ pc' = "pop" /\ ret' = "idle" /\ save = "off"
        /\ UNCHANGED <<fileVars, buflen, already, planner_aborted, savedVars,
                       isrVars, back, line, segs, finished, moved>>
    BY DEF HandOver, Running
  <1>h. n > 0 /\ 1 \in 1 .. n
    BY <1>f, <1>s DEF Core, Control, ShapeOK
  <1>t. \A i \in 1 .. n : cmds[i].type \in {"SDCARD", "UI"}
    BY <1>f, <1>s DEF Core, QueueBytes, ShapeOK, Types
  <1>1. CASE cmds[1].type # "SDCARD"
    <2>1. UNCHANGED <<cmds, blocks, reached>>
      BY <1>1 DEF HandOver
    <2>q. QueueStart' = QueueStart /\ ResumePoint' = ResumePoint
      BY <2>1, <1>f DEF QueueStart, ResumePoint
    <2>2. TypeOK'
      BY <1>f, <2>1 DEF Core, TypeOK, FileTypes, QueueTypes, PlanTypes,
                        SavedTypes, MainTypes, SaveTypes, GhostTypes
    <2>3. QueueChain' /\ BlockChain'
      BY <1>f, <2>1, <2>q DEF Core, QueueChain, BlockChain
    <2>4. QueueBytes' /\ BuflenAgrees' /\ Control' /\ (Inv => Alone')
      BY <1>1, <1>f, <1>h, <2>1 DEF Core, Inv, QueueBytes, BuflenAgrees, Window, Control, Alone
    <2>5. Processed' /\ (Inv => BlockLines')
      BY <1>1, <1>f, <1>s, <2>1
         DEF Core, Inv, Processed, BlockLines, Unfinished, InCommand, ShapeOK
    <2>6. Summed' /\ (Inv => Quiet' /\ Saver')
      BY <1>f, <2>1 DEF Core, Inv, Quiet, Saver, SavedSD, Waits, Summed, PositionSaved
    <2>7. Inv => Moved'
      BY <1>f, <2>1, <2>q DEF Core, Inv, Moved, Pending, SavedSD
    <2>8. Inv => MovedHere'
      BY <1>1, <1>f, <2>1, <2>q DEF Core, Inv, MovedHere, Processed, InCommand
    <2> QED
      BY <2>2, <2>3, <2>4, <2>5, <2>6, <2>7, <2>8 DEF Core, Inv
  <1>2. CASE cmds[1].type = "SDCARD"
    <2>f. /\ cmds' = [cmds EXCEPT ![1].type = "TO_BE_REMOVED"]
          /\ AddSdLength(cmds[1]) /\ reached' = cmds[1].to
      BY <1>2 DEF HandOver
    <2>c. cmds[1].from = QueueStart /\ cmds[1].from < cmds[1].to
      BY <1>2, <1>h, <1>s DEF Core, QueueBytes, QueueStart, ShapeOK
    <2>v. /\ cmds' \in Seq(Command) /\ Len(cmds') = n
          /\ \A i \in 1 .. n : /\ cmds'[i].from = cmds[i].from
                               /\ cmds'[i].to = cmds[i].to
                               /\ cmds'[i].len = cmds[i].len
          /\ cmds'[1].type = "TO_BE_REMOVED"
          /\ \A i \in 2 .. n : cmds'[i].type = cmds[i].type
      <3>1. cmds \in Seq(Command) /\ "TO_BE_REMOVED" \in Types
        BY <1>s DEF ShapeOK, Types
      <3>2. cmds' = [cmds EXCEPT ![1].type = "TO_BE_REMOVED"]
        BY <2>f
      <3>3. /\ cmds' \in Seq(Command) /\ Len(cmds') = n
            /\ cmds'[1].from = cmds[1].from /\ cmds'[1].to = cmds[1].to
            /\ cmds'[1].len = cmds[1].len /\ cmds'[1].type = "TO_BE_REMOVED"
            /\ \A i \in 2 .. n : cmds'[i] = cmds[i]
        BY ONLY <1>h, <3>1, <3>2, RetypeShape
      <3>5. \A i \in 1 .. n : i = 1 \/ i \in 2 .. n
        BY <1>s DEF ShapeOK
      <3> QED
        BY <3>3, <3>5
    <2>q. QueueStart' = cmds[1].to
      BY <2>v, <1>h, <1>s DEF QueueStart, ShapeOK
    <2>b. /\ blocks' \in Seq(Block) /\ Len(blocks') = m
          /\ \A i \in 1 .. m : /\ blocks'[i].from = blocks[i].from
                               /\ blocks'[i].line = blocks[i].line
          /\ \A i \in 1 .. m - 1 : /\ blocks'[i].to = blocks[i].to
                                   /\ blocks'[i].sdlen = blocks[i].sdlen
          /\ m > 0 => /\ blocks'[m].to = cmds[1].to
                      /\ blocks'[m].sdlen = Trunc(blocks[m].sdlen + cmds[1].len)
      <3>1. CASE m = 0
        BY <3>1, <2>f, <1>s DEF AddSdLength, ShapeOK
      <3>2. CASE m > 0
        <4> DEFINE b == [blocks[m] EXCEPT !.sdlen = Trunc(@ + cmds[1].len),
                                          !.to = cmds[1].to]
        <4>1. blocks[m] \in Block /\ m \in 1 .. m /\ blocks # <<>>
          BY <3>2, <1>s DEF ShapeOK
        <4>2. Trunc(blocks[m].sdlen + cmds[1].len) \in Nat
          <5>1. blocks[m].sdlen \in Nat /\ cmds[1].len \in Nat
            BY <4>1, <1>h, <1>s DEF ShapeOK
          <5>2. blocks[m].sdlen + cmds[1].len \in Int
            BY <5>1
          <5> QED
            BY <5>2, TruncFacts
        <4>3. /\ b \in Block /\ b.from = blocks[m].from /\ b.line = blocks[m].line
              /\ b.to = cmds[1].to /\ b.sdlen = Trunc(blocks[m].sdlen + cmds[1].len)
          BY <4>1, <4>2, <1>h, <1>s DEF ShapeOK, Block
        <4>4. blocks' = [blocks EXCEPT ![m] = b]
          BY <4>1, <2>f DEF AddSdLength
        <4> HIDE DEF b
        <4>5. /\ blocks' \in Seq(Block) /\ Len(blocks') = m
              /\ blocks'[m] = b
              /\ \A i \in 1 .. m - 1 : blocks'[i] = blocks[i]
          BY <4>1, <4>3, <4>4, <1>s DEF ShapeOK
        <4>6. \A i \in 1 .. m : i = m \/ i \in 1 .. m - 1
          BY <1>s DEF ShapeOK
        <4> QED
          BY <4>3, <4>5, <4>6
      <3> QED
        BY <3>1, <3>2, <1>s DEF ShapeOK
    <2>i. \A i \in 1 .. m : i = m \/ i \in 1 .. m - 1
      BY <1>s DEF ShapeOK
    <2>1. FileTypes' /\ QueueTypes' /\ PlanTypes' /\ SavedTypes'
      BY <1>f, <2>v, <2>b DEF Core, TypeOK, FileTypes, QueueTypes, PlanTypes, SavedTypes
    <2>2. MainTypes' /\ SaveTypes' /\ GhostTypes'
      BY <1>f, <1>h, <1>s, <2>f DEF Core, TypeOK, MainTypes, SaveTypes, GhostTypes, ShapeOK
    <2>3. QueueChain'
      BY <1>f, <1>s, <2>v DEF Core, QueueChain, ShapeOK
    <2>4. QueueBytes'
      <3> SUFFICES ASSUME NEW i \in 1 .. n
                   PROVE  QueueBytes!(i)'
        BY <2>v DEF QueueBytes
      <3>1. CASE i = 1
        BY <3>1, <1>f, <2>c, <2>v
      <3>2. CASE i \in 2 .. n
        BY <3>2, <1>f, <1>t, <2>v DEF Core, QueueBytes
      <3> QED
        BY <3>1, <3>2, <1>s DEF ShapeOK
    <2>5. BuflenAgrees' /\ Control' /\ (Inv => Alone')
      BY <1>f, <1>h, <2>v DEF Core, Inv, BuflenAgrees, Window, Control, Alone
    <2>6. Processed'
      BY <1>f DEF Core, Processed, InCommand
    <2>7. BlockChain'
      <3>1. \A i \in 1 .. m : blocks[i].to <= blocks'[i].to
        BY <2>b, <2>c, <2>i, <1>s, <1>h DEF Core, BlockChain, ShapeOK
      <3>2. \A i \in 1 .. m : blocks'[i].from <= blocks'[i].to
        BY <2>b, <2>c, <2>i, <1>s, <1>h DEF Core, BlockChain, ShapeOK
      <3>3. ASSUME NEW i \in 1 .. m, NEW j \in 1 .. m
            PROVE  /\ i < j => blocks'[i].to <= blocks'[j].from
                   /\ j = i + 1 => blocks'[i].to = blocks'[j].from
        <4>1. i < j \/ j = i + 1 => i \in 1 .. m - 1
          BY <1>s DEF ShapeOK
        <4> QED
          BY <4>1, <2>b DEF Core, BlockChain
      <3>4. ASSUME NEW i \in 1 .. m, blocks'[i].to - blocks'[i].from < SDLEN_MOD
            PROVE  blocks'[i].sdlen = blocks'[i].to - blocks'[i].from
        <4>1. CASE i \in 1 .. m - 1
          BY <4>1, <3>4, <2>b DEF Core, BlockChain
        <4>2. CASE i = m
          <5>1. /\ blocks[m].to = cmds[1].from /\ blocks[m].from <= blocks[m].to
                /\ blocks'[m].from = blocks[m].from /\ blocks'[m].to = cmds[1].to
            BY <4>2, <2>b, <2>c, <1>s DEF Core, BlockChain, ShapeOK
          <5>2. /\ blocks[m].from \in Int /\ blocks[m].to \in Int
                /\ cmds[1].to \in Int /\ SDLEN_MOD \in Int
            BY <4>2, <1>h, <1>s, SizeAssumption DEF ShapeOK
          <5>3. /\ blocks[m].to - blocks[m].from < SDLEN_MOD
                /\ 0 <= cmds[1].to - cmds[1].from
                /\ cmds[1].to - cmds[1].from < SDLEN_MOD
            BY <4>2, <3>4, <5>1, <5>2, <2>c
          <5>4. blocks[m].sdlen = blocks[m].to - blocks[m].from
            BY <4>2, <5>3 DEF Core, BlockChain
          <5>6. cmds[1].len = cmds[1].to - cmds[1].from
            <6>1. cmds[1].len = Trunc(cmds[1].to - cmds[1].from)
              BY <1>2, <1>h DEF Core, QueueBytes
            <6>2. cmds[1].to - cmds[1].from \in Int
              BY <1>h, <1>s DEF ShapeOK
            <6> QED
              BY <6>1, <6>2, <5>3, TruncFacts
          <5>5. /\ blocks[m].sdlen + cmds[1].len = cmds[1].to - blocks[m].from
                /\ 0 <= cmds[1].to - blocks[m].from
                /\ cmds[1].to - blocks[m].from < SDLEN_MOD
            BY <4>2, <3>4, <5>1, <5>2, <5>3, <5>4, <5>6
          <5>7. cmds[1].to - blocks[m].from \in Int
            BY <5>2
          <5>8. Trunc(blocks[m].sdlen + cmds[1].len) = cmds[1].to - blocks[m].from
            BY <5>5, <5>7, TruncFacts
          <5>9. m > 0 /\ blocks'[m].sdlen = Trunc(blocks[m].sdlen + cmds[1].len)
            BY <4>2, <2>b, <1>s DEF ShapeOK
          <5> QED
            BY <4>2, <5>1, <5>8, <5>9
        <4> QED
          BY <4>1, <4>2, <2>i
      <3>5. m > 0 => blocks'[m].to = QueueStart'
        BY <2>b, <2>q
      <3>6. \A i \in 1 .. m : blocks'[i].line \in {NoLine, blocks'[i].from}
        BY <2>b DEF Core, BlockChain
      <3> QED
        BY <2>b, <3>2, <3>3, <3>4, <3>5, <3>6 DEF BlockChain
    <2>8. Inv => BlockLines'
      <3> SUFFICES ASSUME Inv PROVE BlockLines'
        OBVIOUS
      <3>1. ASSUME NEW i \in 1 .. m, NEW j \in 1 .. m, j = i + 1, Unfinished(blocks'[i])
            PROVE  blocks'[j].line = blocks'[i].line
        <4>1. i \in 1 .. m - 1
          BY <3>1, <1>s DEF ShapeOK
        <4>2. Unfinished(blocks[i])
          BY <4>1, <3>1, <2>b DEF Unfinished
        <4> QED
          BY <3>1, <4>2, <2>b DEF Core, Inv, BlockLines
      <3>2. m > 0 => ~Unfinished(blocks'[m])
        BY <2>b, <2>c, <1>h, <1>s DEF Core, Inv, BlockChain, Unfinished, ShapeOK
      <3> QED
        BY <2>b, <3>1, <3>2 DEF BlockLines
    <2>9. Inv => Quiet'
      BY <1>2, <1>f, <1>h DEF Core, Inv, Quiet
    <2>10. Summed' /\ (Inv => Saver')
      BY <1>f DEF Core, Inv, Saver, SavedSD, Waits, Summed, PositionSaved
    <2>11. Inv => Moved'
      <3> SUFFICES ASSUME Inv PROVE Moved'
        OBVIOUS
      <3>1. ResumePoint <= ResumePoint'
        BY <2>b, <2>c, <2>q, <1>h, <1>s DEF ResumePoint, ShapeOK
      <3>2. m = 0 => ResumePoint' = cmds[1].to
        BY <2>b, <2>q, <1>s DEF ResumePoint, ShapeOK
      <3>3. \A i \in 1 .. n : i = 1 \/ i \in 2 .. n
        BY <1>s DEF ShapeOK
      <3>4. \A i \in 2 .. n : cmds[i].type = "SDCARD" => cmds[i].from \in Pending'
        BY <2>v, <3>3, <1>s DEF Pending, ShapeOK
      <3>5. \A i \in 1 .. m : blocks[i].line # NoLine => blocks[i].line \in Pending'
        BY <2>b DEF Pending
      <3> SUFFICES ASSUME Inv, NEW l \in moved
                   PROVE  l < ResumePoint' \/ l \in Pending'
        BY <1>f DEF Core, Inv, Moved, SavedSD
      <3>6. l \in Pending => l = cmds[1].from \/ l \in Pending'
        BY <3>3, <3>4, <3>5 DEF Pending
      <3>7. l < ResumePoint => l < ResumePoint'
        BY <3>1, <2>b, <2>q, <1>h, <1>s, CoreOrder DEF ResumePoint, ShapeOK
      <3>8. l = cmds[1].from /\ m > 0 => l \in Pending'
        <4> SUFFICES ASSUME l = cmds[1].from, m > 0 PROVE l \in Pending'
          OBVIOUS
        <4>1. l # NoLine /\ blocks[m].line = l
          BY <2>c, <1>h, <1>s DEF Core, Inv, MovedHere, ShapeOK
        <4> QED
          BY <4>1, <3>5, <1>s DEF ShapeOK
      <3>9. l = cmds[1].from /\ m = 0 => l < ResumePoint'
        BY <3>2, <2>c
      <3> QED
        BY <3>6, <3>7, <3>8, <3>9, <1>s DEF Core, Inv, Moved, ShapeOK
    <2>12. Inv => MovedHere'
      <3> SUFFICES ASSUME Inv PROVE MovedHere'
        OBVIOUS
      <3>1. \A l \in moved : l # NoLine /\ l \in Int /\ l <= QueueStart
        BY <1>s, CoreOrder DEF Core, Inv, MovedHere, ShapeOK
      <3>2. QueueStart < QueueStart' /\ QueueStart' \in Int
        BY <2>c, <2>q, <1>h, <1>s DEF ShapeOK
      <3> QED
        BY <1>f, <3>1, <3>2, CoreOrder DEF MovedHere
    <2> QED
      BY <2>1, <2>2, <2>3, <2>4, <2>5, <2>6, <2>7, <2>8, <2>9, <2>10, <2>11,
         <2>12
         DEF Core, Inv, TypeOK
  <1> QED
    BY <1>1, <1>2

\* A block is published behind the others: it starts where the queue does.
LEMMA PlanPublishStep == Core /\ PlanPublish => Core' /\ (Inv => Inv')
  <1> SUFFICES ASSUME Core, PlanPublish PROVE Core' /\ (Inv => Inv')
    OBVIOUS
  <1> DEFINE m == Len(blocks)
             b == [sdlen |-> 0, line |-> line, from |-> QueueStart,
                   to |-> QueueStart]
  <1> USE DEF fileVars, queueVars, savedVars, isrVars
  <1>s. ShapeOK
    BY Shape DEF Core
  <1>f. /\ pc = "prep" /\ pc' = "proc" /\ segs' = segs + 1 /\ save = "off"
        /\ UNCHANGED <<fileVars, queueVars, planner_aborted, savedVars,
                       isrVars, ret, back, line, finished, reached>>
    BY DEF PlanPublish, Running
  <1>q. QueueStart' = QueueStart
    BY <1>f DEF QueueStart
  <1>a. /\ QueueChain' /\ QueueBytes' /\ BuflenAgrees' /\ Control' /\ Processed' /\ Summed'
        /\ (Inv => Alone' /\ Saver')
    BY <1>f, <1>s DEF Core, Inv, QueueChain, QueueBytes, BuflenAgrees, Window, Control, Alone,
                Processed, InCommand, Saver, SavedSD, Waits, Summed,
                PositionSaved
  <1>b. FileTypes' /\ QueueTypes' /\ SavedTypes' /\ MainTypes' /\ SaveTypes'
    BY <1>f DEF Core, TypeOK, FileTypes, QueueTypes, SavedTypes, MainTypes,
                SaveTypes
  <1>1. CASE planner_aborted
    <2>1. UNCHANGED <<blocks, moved>>
      BY <1>1 DEF PlanPublish
    <2>2. ResumePoint' = ResumePoint /\ Pending' = Pending
      BY <1>f, <1>q, <2>1 DEF ResumePoint, Pending
    <2>3. PlanTypes' /\ GhostTypes' /\ BlockChain' /\ (Inv => Quiet')
      BY <1>f, <1>q, <2>1 DEF Core, Inv, TypeOK, PlanTypes, GhostTypes, Quiet,
                              BlockChain
    <2>4. Inv => BlockLines' /\ MovedHere'
      BY <1>f, <1>q, <1>s, <2>1 DEF Core, Inv, BlockLines, Unfinished, MovedHere,
                              InCommand, ShapeOK
    <2>5. Inv => Moved'
      BY <1>f, <2>1, <2>2 DEF Core, Inv, Moved, SavedSD
    <2> QED
      BY <1>a, <1>b, <2>3, <2>4, <2>5 DEF Core, Inv, TypeOK
  <1>2. CASE ~planner_aborted
    <2>f. blocks' = Append(blocks, b) /\ moved' = moved \cup ({line} \ {NoLine})
      BY <1>2 DEF PlanPublish
    <2>h. /\ ~already
          /\ line # NoLine => /\ Len(cmds) > 0 /\ 1 \in 1 .. Len(cmds)
                              /\ cmds[1].type = "SDCARD"
                              /\ cmds[1].from = line /\ QueueStart = line
                              /\ line < cmds[1].to
      BY <1>2, <1>f, <1>s DEF Core, Processed, InCommand, QueueStart, QueueBytes,
                              ShapeOK
    <2>b. b \in Block
      BY <1>s, CoreOrder DEF Block, ShapeOK
    <2>v. /\ blocks' \in Seq(Block) /\ Len(blocks') = m + 1
          /\ \A i \in 1 .. m : blocks'[i] = blocks[i]
          /\ blocks'[m + 1] = b
      BY <1>s, <2>b, <2>f, AppendShape DEF ShapeOK
    <2>e. b.from = QueueStart /\ b.to = QueueStart /\ b.sdlen = 0 /\ b.line = line
      OBVIOUS
    <2> HIDE DEF b
    <2>i. \A i \in 1 .. m + 1 : i = m + 1 \/ i \in 1 .. m
      BY <1>s DEF ShapeOK
    <2>r. ResumePoint' = ResumePoint
      BY <1>q, <1>s, <2>e, <2>v DEF ResumePoint, ShapeOK
    <2>1. PlanTypes' /\ GhostTypes'
      BY <1>f, <1>s, <2>f, <2>v DEF Core, TypeOK, PlanTypes, GhostTypes, ShapeOK
    <2>2. BlockChain'
      <3>1. \A i \in 1 .. m + 1 : blocks'[i].from <= blocks'[i].to
        BY <2>e, <2>i, <2>v, CoreOrder DEF Core, BlockChain
      <3>2. \A i, j \in 1 .. m + 1 : i < j => blocks'[i].to <= blocks'[j].from
        BY <1>s, <2>e, <2>i, <2>v, CoreOrder DEF Core, BlockChain, ShapeOK
      <3>3. \A i, j \in 1 .. m + 1 : j = i + 1 => blocks'[i].to = blocks'[j].from
        BY <1>s, <2>e, <2>i, <2>v DEF Core, BlockChain, ShapeOK
      <3>4. blocks'[m + 1].to = QueueStart'
        BY <1>q, <2>e, <2>v
      <3>5. \A i \in 1 .. m + 1 :
              /\ blocks'[i].line \in {NoLine, blocks'[i].from}
              /\ blocks'[i].to - blocks'[i].from < SDLEN_MOD
                    => blocks'[i].sdlen = blocks'[i].to - blocks'[i].from
        BY <2>e, <2>h, <2>i, <2>v, CoreOrder DEF Core, BlockChain
      <3> QED
        BY <2>v, <3>1, <3>2, <3>3, <3>4, <3>5 DEF BlockChain
    <2>3. Inv => BlockLines'
      <3> SUFFICES ASSUME Inv PROVE BlockLines'
        OBVIOUS
      <3>1. ASSUME NEW i \in 1 .. m + 1, NEW j \in 1 .. m + 1, j = i + 1,
                   Unfinished(blocks'[i])
            PROVE  blocks'[j].line = blocks'[i].line
        <4>1. i \in 1 .. m /\ blocks'[i] = blocks[i]
          BY <3>1, <2>v, <1>s DEF ShapeOK
        <4>2. CASE i = m
          BY <4>1, <4>2, <3>1, <2>e, <2>v, <1>s DEF Core, Inv, BlockLines, ShapeOK
        <4>3. CASE i # m
          <5>1. j \in 1 .. m /\ blocks'[j] = blocks[j]
            BY <4>1, <4>3, <3>1, <2>v, <1>s DEF ShapeOK
          <5> QED
            BY <5>1, <4>1, <3>1 DEF Core, Inv, BlockLines
        <4> QED
          BY <4>2, <4>3
      <3>2. /\ InCommand' /\ ~already' /\ segs' > 0
            /\ line' = blocks'[Len(blocks')].line
        BY <1>f, <1>s, <2>h, <2>e, <2>v DEF InCommand, ShapeOK
      <3> QED
        BY <2>v, <3>1, <3>2 DEF BlockLines
    <2>4. Inv => Quiet'
      BY <1>f, <1>s, <2>e, <2>h, <2>i, <2>v DEF Core, Inv, Quiet, ShapeOK
    <2>5. Inv => Moved'
      <3> SUFFICES ASSUME Inv PROVE Moved'
        OBVIOUS
      <3>1. Pending \subseteq Pending'
        <4>1. \A i \in 1 .. m : i \in 1 .. Len(blocks') /\ blocks'[i] = blocks[i]
          BY <1>s, <2>v DEF ShapeOK
        <4> QED
          BY <1>f, <4>1 DEF Pending
      <3>2. line # NoLine => /\ line \in Pending' /\ line < sdpos_atomic
                             /\ ~saved_printing
        <4> SUFFICES ASSUME line # NoLine
                     PROVE  /\ line \in Pending' /\ line < sdpos_atomic
                            /\ ~saved_printing
          OBVIOUS
        <4>1. line \in Pending'
          BY <1>f, <2>h DEF Pending
        <4>2. line < sdpos_atomic
          BY <2>h, <1>s, CoreOrder DEF ShapeOK
        <4> QED
          BY <4>1, <4>2, <2>h DEF Core, Inv, Quiet
      <3> QED
        BY <1>f, <2>f, <2>r, <3>1, <3>2 DEF Core, Inv, Moved, SavedSD
    <2>6. Inv => MovedHere'
      BY <1>f, <1>q, <1>s, <2>e, <2>f, <2>h, <2>v
         DEF Core, Inv, MovedHere, InCommand, ShapeOK
    <2> QED
      BY <1>a, <1>b, <2>1, <2>2, <2>3, <2>4, <2>5, <2>6 DEF Core, Inv, TypeOK
  <1> QED
    BY <1>1, <1>2

\* The moves back to the saved position belong to no line.
LEMMA RestoreMoveStep == Core /\ RestoreMove => Core' /\ (Inv => Inv')
  <1> SUFFICES ASSUME Core, RestoreMove PROVE Core' /\ (Inv => Inv')
    OBVIOUS
  <1> DEFINE b == [sdlen |-> 0, line |-> NoLine, from |-> QueueStart,
                   to |-> QueueStart]
  <1> USE DEF fileVars, queueVars, savedVars, isrVars, ghostVars
  <1>s. ShapeOK
    BY Shape DEF Core
  <1>f. /\ pc = "restore" /\ save = "off" /\ blocks = <<>> /\ blocks' = <<b>>
        /\ segs' = segs + 1
        /\ UNCHANGED <<fileVars, queueVars, planner_aborted, savedVars, isrVars,
                       pc, ret, back, line, finished, ghostVars>>
    BY DEF RestoreMove, Running
  <1>q. QueueStart' = QueueStart
    BY <1>f DEF QueueStart
  <1>b. b \in Block
    BY CoreOrder DEF Block, NoLine
  <1>e. b.from = QueueStart /\ b.to = QueueStart /\ b.sdlen = 0 /\ b.line = NoLine
    OBVIOUS
  <1> HIDE DEF b
  <1>v. Len(blocks') = 1 /\ blocks'[1] = b /\ blocks' \in Seq(Block)
    BY <1>f, <1>b
  <1>r. ResumePoint' = ResumePoint
    BY <1>f, <1>q, <1>e, <1>v DEF ResumePoint
  <1>1. /\ QueueChain' /\ QueueBytes' /\ BuflenAgrees' /\ Control' /\ Processed' /\ Summed'
        /\ (Inv => Alone' /\ Saver')
    BY <1>f, <1>s DEF Core, Inv, QueueChain, QueueBytes, BuflenAgrees, Window, Control, Alone,
                Processed, InCommand, Saver, SavedSD, Waits, Summed,
                PositionSaved
  <1>2. FileTypes' /\ QueueTypes' /\ SavedTypes' /\ SaveTypes' /\ PlanTypes'
    BY <1>f, <1>v DEF Core, TypeOK, FileTypes, QueueTypes, SavedTypes,
                SaveTypes, PlanTypes
  <1>3. MainTypes' /\ GhostTypes'
    BY <1>f DEF Core, TypeOK, MainTypes, GhostTypes
  <1>4. BlockChain' /\ (Inv => BlockLines' /\ Quiet')
    <2>1. \A i \in 1 .. 1 : i = 1
      OBVIOUS
    <2>2. BlockChain'
      BY <1>q, <1>e, <1>v, <2>1, CoreOrder DEF Core, BlockChain
    <2>3. Inv => BlockLines' /\ Quiet'
      BY <1>f, <1>q, <1>e, <1>v, <2>1
         DEF Core, Inv, BlockLines, Unfinished, Quiet
    <2> QED
      BY <2>2, <2>3
  <1>5. Inv => Moved'
    <2> SUFFICES ASSUME Inv PROVE Moved'
      OBVIOUS
    <2>1. Pending \subseteq Pending'
      BY <1>f, <1>s DEF Pending, ShapeOK
    <2> QED
      BY <1>f, <1>r, <2>1 DEF Core, Inv, Moved, SavedSD
  <1>6. Inv => MovedHere'
    BY <1>f, <1>q DEF Core, Inv, MovedHere, InCommand
  <1> QED
    BY <1>1, <1>2, <1>3, <1>4, <1>5, <1>6 DEF Core, Inv, TypeOK

\* The stepper interrupt retires the block at the tail.
LEMMA StepperDoneStep == Core /\ StepperDone => Core' /\ (Inv => Inv')
  <1> SUFFICES ASSUME Core, StepperDone PROVE Core' /\ (Inv => Inv')
    OBVIOUS
  <1> DEFINE m == Len(blocks)
  <1> USE DEF fileVars, queueVars, savedVars, isrVars, mainVars, ghostVars
  <1>s. ShapeOK
    BY Shape DEF Core
  <1>f. /\ save = "off" /\ blocks # <<>> /\ blocks' = Tail(blocks)
        /\ UNCHANGED <<fileVars, queueVars, planner_aborted, savedVars,
                       mainVars, isrVars, finished, ghostVars>>
    BY DEF StepperDone
  <1>h. m > 0 /\ 1 \in 1 .. m
    BY <1>f, <1>s DEF ShapeOK
  <1>n. \A n \in Nat : n # 1 /\ n > 0 => /\ 1 \in 1 .. n - 1
                                         /\ 2 \in 1 .. n /\ 2 \in 2 .. n
    OBVIOUS
  <1>m. m \in Nat
    BY <1>s DEF ShapeOK
  <1>v. /\ blocks' \in Seq(Block) /\ Len(blocks') = m - 1
        /\ \A i \in 1 .. m - 1 : blocks'[i] = blocks[i + 1] /\ i + 1 \in 1 .. m
    BY <1>f, <1>h, <1>s, TailShape DEF ShapeOK
  <1>i. \A i \in 2 .. m : i - 1 \in 1 .. Len(blocks') /\ blocks'[i - 1] = blocks[i]
    BY <1>s, <1>v DEF ShapeOK
  <1>q. QueueStart' = QueueStart
    BY <1>f DEF QueueStart
  <1>l. m - 1 > 0 => blocks'[m - 1] = blocks[m]
    BY <1>s, <1>v DEF ShapeOK
  <1>r. ResumePoint' = blocks[1].to
    <2>1. CASE m = 1
      BY <2>1, <1>q, <1>v DEF Core, ResumePoint, BlockChain
    <2>2. CASE m # 1
      <3>1. 1 \in 1 .. m - 1 /\ 2 \in 1 .. m
        BY <2>2, <1>h, <1>m, <1>n
      <3>2. blocks'[1] = blocks[2] /\ blocks' # <<>>
        BY <3>1, <1>v
      <3>3. blocks[1].to = blocks[2].from
        BY <3>1, <1>h DEF Core, BlockChain
      <3> QED
        BY <3>2, <3>3 DEF ResumePoint
    <2> QED
      BY <2>1, <2>2
  <1>1. /\ QueueChain' /\ QueueBytes' /\ BuflenAgrees' /\ Processed' /\ Summed'
        /\ (Inv => Saver')
    BY <1>f, <1>s DEF Core, Inv, QueueChain, QueueBytes, BuflenAgrees, Window,
                Processed, InCommand, Saver, SavedSD, Waits, Summed,
                PositionSaved
  <1>2. Control' /\ (Inv => Alone')
    BY <1>f DEF Core, Inv, Control, Alone
  <1>3. FileTypes' /\ QueueTypes' /\ SavedTypes' /\ SaveTypes' /\ PlanTypes'
    BY <1>f, <1>v DEF Core, TypeOK, FileTypes, QueueTypes, SavedTypes,
                SaveTypes, PlanTypes
  <1>4. MainTypes' /\ GhostTypes'
    BY <1>f DEF Core, TypeOK, MainTypes, GhostTypes
  <1>5. BlockChain'
    <2>1. ASSUME NEW i \in 1 .. m - 1
          PROVE  /\ blocks'[i].from <= blocks'[i].to
                 /\ blocks'[i].line \in {NoLine, blocks'[i].from}
                 /\ blocks'[i].to - blocks'[i].from < SDLEN_MOD
                       => blocks'[i].sdlen = blocks'[i].to - blocks'[i].from
      BY <1>v DEF Core, BlockChain
    <2>2. ASSUME NEW i \in 1 .. m - 1, NEW j \in 1 .. m - 1
          PROVE  /\ i < j => blocks'[i].to <= blocks'[j].from
                 /\ j = i + 1 => blocks'[i].to = blocks'[j].from
      <3>1. /\ blocks'[i] = blocks[i + 1] /\ blocks'[j] = blocks[j + 1]
            /\ i + 1 \in 1 .. m /\ j + 1 \in 1 .. m
            /\ i < j => i + 1 < j + 1
            /\ j = i + 1 => j + 1 = (i + 1) + 1
        BY <1>s, <1>v DEF ShapeOK
      <3> QED
        BY <3>1 DEF Core, BlockChain
    <2>3. m - 1 > 0 => blocks'[m - 1].to = QueueStart'
      BY <1>h, <1>l, <1>q DEF Core, BlockChain
    <2> QED
      BY <1>v, <2>1, <2>2, <2>3 DEF BlockChain
  <1>6. Inv => BlockLines'
    <2> SUFFICES ASSUME Inv PROVE BlockLines'
      OBVIOUS
    <2>1. ASSUME NEW i \in 1 .. m - 1, NEW j \in 1 .. m - 1, j = i + 1,
                 Unfinished(blocks'[i])
          PROVE  blocks'[j].line = blocks'[i].line
      <3>1. /\ blocks'[i] = blocks[i + 1] /\ blocks'[j] = blocks[j + 1]
            /\ i + 1 \in 1 .. m /\ j + 1 \in 1 .. m
            /\ j + 1 = (i + 1) + 1
        BY <2>1, <1>s, <1>v DEF ShapeOK
      <3> QED
        BY <2>1, <3>1 DEF Core, Inv, BlockLines
    <2>2. m - 1 > 0 /\ Unfinished(blocks'[m - 1])
             => /\ InCommand' \/ pc' \in {"hand", "handover"}
                /\ ~already' /\ segs' > 0 /\ line' = blocks'[m - 1].line
      BY <1>f, <1>h, <1>l DEF Core, Inv, BlockLines, InCommand
    <2> QED
      BY <1>v, <2>1, <2>2 DEF BlockLines
  <1>7. Inv => Quiet'
    BY <1>f, <1>v DEF Core, Inv, Quiet
  <1>8. Inv => Moved'
    <2> SUFFICES ASSUME Inv, NEW l \in moved
                 PROVE  l < ResumePoint' \/ l \in Pending'
      BY <1>f DEF Core, Inv, Moved, SavedSD
    <2>1. l < ResumePoint => l < ResumePoint'
      BY <1>f, <1>h, <1>r, <1>s DEF Core, Inv, BlockChain, ResumePoint, ShapeOK
    <2>2. \A i \in 1 .. m : i = 1 \/ i \in 2 .. m
      BY <1>s DEF ShapeOK
    <2>3. \A i \in 2 .. m : blocks[i].line # NoLine => blocks[i].line \in Pending'
      BY <1>i DEF Pending
    <2>4. \A i \in 1 .. Len(cmds) :
             cmds[i].type = "SDCARD" => cmds[i].from \in Pending'
      BY <1>f DEF Pending
    <2>5. l \in Pending => l \in Pending' \/ (l = blocks[1].line /\ l # NoLine)
      BY <2>2, <2>3, <2>4 DEF Pending
    <2>6. CASE l = blocks[1].line /\ l # NoLine
      <3>1. l = blocks[1].from /\ blocks[1].from <= blocks[1].to
        BY <2>6, <1>h DEF Core, Inv, BlockChain
      <3>2. CASE blocks[1].to # blocks[1].from
        BY <3>1, <3>2, <1>r, <1>h, <1>s DEF ShapeOK
      <3>3. CASE blocks[1].to = blocks[1].from
        <4>1. Unfinished(blocks[1])
          BY <2>6, <3>3 DEF Unfinished
        <4>2. CASE m = 1
          <5>1. /\ InCommand \/ pc \in {"hand", "handover"}
                /\ ~already /\ line = l
            BY <4>1, <4>2, <2>6 DEF Core, Inv, BlockLines
          <5>2. Len(cmds) > 0 /\ cmds[1].type = "SDCARD" /\ cmds[1].from = l
            BY <5>1, <2>6 DEF Core, Inv, Processed
          <5> QED
            BY <5>2, <2>4, <1>s DEF ShapeOK
        <4>3. CASE m # 1
          <5>1. 2 \in 2 .. m /\ 2 \in 1 .. m
            BY <4>3, <1>h, <1>m, <1>n
          <5>2. blocks[2].line = l
            BY <4>1, <5>1, <1>h, <2>6 DEF Core, Inv, BlockLines
          <5> QED
            BY <5>1, <5>2, <2>3, <2>6
        <4> QED
          BY <4>2, <4>3
      <3> QED
        BY <3>2, <3>3
    <2> QED
      BY <2>1, <2>5, <2>6 DEF Core, Inv, Moved
  <1>9. Inv => MovedHere'
    BY <1>f, <1>l, <1>q, <1>s, <1>v DEF Inv, MovedHere, InCommand, ShapeOK
  <1> QED
    BY <1>1, <1>2, <1>3, <1>4, <1>5, <1>6, <1>7, <1>8, <1>9 DEF Core, Inv, TypeOK

-----------------------------------------------------------------------------
(* Saving, stopping and restoring                                          *)

\* save_print_file_state() takes the end of the last queued line first.
LEMMA StartSaveStep ==
    ASSUME Core, NEW who \in {"pause", "runout", "int4", "crash"},
           StartSave(who), save = "off", ~SavedSD,
           who = "runout" => pc \in Waits,
           who = "pause" => pc \in Waits \cup {"m601"},
           who \in {"pause", "runout"} => ~saved_printing,
           UNCHANGED <<fileVars, queueVars, planVars, saved_printing, paused,
                       power, mainVars, finished, ghostVars>>
    PROVE  Core' /\ (Inv /\ who # "crash" => Inv')
  <1> USE DEF fileVars, queueVars, planVars, mainVars, ghostVars
  <1>s. ShapeOK
    BY Shape DEF Core
  <1>f. /\ by' = who /\ idx' = 1 /\ acc' = 0
        /\ saved_type' = IF sdprinting THEN "sd" ELSE "none"
        /\ IF sdprinting
           THEN save' = "planner" /\ saved_sdpos' = sdpos_atomic
           ELSE save' = "done" /\ UNCHANGED saved_sdpos
    BY DEF StartSave
  <1>q. QueueStart' = QueueStart /\ ResumePoint' = ResumePoint
    BY DEF QueueStart, ResumePoint
  <1>p. Pending' = Pending
    BY DEF Pending
  <1>n. Inv => ~SavedSD'
    BY <1>f DEF Inv, Quiet, SavedSD
  <1>1. /\ QueueChain' /\ QueueBytes' /\ BuflenAgrees' /\ Processed' /\ Control' /\ BlockChain'
        /\ (Inv => Alone' /\ BlockLines' /\ Quiet')
    BY <1>q DEF Core, Inv, QueueChain, QueueBytes, BuflenAgrees, Window, Processed,
                InCommand, Control, Alone, BlockChain, BlockLines, Unfinished, Quiet
  <1>2. FileTypes' /\ QueueTypes' /\ MainTypes' /\ PlanTypes' /\ GhostTypes'
    BY DEF Core, TypeOK, FileTypes, QueueTypes, MainTypes, PlanTypes, GhostTypes
  <1>3. SavedTypes' /\ SaveTypes'
    BY <1>f, <1>s DEF Core, TypeOK, SavedTypes, SaveTypes, ShapeOK
  <1>4. Inv /\ who # "crash" => Saver'
    BY <1>f, <1>n, <1>s DEF Core, Inv, Saver, ShapeOK, SavedSD
  <1>5. Inv => Moved'
    BY <1>q, <1>p, <1>n DEF Core, Inv, Moved
  <1>6. Inv => MovedHere'
    BY <1>q DEF Core, Inv, MovedHere, InCommand
  <1>7. Summed'
    <2>1. PlannerSum' = ResumePoint' /\ ResumePoint \in Int
      <3>1. CASE Len(blocks) = 0
        BY <1>f, <1>q, <1>s, <3>1, CoreOrder DEF PlannerSum, ResumePoint, ShapeOK
      <3>2. CASE Len(blocks) > 0
        BY <1>f, <1>q, <1>s, <3>2, CoreOrder DEF PlannerSum, ResumePoint, ShapeOK
      <3> QED
        BY <3>1, <3>2, <1>s DEF ShapeOK
    <2> QED
      BY <1>f, <1>q, <1>s, <2>1 DEF Summed, PositionSaved, ShapeOK
  <1> QED
    BY <1>1, <1>2, <1>3, <1>4, <1>5, <1>6, <1>7 DEF Core, Inv, TypeOK

\* Only the flag `paused', `power' or nothing at all changes.
LEMMA FlagStep ==
    ASSUME Core, paused' \in BOOLEAN, power' \in {"on", "failed"},
           UNCHANGED <<fileVars, queueVars, planVars, saved_printing,
                       saved_type, saved_sdpos, save, by, idx, acc, mainVars,
                       finished, ghostVars>>
    PROVE  Core' /\ (Inv => Inv')
  <1> USE DEF fileVars, queueVars, planVars, mainVars, ghostVars
  <1>q. /\ QueueStart' = QueueStart /\ ResumePoint' = ResumePoint
        /\ SavedSD' = SavedSD
    BY DEF QueueStart, ResumePoint, SavedSD
  <1>p. Pending' = Pending
    BY DEF Pending
  <1>1. /\ QueueChain' /\ QueueBytes' /\ BuflenAgrees' /\ Processed' /\ Control' /\ BlockChain'
        /\ (Inv => Alone' /\ BlockLines' /\ Quiet')
    BY <1>q DEF Core, Inv, QueueChain, QueueBytes, BuflenAgrees, Window, Processed,
                InCommand, Control, Alone, BlockChain, BlockLines, Unfinished, Quiet
  <1>2. FileTypes' /\ QueueTypes' /\ MainTypes' /\ PlanTypes' /\ GhostTypes'
    BY DEF Core, TypeOK, FileTypes, QueueTypes, MainTypes, PlanTypes, GhostTypes
  <1>3. SavedTypes' /\ SaveTypes'
    BY DEF Core, TypeOK, SavedTypes, SaveTypes
  <1>4. Inv => Saver'
    BY <1>q DEF Core, Inv, Saver
  <1>5. Inv => Moved'
    BY <1>q, <1>p DEF Core, Inv, Moved
  <1>6. Inv => MovedHere'
    BY <1>q DEF Core, Inv, MovedHere, InCommand
  <1>7. Summed'
    BY <1>q DEF Core, Summed, PositionSaved, InFlight, Window, PlannerSum, QueueSum
  <1> QED
    BY <1>1, <1>2, <1>3, <1>4, <1>5, <1>6, <1>7 DEF Core, Inv, TypeOK

\* A pause from the menu, or by M601.
LEMMA PauseStep ==
    ASSUME Core, Pause \/ PauseAfterM601, pc = "m601" => ~saved_printing
    PROVE  Core' /\ (Inv => Inv')
  <1>1. /\ save = "off"
        /\ PauseAt(pc) \/ (pc = "m601" /\ PauseAt("proc"))
        /\ pc \in Waits \cup {"m601"}
    BY DEF Pause, PauseAfterM601, Running
  <1>2. CASE saved_printing
    <2>1. pc # "m601" /\ PauseAt(pc)
      BY <1>1, <1>2
    <2> QED
      BY <1>2, <2>1, FlagStep
         DEF PauseAt, mainVars, Core, TypeOK, SaveTypes
  <1>3. CASE ~saved_printing
    <2>1. /\ save = "off" /\ StartSave("pause")
          /\ UNCHANGED <<fileVars, queueVars, planVars, saved_printing, paused,
                       power, mainVars, finished, ghostVars>>
      BY <1>1, <1>3 DEF PauseAt, mainVars, Pause, PauseAfterM601, Running
    <2> QED
      BY <1>1, <1>3, <2>1, StartSaveStep DEF SavedSD
  <1> QED
    BY <1>2, <1>3

\* The filament sensor reports a runout.
LEMMA FilamentRunoutStep == Core /\ FilamentRunout => Core' /\ (Inv => Inv')
  BY StartSaveStep DEF FilamentRunout, SavedSD

\* The supply fails.
LEMMA PowerFailStep == Core /\ PowerFail => Core' /\ (Inv => Inv')
  <1> SUFFICES ASSUME Core, PowerFail PROVE Core' /\ (Inv => Inv')
    OBVIOUS
  <1>1. CASE saved_printing /\ saved_type # "none"
    <2>1. /\ power' = "failed" /\ paused' = paused
          /\ UNCHANGED <<fileVars, queueVars, planVars, saved_printing,
                         saved_type, saved_sdpos, save, by, idx, acc, mainVars,
                         finished, ghostVars>>
      BY <1>1 DEF PowerFail
    <2> QED
      BY <2>1, FlagStep DEF Core, TypeOK, SavedTypes
  <1>2. CASE ~(saved_printing /\ saved_type # "none")
    <2>1. /\ save = "off" /\ StartSave("int4")
          /\ UNCHANGED <<fileVars, queueVars, planVars, saved_printing, paused,
                         power, mainVars, finished, ghostVars>>
      BY <1>2 DEF PowerFail
    <2>2. ~SavedSD
      BY <1>2 DEF SavedSD
    <2> QED
      BY <2>1, <2>2, StartSaveStep
  <1> QED
    BY <1>1, <1>2

\* A step that changes nothing.
LEMMA StutterStep == Core /\ UNCHANGED vars => Core' /\ (Inv => Inv')
  BY FlagStep DEF vars, savedVars, isrVars, Core, TypeOK, SavedTypes, SaveTypes

\* The position is in the EEPROM.
LEMMA FinishPowerFailStep == Core /\ FinishPowerFail => Core' /\ (Inv => Inv')
  BY FlagStep DEF FinishPowerFail, savedVars, Core, TypeOK, SavedTypes

\* planner_calc_sd_length() sums the lengths of the blocks: the sum is the
\* distance from the resume point to the block it has come to.
LEMMA SavePlannerStep == Core /\ SavePlanner => Core' /\ (Inv => Inv')
  <1> SUFFICES ASSUME Core, SavePlanner PROVE Core' /\ (Inv => Inv')
    OBVIOUS
  <1> USE DEF fileVars, queueVars, planVars, mainVars, ghostVars
  <1>s. ShapeOK
    BY Shape DEF Core
  <1>f. /\ save = "planner"
        /\ UNCHANGED <<fileVars, queueVars, planVars, saved_printing,
                       saved_type, paused, by, power, mainVars, finished,
                       ghostVars>>
    BY DEF SavePlanner
  <1>c. \/ /\ idx \in 1 .. Len(blocks)
           /\ acc' = Trunc(acc + blocks[idx].sdlen)
           /\ idx' = idx + 1 /\ save' = save /\ saved_sdpos' = saved_sdpos
        \/ /\ idx > Len(blocks) /\ saved_sdpos' = saved_sdpos - acc
           /\ save' = "cmdqueue" /\ idx' = 1 /\ acc' = 0
    BY <1>s DEF SavePlanner, ShapeOK
  <1>q. QueueStart' = QueueStart /\ ResumePoint' = ResumePoint
    BY <1>f DEF QueueStart, ResumePoint
  <1>p. Pending' = Pending
    BY <1>f DEF Pending
  <1>n. Inv => ~SavedSD /\ ~SavedSD'
    BY <1>f DEF Inv, Saver, SavedSD
  <1>a. acc' \in Nat
    <2>1. CASE idx \in 1 .. Len(blocks)
      <3>1. acc + blocks[idx].sdlen \in Int
        BY <2>1, <1>s DEF ShapeOK
      <3>2. acc' = Trunc(acc + blocks[idx].sdlen)
        BY <2>1, <1>c, <1>s DEF ShapeOK
      <3> QED
        BY <3>1, <3>2, TruncFacts
    <2> QED
      BY <2>1, <1>c
  <1>1. /\ QueueChain' /\ QueueBytes' /\ BuflenAgrees' /\ Processed' /\ Control' /\ BlockChain'
        /\ (Inv => Alone' /\ BlockLines' /\ Quiet')
    BY <1>f, <1>q DEF Core, Inv, QueueChain, QueueBytes, BuflenAgrees, Window,
                Processed, InCommand, Control, Alone, BlockChain, BlockLines,
                Unfinished, Quiet
  <1>2. FileTypes' /\ QueueTypes' /\ MainTypes' /\ PlanTypes' /\ GhostTypes'
    BY <1>f DEF Core, TypeOK, FileTypes, QueueTypes, MainTypes, PlanTypes,
                GhostTypes
  <1>3. SavedTypes' /\ SaveTypes'
    BY <1>f, <1>a, <1>c, <1>s DEF Core, TypeOK, SavedTypes, SaveTypes, ShapeOK
  <1>4. Inv => Saver'
    BY <1>c, <1>f, <1>n, <1>s DEF Core, Inv, Saver, ShapeOK
  <1>5. Inv => Moved'
    BY <1>f, <1>q, <1>p, <1>n DEF Core, Inv, Moved
  <1>6. Inv => MovedHere'
    BY <1>f, <1>q DEF Core, Inv, MovedHere, InCommand
  <1>7. Summed'
    <2>1. CASE idx \in 1 .. Len(blocks)
      <3> DEFINE b == blocks[idx]
      <3>c. /\ acc' = Trunc(acc + b.sdlen)
            /\ idx' = idx + 1 /\ save' = save /\ saved_sdpos' = saved_sdpos
        BY <2>1, <1>c, <1>s DEF ShapeOK
      <3>0. /\ b.from \in Int /\ b.to \in Int /\ b.from <= b.to
            /\ ResumePoint <= b.from /\ b.to <= QueueStart
            /\ b.to - b.from < SDLEN_MOD => b.sdlen = b.to - b.from
        BY <2>1, <1>s, CoreOrder DEF Core, BlockChain, ShapeOK
      <3>1. PlannerSum' = b.to
        <4>1. CASE idx = Len(blocks)
          <5>1. idx' \notin 1 .. Len(blocks) /\ b.to = QueueStart
            BY <4>1, <3>c, <1>s DEF Core, BlockChain, ShapeOK
          <5> QED
            BY <5>1, <1>f, <1>q DEF PlannerSum
        <4>2. CASE idx # Len(blocks)
          <5>1. idx' \in 1 .. Len(blocks) /\ idx' = idx + 1
            BY <4>2, <2>1, <3>c, <1>s DEF ShapeOK
          <5>2. b.to = blocks[idx'].from
            BY <5>1, <2>1 DEF Core, BlockChain
          <5> QED
            BY <5>1, <5>2, <1>f DEF PlannerSum
        <4> QED
          BY <4>1, <4>2
      <3>2. ASSUME InFlight < SDLEN_MOD
            PROVE  idx' <= Len(blocks) + 1 /\ acc' = b.to - ResumePoint
        <4>1. acc = b.from - ResumePoint
          BY <3>2, <2>1, <1>f DEF Core, Summed, PlannerSum
        <4>2. /\ b.to - ResumePoint < SDLEN_MOD /\ b.to - b.from < SDLEN_MOD
              /\ 0 <= b.to - ResumePoint /\ b.to - ResumePoint \in Int
          <5>1. /\ ResumePoint \in Int /\ QueueStart \in Int
                /\ QueueStart <= sdpos_atomic
            BY CoreOrder
          <5>2. sdpos_atomic - ResumePoint < SDLEN_MOD
            BY <3>2 DEF InFlight
          <5>3. sdpos_atomic \in Int /\ SDLEN_MOD \in Int
            BY <1>s, SizeAssumption DEF ShapeOK
          <5> HIDE DEF b
          <5> QED
            BY <3>0, <5>1, <5>2, <5>3
        <4>3. acc + b.sdlen = b.to - ResumePoint
          <5>1. ResumePoint \in Int
            BY CoreOrder
          <5> HIDE DEF b
          <5> QED
            BY <3>0, <4>1, <4>2, <5>1
        <4>4. acc' = b.to - ResumePoint
          BY <3>c, <4>2, <4>3, TruncFacts
        <4> QED
          BY <4>4, <3>c, <2>1, <1>s DEF ShapeOK
      <3>3. InFlight' = InFlight
        BY <1>f, <1>q DEF InFlight
      <3>4. saved_sdpos' = sdpos_atomic'
        BY <3>c, <1>f DEF Core, Summed
      <3> HIDE DEF b
      <3> QED
        BY <3>1, <3>2, <3>3, <3>4, <3>c, <1>f, <1>q DEF Summed, PositionSaved
    <2>2. CASE idx > Len(blocks)
      <3>c. /\ saved_sdpos' = saved_sdpos - acc
            /\ save' = "cmdqueue" /\ idx' = 1 /\ acc' = 0
        BY <2>2, <1>c, <1>s DEF ShapeOK
      <3>1. InFlight' = InFlight /\ QueueSum' = QueueStart'
        BY <3>c, <1>f, <1>q DEF InFlight, QueueSum
      <3>2. InFlight < SDLEN_MOD => acc = QueueStart - ResumePoint
        <4>1. idx \notin 1 .. Len(blocks)
          BY <2>2, <1>s DEF ShapeOK
        <4> QED
          BY <4>1, <1>f DEF Core, Summed, PlannerSum
      <3>3. saved_sdpos = sdpos_atomic
        BY <1>f DEF Core, Summed
      <3>4. 1 <= Len(cmds') + 1 /\ QueueStart \in Int
        BY <1>f, <1>s, CoreOrder DEF ShapeOK
      <3> QED
        BY <3>c, <3>1, <3>2, <3>3, <3>4, <1>f, <1>q DEF Summed, PositionSaved
    <2> QED
      BY <2>1, <2>2, <1>c
  <1> QED
    BY <1>1, <1>2, <1>3, <1>4, <1>5, <1>6, <1>7 DEF Core, Inv, TypeOK

\* cmdqueue_calc_sd_length() does the same for the queue.
LEMMA SaveCmdqueueStep == Core /\ SaveCmdqueue => Core' /\ (Inv => Inv')
  <1> SUFFICES ASSUME Core, SaveCmdqueue PROVE Core' /\ (Inv => Inv')
    OBVIOUS
  <1> USE DEF fileVars, queueVars, planVars, mainVars, ghostVars
  <1>s. ShapeOK
    BY Shape DEF Core
  <1>f. /\ save = "cmdqueue"
        /\ UNCHANGED <<fileVars, queueVars, planVars, saved_printing,
                       saved_type, paused, by, power, mainVars, finished,
                       ghostVars>>
    BY DEF SaveCmdqueue
  <1>c. \/ /\ idx <= buflen
           /\ acc' = IF cmds[idx].type = "SDCARD" THEN Trunc(acc + cmds[idx].len)
                     ELSE acc
           /\ idx' = idx + 1 /\ save' = save /\ saved_sdpos' = saved_sdpos
        \/ /\ idx > buflen /\ saved_sdpos' = saved_sdpos - acc
           /\ save' = "done" /\ idx' = idx /\ acc' = acc
    BY <1>s DEF SaveCmdqueue, ShapeOK
  <1>q. QueueStart' = QueueStart /\ ResumePoint' = ResumePoint
    BY <1>f DEF QueueStart, ResumePoint
  <1>p. Pending' = Pending /\ InFlight' = InFlight /\ Window' = Window
    BY <1>f, <1>q DEF Pending, InFlight, Window
  <1>n. Inv => ~SavedSD /\ ~SavedSD'
    BY <1>f DEF Inv, Saver, SavedSD
  <1>l. buflen <= Len(cmds) /\ (~Window => buflen = Len(cmds))
    BY <1>s DEF Core, BuflenAgrees, ShapeOK
  <1>i. idx <= buflen => idx \in 1 .. Len(cmds)
    BY <1>l, <1>s DEF ShapeOK
  <1>a. acc' \in Nat
    <2>1. CASE idx <= buflen
      <3>1. acc + cmds[idx].len \in Int /\ acc \in Nat
        BY <2>1, <1>i, <1>s DEF ShapeOK
      <3> QED
        BY <2>1, <3>1, <1>c, <1>s, TruncFacts DEF ShapeOK
    <2>2. CASE idx > buflen
      BY <2>2, <1>c, <1>s DEF ShapeOK
    <2> QED
      BY <2>1, <2>2, <1>c
  <1>1. /\ QueueChain' /\ QueueBytes' /\ BuflenAgrees' /\ Processed' /\ Control' /\ BlockChain'
        /\ (Inv => Alone' /\ BlockLines' /\ Quiet')
    BY <1>f, <1>q DEF Core, Inv, QueueChain, QueueBytes, BuflenAgrees, Window,
                Processed, InCommand, Control, Alone, BlockChain, BlockLines,
                Unfinished, Quiet
  <1>2. FileTypes' /\ QueueTypes' /\ MainTypes' /\ PlanTypes' /\ GhostTypes'
    BY <1>f DEF Core, TypeOK, FileTypes, QueueTypes, MainTypes, PlanTypes,
                GhostTypes
  <1>3. SavedTypes' /\ SaveTypes'
    BY <1>f, <1>a, <1>c, <1>s DEF Core, TypeOK, SavedTypes, SaveTypes, ShapeOK
  <1>4. Inv => Saver'
    BY <1>c, <1>f, <1>n, <1>s DEF Core, Inv, Saver, ShapeOK
  <1>5. Inv => Moved'
    BY <1>f, <1>q, <1>p, <1>n DEF Core, Inv, Moved
  <1>6. Inv => MovedHere'
    BY <1>f, <1>q DEF Core, Inv, MovedHere, InCommand
  <1>7. Summed'
    <2> SUFFICES ASSUME ~Window, InFlight < SDLEN_MOD
                 PROVE  /\ save' = "cmdqueue" =>
                              /\ idx' <= Len(cmds) + 1
                              /\ saved_sdpos' = sdpos_atomic
                                                  - (QueueStart - ResumePoint)
                              /\ acc' = QueueSum' - QueueStart
                        /\ save' = "done" => saved_sdpos' = ResumePoint
      BY <1>c, <1>f, <1>p, <1>q DEF Summed, PositionSaved
    <2>h. /\ idx <= Len(cmds) + 1 /\ buflen = Len(cmds)
          /\ saved_sdpos = sdpos_atomic - (QueueStart - ResumePoint)
          /\ acc = QueueSum - QueueStart
      BY <1>f, <1>l DEF Core, Summed
    <2>o. /\ QueueStart \in Int /\ ResumePoint \in Int /\ sdpos_atomic \in Int
          /\ ResumePoint <= QueueStart /\ QueueStart <= sdpos_atomic
          /\ SDLEN_MOD \in Int /\ sdpos_atomic - ResumePoint < SDLEN_MOD
      BY <1>s, CoreOrder, SizeAssumption DEF ShapeOK, InFlight
    <2>1. CASE idx <= buflen
      <3> DEFINE c == cmds[idx]
      <3>c. /\ acc' = IF c.type = "SDCARD" THEN Trunc(acc + c.len) ELSE acc
            /\ idx' = idx + 1 /\ save' = "cmdqueue" /\ saved_sdpos' = saved_sdpos
        BY <2>1, <1>c, <1>f, <1>s DEF ShapeOK
      <3>0. /\ c.from \in Int /\ c.to \in Int /\ c.from <= c.to
            /\ c.to <= sdpos_atomic /\ c.type \in Types
            /\ idx \in 1 .. Len(cmds) /\ idx \in Nat
        BY <2>1, <1>i, <1>s, CoreOrder DEF Core, QueueChain, ShapeOK
      <3>1. QueueSum' = c.to
        <4>1. CASE idx = Len(cmds)
          <5>1. idx' # 1 /\ idx' \notin 1 .. Len(cmds) /\ c.to = sdpos_atomic
            BY <4>1, <3>0, <3>c, <1>s DEF Core, QueueChain, ShapeOK
          <5> QED
            BY <5>1, <1>f DEF QueueSum
        <4>2. CASE idx # Len(cmds)
          <5>1. idx' \in 1 .. Len(cmds) /\ idx' = idx + 1 /\ idx' # 1
            BY <4>2, <3>0, <3>c, <1>s DEF ShapeOK
          <5>2. c.to = cmds[idx'].from
            BY <5>1, <3>0 DEF Core, QueueChain
          <5> QED
            BY <5>1, <5>2, <1>f DEF QueueSum
        <4> QED
          BY <4>1, <4>2
      <3>2. CASE c.type = "SDCARD"
        <4>1. QueueSum = c.from /\ QueueStart <= c.from
          <5>1. idx = 1 => QueueStart = c.from
            BY <3>0, <3>2, <1>s DEF QueueStart, ShapeOK
          <5> QED
            BY <5>1, <3>0, <3>2, CoreOrder DEF QueueSum
        <4>2. c.len = Trunc(c.to - c.from)
          BY <3>0, <3>2 DEF Core, QueueBytes
        <4> HIDE DEF c
        <4>3. /\ c.to - c.from \in Int /\ 0 <= c.to - c.from
              /\ c.to - c.from < SDLEN_MOD
              /\ c.to - QueueStart \in Int /\ 0 <= c.to - QueueStart
              /\ c.to - QueueStart < SDLEN_MOD
          BY <3>0, <4>1, <2>o
        <4>4. c.len = c.to - c.from
          BY <4>2, <4>3, TruncFacts
        <4>5. acc + c.len = c.to - QueueStart
          BY <4>1, <4>4, <3>0, <2>h, <2>o
        <4>6. acc' = c.to - QueueStart
          BY <3>2, <3>c, <4>3, <4>5, TruncFacts
        <4> QED
          BY <3>0, <3>1, <3>c, <4>6, <2>h, <1>s DEF ShapeOK
      <3>3. CASE c.type # "SDCARD"
        <4>1. QueueSum = c.to
          <5>1. CASE idx = 1
            <6>1. c.type \in {"UI", "STALE"} => c.from = c.to
              BY <3>0 DEF Core, QueueBytes
            <6>2. QueueStart = c.to
              BY <5>1, <6>1, <3>0, <3>3, <1>s DEF QueueStart, ShapeOK, Types
            <6> QED
              BY <5>1, <6>2 DEF QueueSum
          <5>2. CASE idx # 1
            <6>1. c.type = "UI" /\ c.from = c.to
              BY <5>2, <3>0, <3>3 DEF Core, QueueBytes, Types
            <6> QED
              BY <5>2, <6>1, <3>0 DEF QueueSum
          <5> QED
            BY <5>1, <5>2
        <4> HIDE DEF c
        <4> QED
          BY <3>0, <3>1, <3>3, <3>c, <4>1, <2>h, <1>s DEF ShapeOK
      <3> QED
        BY <3>2, <3>3
    <2>2. CASE idx > buflen
      <3>1. QueueSum = sdpos_atomic
        <4>1. CASE idx = 1
          <5>1. Len(cmds) = 0
            BY <2>2, <2>h, <4>1, <1>s DEF ShapeOK
          <5> QED
            BY <4>1, <5>1, <1>s DEF QueueSum, QueueStart, ShapeOK
        <4>2. CASE idx # 1
          BY <2>2, <2>h, <4>2, <1>s DEF QueueSum, ShapeOK
        <4> QED
          BY <4>1, <4>2
      <3>2. save' = "done" /\ saved_sdpos' = saved_sdpos - acc
        BY <2>2, <1>c, <1>s DEF ShapeOK
      <3> QED
        BY <3>1, <3>2, <2>h, <2>o
    <2> QED
      BY <2>1, <2>2, <1>c
  <1> QED
    BY <1>1, <1>2, <1>3, <1>4, <1>5, <1>6, <1>7 DEF Core, Inv, TypeOK

\* The queue and the planner are emptied; only the commands in q, which stand
\* for no byte of the file, are left.
LEMMA StoppedShape ==
    ASSUME ShapeOK, blocks' = <<>>, sdpos_atomic' \in Int,
           cmds' = <<>> \/ cmds' = <<UI("ui", sdpos_atomic')>>
    PROVE  /\ QueueStart' = sdpos_atomic' /\ ResumePoint' = sdpos_atomic'
           /\ cmds' \in Seq(Command) /\ blocks' \in Seq(Block)
           /\ Len(blocks') = 0 /\ Len(cmds') \in {0, 1}
           /\ \A i \in 1 .. Len(cmds') :
                 /\ i = 1 /\ cmds'[i].type = "UI"
                 /\ cmds'[i].from = sdpos_atomic' /\ cmds'[i].to = sdpos_atomic'
  <1> DEFINE u == UI("ui", sdpos_atomic')
  <1>1. /\ u \in Command /\ u.type = "UI" /\ u.from = sdpos_atomic'
        /\ u.to = sdpos_atomic'
    BY DEF UI, Command, Types, Kinds
  <1> HIDE DEF u
  <1>2. CASE cmds' = <<>>
    BY <1>2 DEF QueueStart, ResumePoint
  <1>3. CASE cmds' = <<u>>
    <2>1. Len(cmds') = 1 /\ cmds'[1] = u /\ cmds' # <<>> /\ cmds' \in Seq(Command)
      BY <1>1, <1>3
    <2>2. \A i \in 1 .. 1 : i = 1
      OBVIOUS
    <2> QED
      BY <1>1, <2>1, <2>2 DEF QueueStart, ResumePoint
  <1> QED
    BY <1>2, <1>3 DEF u

\* The print is stopped: by a pause, or by a runout that resumes at once.
LEMMA FinishSaveStep ==
    ASSUME Core, FinishPause \/ FinishRunout,
           by = "runout" => pc \in Waits,
           by = "pause" => pc \in Waits \cup {"m601"}
    PROVE  Core' /\ (Inv => Inv')
  <1> USE DEF fileVars, queueVars, planVars, mainVars, ghostVars
  <1>s. ShapeOK
    BY Shape DEF Core
  <1>f. /\ save = "done" /\ save' = "off" /\ saved_printing' = TRUE
        /\ paused' \in BOOLEAN
        /\ UNCHANGED <<readpos, isopen, stopBuffering, sdpos_atomic, saved_type,
                       saved_sdpos, idx, acc, power, ret, line, segs, finished>>
        /\ blocks' = <<>> /\ planner_aborted' = TRUE /\ already' = TRUE
        /\ sdprinting' = FALSE
        /\ IF saved_type = "sd"
           THEN /\ moved' = {l \in moved : l < saved_sdpos}
                /\ reached' = IF saved_sdpos < reached THEN saved_sdpos
                              ELSE reached
           ELSE UNCHANGED ghostVars
    BY DEF FinishPause, FinishRunout, StopPrint, Core, TypeOK, SavedTypes
  <1>c. /\ \/ cmds' = <<>> /\ buflen' = 0
           \/ cmds' = <<UI("ui", sdpos_atomic)>> /\ buflen' = 1
        /\ by' \in {"none", "runout"}
        /\ pc' \in Waits \/ (pc' = "restore" /\ back' \in Waits /\ back' = pc)
        /\ pc' = "finish" => pc = "finish"
        /\ back' \in {"idle", "proc", "finish", "hand"}
    BY <1>f DEF FinishPause, FinishRunout, StopPrint, Core, Waits, TypeOK,
                MainTypes
  <1>h. /\ QueueStart' = sdpos_atomic /\ ResumePoint' = sdpos_atomic
        /\ cmds' \in Seq(Command) /\ blocks' \in Seq(Block)
        /\ Len(blocks') = 0 /\ Len(cmds') \in {0, 1}
        /\ \A i \in 1 .. Len(cmds') :
              /\ i = 1 /\ cmds'[i].type = "UI"
              /\ cmds'[i].from = sdpos_atomic /\ cmds'[i].to = sdpos_atomic
    BY <1>c, <1>f, <1>s, StoppedShape DEF ShapeOK
  <1>k. buflen' = Len(cmds') /\ buflen' \in Nat
    <2>1. CASE cmds' = <<>> /\ buflen' = 0
      BY <2>1
    <2>2. CASE cmds' = <<UI("ui", sdpos_atomic)>> /\ buflen' = 1
      BY <2>2
    <2> QED
      BY <1>c, <2>1, <2>2
  <1>1. FileTypes' /\ QueueTypes' /\ PlanTypes' /\ SavedTypes'
    BY <1>f, <1>h, <1>k DEF Core, TypeOK, FileTypes, QueueTypes, PlanTypes,
                            SavedTypes
  <1>2. MainTypes' /\ SaveTypes'
    BY <1>c, <1>f DEF Core, TypeOK, MainTypes, SaveTypes, Waits
  <1>3. GhostTypes'
    BY <1>f, <1>s DEF Core, TypeOK, GhostTypes, ShapeOK
  <1>4. BuflenAgrees'
    BY <1>c, <1>k DEF BuflenAgrees, Window, Waits
  <1>5. QueueChain' /\ QueueBytes'
    BY <1>f, <1>h, <1>s DEF Core, QueueChain, QueueBytes, ShapeOK
  <1>6. Control' /\ (Inv => Alone')
    BY <1>c, <1>f DEF Core, Inv, Control, Alone, Waits
  <1>7. Processed'
    BY <1>c, <1>f DEF Processed, Waits, InCommand
  <1>8. BlockChain' /\ (Inv => BlockLines')
    BY <1>h DEF BlockChain, BlockLines
  <1>9. Inv => Quiet'
    BY <1>f, <1>h DEF Quiet
  <1>10. Inv => Saver'
    BY <1>f, <1>s DEF Core, Inv, Saver, SavedSD, ShapeOK
  <1>11. Inv => Moved'
    <2> SUFFICES ASSUME Inv PROVE Moved'
      OBVIOUS
    <2>1. \A l \in moved' : l \in moved /\ (saved_type = "sd" => l < saved_sdpos)
      BY <1>f
    <2> QED
      BY <1>f, <1>h, <2>1 DEF Core, Inv, Moved, SavedSD
  <1>12. Inv => MovedHere'
    <2> SUFFICES ASSUME Inv PROVE MovedHere'
      OBVIOUS
    <2>1. \A l \in moved' : l \in moved /\ l \in Int /\ l < sdpos_atomic
      BY <1>f, <1>s DEF Core, Inv, Moved, ShapeOK
    <2> QED
      BY <1>h, <1>s, <2>1 DEF Core, Inv, MovedHere, ShapeOK
  <1>13. Summed'
    BY <1>f DEF Summed, PositionSaved
  <1> QED
    BY <1>1, <1>2, <1>3, <1>4, <1>5, <1>6, <1>7, <1>8, <1>9, <1>10, <1>11, <1>12,
       <1>13 DEF Core, Inv, TypeOK

\* The print is cancelled: nothing is left of it.
LEMMA CancelPrintStep == Core /\ CancelPrint => Core' /\ (Inv => Inv')
  <1> SUFFICES ASSUME Core, CancelPrint PROVE Core' /\ (Inv => Inv')
    OBVIOUS
  <1> USE DEF mainVars, isrVars
  <1>s. ShapeOK
    BY Shape DEF Core
  <1>f. /\ save = "off" /\ pc \in Waits \cup {"restore"}
        /\ blocks' = <<>> /\ planner_aborted' = TRUE
        /\ cmds' = <<>> /\ buflen' = 0 /\ already' = TRUE
        /\ saved_printing' = FALSE /\ saved_type' = "none" /\ paused' = FALSE
        /\ sdprinting' = FALSE /\ isopen' = FALSE
        /\ moved' = {} /\ reached' = sdpos_atomic
        /\ UNCHANGED <<readpos, stopBuffering, sdpos_atomic, saved_sdpos,
                       mainVars, isrVars, finished>>
    BY DEF CancelPrint, PrintStop
  <1>h. /\ QueueStart' = sdpos_atomic /\ ResumePoint' = sdpos_atomic
        /\ cmds' \in Seq(Command) /\ blocks' \in Seq(Block)
        /\ Len(blocks') = 0 /\ Len(cmds') = 0
    BY <1>f DEF QueueStart, ResumePoint
  <1>1. FileTypes' /\ QueueTypes' /\ PlanTypes' /\ SavedTypes' /\ GhostTypes'
    BY <1>f, <1>h DEF Core, TypeOK, FileTypes, QueueTypes, PlanTypes, SavedTypes,
                GhostTypes
  <1>2. MainTypes' /\ SaveTypes'
    BY <1>f DEF Core, TypeOK, MainTypes, SaveTypes
  <1>3. BuflenAgrees'
    BY <1>f DEF BuflenAgrees, Window, Waits
  <1>4. QueueChain' /\ QueueBytes' /\ BlockChain' /\ (Inv => BlockLines')
    BY <1>f, <1>h DEF Core, Inv, QueueChain, QueueBytes, BlockChain, BlockLines
  <1>5. Control' /\ Processed' /\ (Inv => Alone')
    BY <1>f DEF Core, Inv, Control, Alone, Processed, Waits, InCommand
  <1>6. Summed' /\ (Inv => Quiet' /\ Saver' /\ Moved' /\ MovedHere')
    BY <1>f DEF Core, Inv, Quiet, Saver, SavedSD, Moved, MovedHere, Summed,
                PositionSaved, Waits
  <1> QED
    BY <1>1, <1>2, <1>3, <1>4, <1>5, <1>6 DEF Core, Inv, TypeOK

\* The end of a restore: the file is read on from the saved position.
LEMMA RestoreFinishStep ==
    ASSUME Core, RestoreFinish, saved_type = "sd" => NoSDLine
    PROVE  Core' /\ (Inv => Inv')
  <1> USE DEF ghostVars
  <1>s. ShapeOK
    BY Shape DEF Core
  <1>f. /\ pc = "restore" /\ save = "off" /\ blocks = <<>>
        /\ saved_type' = "none" /\ saved_printing' = FALSE /\ paused' = FALSE
        /\ planner_aborted' = TRUE /\ by' = "none"
        /\ pc' = IF by = "runout" THEN "m600" ELSE back
        /\ UNCHANGED <<isopen, stopBuffering, buflen, already, blocks,
                       saved_sdpos, save, idx, acc, power, ret, back, line, segs,
                       finished, ghostVars>>
    BY DEF RestoreFinish, Running
  <1>p. (already \/ line = NoLine) /\ (Inv => saved_printing \/ saved_type # "sd")
    BY <1>f DEF Core, Inv, Saver, Processed
  <1>t. \A i \in 1 .. Len(cmds) : cmds[i].type \in {"UI", "SDCARD"}
    BY <1>f, <1>s DEF Core, QueueBytes, Types, ShapeOK
  <1>l. Inv => \A l \in moved : l \in Int /\ l < QueueStart /\ l < sdpos_atomic
    <2>1. Inv => \A l \in moved : /\ l \in Int /\ ~(QueueStart <= l)
                                  /\ l < sdpos_atomic
      BY <1>f, <1>s DEF Inv, MovedHere, Moved, InCommand, ShapeOK
    <2> QED
      BY <2>1, CoreOrder
  <1>1. MainTypes' /\ SaveTypes' /\ SavedTypes' /\ GhostTypes' /\ PlanTypes'
    BY <1>f DEF Core, TypeOK, MainTypes, SaveTypes, SavedTypes, GhostTypes,
                PlanTypes
  <1>2. /\ Control' /\ Processed' /\ Summed' /\ (Inv => Alone' /\ Saver')
        /\ pc' \notin {"pop2", "front"}
    BY <1>f, <1>p DEF Core, Inv, Control, Alone, Processed, Saver, SavedSD,
                Summed, PositionSaved, InCommand, TypeOK, MainTypes
  <1>3. Inv => Quiet' /\ BlockLines'
    BY <1>f DEF Core, Inv, Quiet, BlockLines
  <1>4. CASE saved_type = "sd"
    <2>f. /\ readpos' = saved_sdpos /\ sdpos_atomic' = saved_sdpos
          /\ sdprinting' = TRUE /\ cmds' = Rebase(cmds, saved_sdpos)
      BY <1>4 DEF RestoreFinish
    <2>c. /\ cmds' \in Seq(Command) /\ Len(cmds') = Len(cmds)
          /\ \A i \in 1 .. Len(cmds) :
                /\ cmds'[i].from = saved_sdpos /\ cmds'[i].to = saved_sdpos
                /\ cmds'[i].type = "UI"
      <3> DEFINE c(i) == [cmds[i] EXCEPT !.from = saved_sdpos, !.to = saved_sdpos]
      <3>1. \A i \in 1 .. Len(cmds) :
              /\ c(i) \in Command /\ c(i).type = "UI"
              /\ c(i).from = saved_sdpos /\ c(i).to = saved_sdpos
        BY <1>4, <1>s, <1>t DEF ShapeOK, Command, NoSDLine
      <3>2. cmds' = [i \in 1 .. Len(cmds) |-> c(i)]
        <4>1. DOMAIN cmds = 1 .. Len(cmds)
          BY <1>s DEF ShapeOK
        <4> QED
          BY <2>f, <4>1 DEF Rebase
      <3> HIDE DEF c
      <3>3. cmds' \in [1 .. Len(cmds) -> Command]
        BY <3>1, <3>2
      <3>4. cmds' \in Seq(Command) /\ Len(cmds') = Len(cmds)
        <4>1. Len(cmds) \in Nat
          BY <1>s DEF ShapeOK
        <4> QED
          BY ONLY <3>3, <4>1
      <3> QED
        BY <3>1, <3>2, <3>4
    <2>q. QueueStart' = saved_sdpos /\ ResumePoint' = saved_sdpos
      <3>1. QueueStart' = saved_sdpos
        <4>1. CASE Len(cmds) = 0
          BY <4>1, <2>f, <2>c DEF QueueStart
        <4>2. CASE Len(cmds) # 0
          <5>1. 1 \in 1 .. Len(cmds) /\ cmds' # <<>>
            BY <4>2, <2>c, <1>s DEF ShapeOK
          <5> QED
            BY <5>1, <2>c DEF QueueStart
        <4> QED
          BY <4>1, <4>2
      <3> QED
        BY <3>1, <1>f DEF ResumePoint
    <2>1. FileTypes' /\ QueueTypes'
      BY <1>f, <1>s, <2>f, <2>c DEF Core, TypeOK, FileTypes, QueueTypes, ShapeOK
    <2>2. BuflenAgrees'
      BY <1>2, <1>f, <2>c DEF Core, BuflenAgrees, Window
    <2>3. QueueChain' /\ QueueBytes'
      BY <1>s, <2>c, <2>f DEF QueueChain, QueueBytes, ShapeOK
    <2>4. BlockChain'
      BY <1>f DEF BlockChain
    <2>5. Inv => Moved' /\ MovedHere'
      <3> SUFFICES ASSUME Inv PROVE Moved' /\ MovedHere'
        OBVIOUS
      <3>1. \A l \in moved : l < saved_sdpos
        BY <1>4, <1>p DEF Core, Inv, Moved, SavedSD
      <3> QED
        BY <1>f, <1>l, <1>s, <2>f, <2>q, <3>1
           DEF Core, Inv, Moved, MovedHere, SavedSD, ShapeOK
    <2> QED
      BY <1>1, <1>2, <1>3, <2>1, <2>2, <2>3, <2>4, <2>5 DEF Core, Inv, TypeOK
  <1>5. CASE saved_type # "sd"
    <2>f. UNCHANGED <<readpos, sdpos_atomic, sdprinting, cmds>>
      BY <1>5 DEF RestoreFinish
    <2>q. QueueStart' = QueueStart /\ ResumePoint' = QueueStart
      BY <2>f, <1>f DEF QueueStart, ResumePoint
    <2>1. FileTypes' /\ QueueTypes' /\ BuflenAgrees'
      BY <1>2, <1>f, <2>f DEF Core, TypeOK, FileTypes, QueueTypes, BuflenAgrees,
                              Window
    <2>3. QueueChain' /\ QueueBytes' /\ BlockChain'
      BY <1>f, <1>t, <2>f DEF Core, QueueChain, QueueBytes, BlockChain
    <2>5. Inv => Moved' /\ MovedHere'
      BY <1>f, <1>l, <1>s, <2>f, <2>q, CoreOrder
         DEF Core, Inv, Moved, MovedHere, SavedSD, ShapeOK
    <2> QED
      BY <1>1, <1>2, <1>3, <2>1, <2>3, <2>5 DEF Core, Inv, TypeOK
  <1> QED
    BY <1>4, <1>5

-----------------------------------------------------------------------------
(* The theorems.                                                           *)

\* The print that has just been started satisfies the invariant.
LEMMA InitInv == Init => Inv
  <1> SUFFICES ASSUME Init PROVE Inv
    OBVIOUS
  <1> USE DEF Init
  <1>1. TypeOK
    <2>b. /\ isopen \in BOOLEAN /\ stopBuffering \in BOOLEAN
          /\ sdprinting \in BOOLEAN /\ already \in BOOLEAN
          /\ planner_aborted \in BOOLEAN /\ saved_printing \in BOOLEAN
          /\ paused \in BOOLEAN /\ finished \in BOOLEAN
      BY Zenon
    <2>n. /\ readpos \in Int /\ sdpos_atomic \in Int /\ saved_sdpos \in Int
          /\ saved_type = "none" /\ buflen \in Nat
          /\ cmds \in Seq(Command) /\ blocks \in Seq(Block)
      <3>1. readpos = 0 /\ sdpos_atomic = 0 /\ saved_sdpos = 0 /\ buflen = 0
        BY Zenon
      <3>2. cmds = <<>> /\ blocks = <<>> /\ saved_type = "none"
        BY Zenon
      <3> QED
        BY <3>1, <3>2
    <2>1. FileTypes
      BY Zenon, <2>b, <2>n DEF FileTypes
    <2>2. QueueTypes
      BY Zenon, <2>b, <2>n DEF QueueTypes
    <2>3. PlanTypes
      BY Zenon, <2>b, <2>n DEF PlanTypes
    <2>4. SavedTypes
      BY Zenon, <2>b, <2>n DEF SavedTypes
    <2>5. MainTypes
      BY DEF MainTypes, NoLine
    <2>6. SaveTypes
      BY DEF SaveTypes
    <2>7. GhostTypes
      BY DEF GhostTypes
    <2> QED
      BY <2>1, <2>2, <2>3, <2>4, <2>5, <2>6, <2>7 DEF TypeOK
  <1>2. QueueStart = 0 /\ ResumePoint = 0 /\ Len(cmds) = 0 /\ Len(blocks) = 0
    BY DEF QueueStart, ResumePoint
  <1>3. BuflenAgrees /\ QueueChain /\ QueueBytes /\ Control /\ Processed /\ Alone
    BY <1>2 DEF BuflenAgrees, Window, QueueChain, QueueBytes, Control, Alone,
                Processed, InCommand
  <1>4. BlockChain /\ BlockLines /\ Quiet /\ Saver /\ Moved /\ MovedHere
    BY <1>2 DEF BlockChain, BlockLines, Quiet, Saver, SavedSD, Moved, MovedHere
  <1>5. Summed
    BY DEF Summed, PositionSaved
  <1> QED
    BY <1>1, <1>3, <1>4, <1>5 DEF Inv, Core

\* Every step of every thread preserves the invariant.
LEMMA NextInv == Inv /\ [Next]_vars => Inv'
  <1> SUFFICES ASSUME Inv, [Next]_vars PROVE Inv'
    OBVIOUS
  <1>i. Core /\ Alone /\ Saver /\ Quiet
    BY DEF Inv
  <1>1. CASE Main
    <2>1. CASE PauseAfterM601
      BY <1>i, <2>1, PauseStep DEF Alone
    <2>2. CASE RestoreFinish
      <3>1. saved_type = "sd" => NoSDLine
        BY <1>i, <2>2 DEF RestoreFinish, Running, Saver, Quiet, NoSDLine
      <3> QED
        BY <1>i, <2>2, <3>1, RestoreFinishStep
    <2> QED
      BY <1>i, <1>1, <2>1, <2>2, EnterStep, ReadStep, CommitLineStep, ReturnStep,
         DispatchStep, ProcessStep, PlanPublishStep, PushFrontStep,
         EnqueueFrontCommitStep, HandOverStep, PopCountStep, PopAdvanceStep,
         RestoreMoveStep DEF Main
  <1>2. CASE Saving
    <2>1. CASE FinishPause \/ FinishRunout
      BY <1>i, <2>1, FinishSaveStep DEF FinishPause, FinishRunout, Saver
    <2> QED
      BY <1>i, <1>2, <2>1, SavePlannerStep, SaveCmdqueueStep DEF Saving
  <1>3. CASE Environment
    <2>1. CASE Pause
      BY <1>i, <2>1, PauseStep DEF Pause, Waits
    <2>2. CASE Resume
      BY <1>i, <2>2, ResumeStep DEF Quiet
    <2> QED
      BY <1>i, <1>3, <2>1, <2>2, EnqueueUIStep, FilamentRunoutStep,
         CancelPrintStep, PowerFailStep DEF Environment
  <1>4. CASE StepperDone
    BY <1>i, <1>4, StepperDoneStep
  <1>5. CASE FinishPowerFail
    BY <1>i, <1>5, FinishPowerFailStep
  <1>6. CASE PowerDown \/ UNCHANGED vars
    BY <1>i, <1>6, StutterStep DEF PowerDown
  <1> QED
    BY <1>1, <1>2, <1>3, <1>4, <1>5, <1>6 DEF Next

\* The invariant holds in every reachable state.
THEOREM Invariance == Spec => []Inv
  BY InitInv, NextInv, PTL DEF Spec

\* The variables of the file, the queue, the planner and the saved print keep
\* the types of their declarations.
THEOREM TypeCorrect == Spec => []TypeOK
  <1>1. Inv => TypeOK
    BY DEF Inv, Core
  <1> QED
    BY <1>1, Invariance, PTL

\* buflen counts the commands in cmdbuffer, except between the two stores of
\* cmdqueue_pop_front() and of enquecommand_front().
THEOREM QueueLengthAgrees == Spec => []BuflenAgrees
  <1>1. Inv => BuflenAgrees
    BY DEF Inv, Core
  <1> QED
    BY <1>1, Invariance, PTL

\* Every line that is queued or planned lies at or behind the resume point.
LEMMA PendingAhead ==
    ASSUME Core, NEW l \in Pending
    PROVE  ResumePoint <= l
  <1>s. ShapeOK
    BY Shape DEF Core
  <1>1. ASSUME NEW i \in 1 .. Len(cmds), cmds[i].type = "SDCARD",
               l = cmds[i].from
        PROVE  ResumePoint <= l
    <2>1. /\ ResumePoint \in Int /\ QueueStart \in Int /\ cmds[i].from \in Int
          /\ ResumePoint <= QueueStart /\ QueueStart <= cmds[i].from
      BY <1>1, <1>s, CoreOrder DEF ShapeOK
    <2> QED
      BY <1>1, <2>1
  <1>2. ASSUME NEW i \in 1 .. Len(blocks), blocks[i].line # NoLine,
               l = blocks[i].line
        PROVE  ResumePoint <= l
    <2>1. l = blocks[i].from
      BY <1>2 DEF Core, BlockChain
    <2> QED
      BY <2>1, CoreOrder
  <1> QED
    BY <1>1, <1>2 DEF Pending

\* What was summed up is the resume point: nothing that is not executed lies
\* before it.
LEMMA NothingBefore == Core => NoLineSkipped
  <1> SUFFICES ASSUME Core, PositionSaved
               PROVE  /\ \A l \in Pending : saved_sdpos <= l
                      /\ saved_sdpos <= sdpos_atomic
    BY DEF NoLineSkipped
  <1>1. saved_sdpos = ResumePoint
    BY DEF Core, Summed
  <1>s. ShapeOK
    BY Shape DEF Core
  <1>2. ResumePoint <= sdpos_atomic
    BY <1>s, CoreOrder DEF ShapeOK
  <1> QED
    BY <1>1, <1>2, PendingAhead

\* The position computed by save_print_file_state(), for a pause, a runout or
\* a power failure, lies before everything that has not been executed.
THEOREM NothingSkipped == Spec => []NoLineSkipped
  <1>1. Inv => NoLineSkipped
    BY NothingBefore DEF Inv
  <1> QED
    BY <1>1, Invariance, PTL

\* The position computed by save_print_file_state() lies behind every line
\* whose moves have all been executed.
THEOREM NothingRepeated == Spec => []NoMoveRepeated
  <1>1. Inv => NoMoveRepeated
    <2> SUFFICES ASSUME Inv, PositionSaved, NEW l \in moved, l >= saved_sdpos
                 PROVE  l \in Pending
      BY DEF NoMoveRepeated
    <2>1. saved_sdpos = ResumePoint
      BY DEF Inv, Core, Summed
    <2>2. l < ResumePoint \/ l \in Pending
      BY DEF Inv, Core, Moved
    <2>3. l \in Int /\ ResumePoint \in Int
      BY Order, Shape DEF Inv, Core, ShapeOK
    <2> QED
      BY <2>1, <2>2, <2>3
  <1> QED
    BY <1>1, Invariance, PTL

\* While a print is saved in RAM, none of its lines is queued or planned.
THEOREM SavedIsQuiet == Spec => []SavedMeansQuiet
  <1>1. Inv => SavedMeansQuiet
    <2> SUFFICES ASSUME Inv, saved_printing PROVE Pending = {} /\ ~sdprinting
      BY DEF SavedMeansQuiet
    <2> QED
      BY DEF Inv, Core, Quiet, Pending
  <1> QED
    BY <1>1, Invariance, PTL

\* A step that touches neither the queue nor a saved position.
LEMMA ReachedFrame ==
    ASSUME Reached,
           UNCHANGED <<cmds, sdpos_atomic, reached, saved_printing, saved_type,
                       saved_sdpos, sdprinting>>
    PROVE  Reached'
  <1>1. QueueStart' = QueueStart /\ SavedSD' = SavedSD /\ NoSDLine' = NoSDLine
    BY DEF QueueStart, SavedSD, NoSDLine
  <1> QED
    BY <1>1 DEF Reached

\* A step that only pushes a command in front of, or behind, the others.
LEMMA ReachedQueue ==
    ASSUME Reached, QueueStart' = QueueStart, NoSDLine => NoSDLine',
           UNCHANGED <<reached, saved_printing, saved_type, saved_sdpos,
                       sdprinting>>
    PROVE  Reached'
  BY DEF Reached, SavedSD

\* While no length overflows, every step keeps the next line to be processed
\* where the last one that was not aborted ended.
LEMMA ReachedStep ==
    ASSUME Inv, Reached, InFlight < SDLEN_MOD, [Next]_vars
    PROVE  Reached'
  <1>s. ShapeOK
    BY Shape DEF Inv, Core
  <1>1. CASE \/ LoopTop \/ GetLine \/ GetBlankLine \/ GetReturn
             \/ GetEndOfFile \/ LoopDispatch \/ PlanPrepare
             \/ PlanPublish \/ GetWhileWaiting \/ ProcessM601
             \/ CommandDone \/ ReleaseCheck \/ PopCount \/ LoopEnd
             \/ RestoreMove \/ Resume \/ StepperDone \/ FinishPowerFail
             \/ PowerDown \/ UNCHANGED vars
    <2>1. UNCHANGED <<cmds, sdpos_atomic, reached, saved_printing, saved_type,
                       saved_sdpos, sdprinting>>
      <3> USE DEF fileVars, queueVars, savedVars, ghostVars
      <3>1. CASE LoopTop \/ GetWhileWaiting \/ LoopEnd
        BY <3>1 DEF LoopTop, GetWhileWaiting, LoopEnd, GetEnter
      <3>2. CASE GetLine \/ GetBlankLine \/ GetReturn \/ GetEndOfFile
        BY <3>2 DEF GetLine, GetBlankLine, GetReturn, GetEndOfFile
      <3>3. CASE LoopDispatch \/ PlanPrepare \/ PlanPublish \/ ProcessM601
                 \/ CommandDone \/ ReleaseCheck \/ PopCount \/ RestoreMove
        BY <3>3 DEF LoopDispatch, PlanPrepare, PlanPublish, ProcessM601,
                    CommandDone, ReleaseCheck, PopCount, RestoreMove
      <3>4. CASE Resume \/ StepperDone \/ FinishPowerFail \/ PowerDown
                 \/ UNCHANGED vars
        BY <3>4 DEF Resume, StepperDone, FinishPowerFail, PowerDown, vars
      <3> QED
        BY <1>1, <3>1, <3>2, <3>3, <3>4
    <2> QED
      BY <2>1, ReachedFrame
  <1>2. CASE CommitLine
    <2> DEFINE c == [type |-> "SDCARD", what |-> "line",
                     len  |-> Trunc(readpos - sdpos_atomic),
                     from |-> sdpos_atomic, to |-> readpos]
    <2>1. /\ pc = "commit" /\ cmds' = Append(cmds, c)
          /\ UNCHANGED <<reached, saved_printing, saved_type, saved_sdpos,
                         sdprinting>>
      BY <1>2 DEF CommitLine, Running, savedVars, ghostVars
    <2>2. c \in Command /\ c.from = sdpos_atomic /\ c.type = "SDCARD"
      <3>1. readpos - sdpos_atomic \in Int
        BY <1>s DEF ShapeOK
      <3> QED
        BY <3>1, <1>s, TruncFacts DEF ShapeOK, Command, Types, Kinds
    <2> HIDE DEF c
    <2>3. QueueStart' = QueueStart
      <3>1. /\ Len(cmds') = Len(cmds) + 1 /\ cmds'[Len(cmds) + 1] = c
            /\ \A i \in 1 .. Len(cmds) : cmds'[i] = cmds[i]
            /\ cmds' \in Seq(Command)
        BY <1>s, <2>1, <2>2, AppendShape DEF ShapeOK
      <3>2. cmds' # <<>>
        BY <3>1, <1>s DEF ShapeOK
      <3>3. CASE Len(cmds) = 0
        BY <3>1, <3>2, <3>3, <2>2, <1>s DEF QueueStart, ShapeOK
      <3>4. CASE Len(cmds) # 0
        BY <3>1, <3>2, <3>4, <1>s DEF QueueStart, ShapeOK
      <3> QED
        BY <3>3, <3>4
    <2>4. sdprinting
      BY <2>1 DEF Inv, Alone
    <2> QED
      BY <2>1, <2>3, <2>4 DEF Reached, SavedSD
  <1>3. CASE PrintingHasFinished
    <2>1. /\ UNCHANGED <<cmds, sdpos_atomic, reached, saved_printing,
                         saved_type, saved_sdpos>>
          /\ ~sdprinting'
      BY <1>3 DEF PrintingHasFinished, queueVars, savedVars, ghostVars
    <2>2. QueueStart' = QueueStart /\ NoSDLine' = NoSDLine /\ SavedSD' = SavedSD
      BY <2>1 DEF QueueStart, NoSDLine, SavedSD
    <2> QED
      BY <2>1, <2>2 DEF Reached
  <1>4. CASE EnqueueUI
    <2> DEFINE c == UI("ui", sdpos_atomic)
    <2>1. /\ cmds' = Append(cmds, c)
          /\ UNCHANGED <<reached, saved_printing, saved_type, saved_sdpos,
                         sdprinting, sdpos_atomic>>
      BY <1>4 DEF EnqueueUI, savedVars, ghostVars, fileVars
    <2>2. c \in Command /\ c.from = sdpos_atomic /\ c.type = "UI"
      BY <1>s DEF ShapeOK, Command, Types, Kinds, UI
    <2> HIDE DEF c
    <2>3. /\ Len(cmds') = Len(cmds) + 1 /\ cmds'[Len(cmds) + 1] = c
          /\ \A i \in 1 .. Len(cmds) : cmds'[i] = cmds[i]
          /\ cmds' \in Seq(Command)
      BY <1>s, <2>1, <2>2, AppendShape DEF ShapeOK
    <2>4. QueueStart' = QueueStart
      <3>1. cmds' # <<>>
        BY <2>3, <1>s DEF ShapeOK
      <3>2. CASE Len(cmds) = 0
        BY <3>1, <3>2, <2>2, <2>3, <1>s DEF QueueStart, ShapeOK
      <3>3. CASE Len(cmds) # 0
        BY <3>1, <3>3, <2>3, <1>s DEF QueueStart, ShapeOK
      <3> QED
        BY <3>2, <3>3
    <2>5. NoSDLine => NoSDLine'
      <3>1. \A i \in 1 .. Len(cmds') : i \in 1 .. Len(cmds) \/ i = Len(cmds) + 1
        BY <2>3, <1>s DEF ShapeOK
      <3> QED
        BY <3>1, <2>2, <2>3 DEF NoSDLine
    <2> QED
      BY <2>1, <2>4, <2>5, ReachedQueue
  <1>5. CASE RepeatAfterHoming \/ EnqueueM600
    <2> DEFINE c == [UI("ui", QueueStart) EXCEPT !.type = "STALE"]
    <2>1. /\ cmds' = <<c>> \o cmds
          /\ UNCHANGED <<reached, saved_printing, saved_type, saved_sdpos,
                         sdprinting>>
      BY <1>5 DEF RepeatAfterHoming, EnqueueM600, savedVars, ghostVars, fileVars
    <2>2. c \in Command /\ c.from = QueueStart /\ c.type = "STALE"
      BY Order DEF Command, Types, Kinds, UI
    <2> HIDE DEF c
    <2>3. /\ cmds' \in Seq(Command) /\ Len(cmds') = Len(cmds) + 1
          /\ cmds'[1] = c
          /\ \A i \in 2 .. Len(cmds) + 1 : cmds'[i] = cmds[i - 1]
      BY <1>s, <2>1, <2>2, ConsShape DEF ShapeOK
    <2>4. QueueStart' = QueueStart
      <3>1. cmds' # <<>>
        BY <2>3, <1>s DEF ShapeOK
      <3> QED
        BY <3>1, <2>2, <2>3 DEF QueueStart
    <2>5. NoSDLine => NoSDLine'
      <3>1. \A i \in 1 .. Len(cmds') :
               i = 1 \/ (i \in 2 .. Len(cmds) + 1 /\ i - 1 \in 1 .. Len(cmds))
        BY <2>3, <1>s DEF ShapeOK
      <3> QED
        BY <3>1, <2>2, <2>3 DEF NoSDLine
    <2> QED
      BY <2>1, <2>4, <2>5, ReachedQueue
  <1>6. CASE EnqueueFrontCommit
    <2>1. /\ pc = "front" /\ cmds' = [cmds EXCEPT ![1].type = "UI"]
          /\ UNCHANGED <<reached, saved_printing, saved_type, saved_sdpos,
                         sdprinting, sdpos_atomic>>
      BY <1>6 DEF EnqueueFrontCommit, Running, savedVars, ghostVars, fileVars
    <2>2. 1 \in 1 .. Len(cmds) /\ cmds[1].type = "STALE" /\ cmds[1] \in Command
      BY <1>s, <2>1 DEF Inv, Core, Control, ShapeOK
    <2>3. /\ Len(cmds') = Len(cmds) /\ cmds'[1].type = "UI"
          /\ cmds'[1].from = cmds[1].from /\ cmds' # <<>>
          /\ \A i \in 2 .. Len(cmds) : cmds'[i] = cmds[i]
      <3>1. cmds \in Seq(Command) /\ Len(cmds) > 0 /\ "UI" \in Types
        BY <1>s, <2>2 DEF ShapeOK, Types
      <3>2. /\ Len(cmds') = Len(cmds) /\ cmds'[1].type = "UI"
            /\ cmds'[1].from = cmds[1].from
            /\ \A i \in 2 .. Len(cmds) : cmds'[i] = cmds[i]
        BY <2>1, <3>1, RetypeShape
      <3> QED
        BY <3>1, <3>2
    <2>4. QueueStart' = QueueStart
      BY <2>2, <2>3, <1>s DEF QueueStart, ShapeOK
    <2>5. NoSDLine => NoSDLine'
      <3>1. \A i \in 1 .. Len(cmds') : i = 1 \/ i \in 2 .. Len(cmds)
        BY <2>3, <1>s DEF ShapeOK
      <3>2. \A i \in 2 .. Len(cmds) : i \in 1 .. Len(cmds)
        BY <1>s DEF ShapeOK
      <3> QED
        BY <3>1, <3>2, <2>3 DEF NoSDLine
    <2> QED
      BY <2>1, <2>4, <2>5, ReachedQueue
  <1>7. CASE HandOver
    <2>1. /\ pc = "handover"
          /\ UNCHANGED <<saved_printing, saved_type, saved_sdpos, sdprinting,
                         sdpos_atomic>>
      BY <1>7 DEF HandOver, Running, savedVars, fileVars
    <2>2. 1 \in 1 .. Len(cmds) /\ cmds[1] \in Command
      BY <1>s, <2>1 DEF Inv, Core, Control, ShapeOK
    <2>3. CASE cmds[1].type = "SDCARD"
      <3>1. /\ cmds' = [cmds EXCEPT ![1].type = "TO_BE_REMOVED"]
            /\ reached' = cmds[1].to
        BY <1>7, <2>3 DEF HandOver
      <3>2. /\ cmds'[1].type = "TO_BE_REMOVED" /\ cmds'[1].to = cmds[1].to
            /\ Len(cmds') = Len(cmds) /\ cmds' \in Seq(Command)
        <4>1. /\ cmds \in Seq(Command) /\ Len(cmds) > 0
              /\ "TO_BE_REMOVED" \in Types
          BY <1>s, <2>2 DEF ShapeOK, Types
        <4> QED
          BY <3>1, <4>1, RetypeShape
      <3>3. QueueStart' = reached'
        BY <2>2, <3>1, <3>2 DEF QueueStart
      <3>4. ~SavedSD'
        BY <2>1, <2>2, <2>3 DEF Inv, Core, Quiet, SavedSD
      <3> QED
        BY <3>3, <3>4 DEF Reached
    <2>4. CASE cmds[1].type # "SDCARD"
      BY <2>1, <2>4, <1>7, ReachedFrame DEF HandOver
    <2> QED
      BY <2>3, <2>4
  <1>8. CASE PopAdvance
    <2>1. /\ pc = "pop2" /\ cmds' = Tail(cmds)
          /\ reached' = IF cmds[1].type = "SDCARD" THEN cmds[1].to ELSE reached
          /\ UNCHANGED <<saved_printing, saved_type, saved_sdpos, sdprinting,
                         sdpos_atomic>>
      BY <1>8 DEF PopAdvance, Running, savedVars, fileVars
    <2>2. 1 \in 1 .. Len(cmds) /\ Len(cmds) > 0
      BY <1>s, <2>1 DEF Inv, Core, Control, ShapeOK
    <2>3. /\ cmds' \in Seq(Command) /\ Len(cmds') = Len(cmds) - 1
          /\ \A i \in 1 .. Len(cmds) - 1 : cmds'[i] = cmds[i + 1]
      BY <1>s, <2>1, <2>2, TailShape DEF ShapeOK
    <2>4. QueueStart' = cmds[1].to
      <3>1. CASE Len(cmds) = 1
        <4>1. cmds' = <<>>
          BY <3>1, <2>3
        <4> QED
          BY <3>1, <4>1, <2>1 DEF QueueStart, Inv, Core, QueueChain
      <3>2. CASE Len(cmds) # 1
        <4>1. 2 \in 1 .. Len(cmds) /\ cmds'[1] = cmds[2] /\ cmds' # <<>>
          BY <3>2, <2>2, <2>3, <1>s DEF ShapeOK
        <4>2. cmds[2].type # "TO_BE_REMOVED" /\ cmds[1].to = cmds[2].from
          BY <4>1, <2>2 DEF Inv, Core, QueueBytes, QueueChain
        <4> QED
          BY <4>1, <4>2 DEF QueueStart
      <3> QED
        BY <3>1, <3>2
    <2>5. CASE cmds[1].type = "SDCARD"
      <3>1. ~SavedSD'
        BY <2>1, <2>2, <2>5 DEF Inv, Core, Quiet, SavedSD
      <3> QED
        BY <2>1, <2>4, <2>5, <3>1 DEF Reached
    <2>6. CASE cmds[1].type # "SDCARD"
      <3>1. cmds[1].type = "TO_BE_REMOVED" \/ cmds[1].from = cmds[1].to
        BY <2>1, <2>2, <2>6, <1>s DEF Inv, Core, QueueBytes, ShapeOK, Types
      <3>2. QueueStart = cmds[1].to
        BY <2>2, <3>1, <1>s DEF QueueStart, ShapeOK
      <3>3. NoSDLine => NoSDLine'
        <4>1. \A i \in 1 .. Len(cmds') : /\ i + 1 \in 1 .. Len(cmds)
                                         /\ cmds'[i] = cmds[i + 1]
          BY <2>3, <1>s DEF ShapeOK
        <4> QED
          BY <4>1 DEF NoSDLine
      <3> QED
        BY <2>1, <2>4, <2>6, <3>2, <3>3, ReachedQueue
    <2> QED
      BY <2>5, <2>6
  <1>9. CASE Pause \/ PauseAfterM601 \/ FilamentRunout \/ PowerFail
    <2>1. UNCHANGED <<cmds, sdpos_atomic, reached, saved_printing, sdprinting>>
      BY <1>9 DEF Pause, PauseAfterM601, PauseAt, FilamentRunout, PowerFail,
                  fileVars, queueVars, ghostVars
    <2>2. QueueStart' = QueueStart /\ NoSDLine' = NoSDLine
      BY <2>1 DEF QueueStart, NoSDLine
    <2>3. \/ UNCHANGED <<saved_type, saved_sdpos>>
          \/ ~SavedSD /\ saved_type' = IF sdprinting THEN "sd" ELSE "none"
      BY <1>9 DEF Pause, PauseAfterM601, PauseAt, FilamentRunout, PowerFail,
                  StartSave, SavedSD
    <2>4. saved_printing => ~sdprinting
      BY DEF Inv, Core, Quiet
    <2> QED
      BY <2>1, <2>2, <2>3, <2>4 DEF Reached, SavedSD
  <1>10. CASE SavePlanner \/ SaveCmdqueue
    <2>1. /\ UNCHANGED <<cmds, sdpos_atomic, reached, saved_printing,
                         saved_type, sdprinting>>
          /\ ~SavedSD
      BY <1>10 DEF SavePlanner, SaveCmdqueue, fileVars, queueVars, ghostVars,
                   Inv, Core, Saver
    <2>2. QueueStart' = QueueStart /\ NoSDLine' = NoSDLine /\ ~SavedSD'
      BY <2>1 DEF QueueStart, NoSDLine, SavedSD
    <2> QED
      BY <2>1, <2>2 DEF Reached
  <1>11. CASE FinishPause \/ FinishRunout
    <2>1. /\ save = "done" /\ saved_printing' = TRUE
          /\ UNCHANGED <<saved_type, saved_sdpos>>
          /\ sdprinting' = FALSE
          /\ cmds' = <<>> \/ cmds' = <<UI("ui", sdpos_atomic)>>
          /\ IF saved_type = "sd"
             THEN reached' = IF saved_sdpos < reached THEN saved_sdpos
                             ELSE reached
             ELSE reached' = reached
          /\ by \in {"pause", "runout"}
      BY <1>11 DEF FinishPause, FinishRunout, StopPrint, ghostVars
    <2>2. CASE saved_type = "sd"
      <3>1. ~SavedSD /\ sdprinting
        BY <2>1, <2>2 DEF Inv, Core, Saver
      <3>2. reached = QueueStart
        BY <3>1 DEF Reached
      <3>3. ~Window
        BY <2>1 DEF Inv, Core, Saver, Waits, Window
      <3>4. saved_sdpos = ResumePoint
        BY <2>1, <2>2, <3>3 DEF Inv, Core, Summed, PositionSaved
      <3>5. reached' = saved_sdpos
        BY <2>1, <2>2, <3>2, <3>4, Order
      <3> QED
        BY <2>1, <2>2, <3>5 DEF Reached, SavedSD
    <2>3. CASE saved_type # "sd"
      <3>1. NoSDLine'
        <4>1. CASE cmds' = <<>>
          BY <4>1 DEF NoSDLine
        <4>2. CASE cmds' = <<UI("ui", sdpos_atomic)>>
          <5>1. UI("ui", sdpos_atomic).type = "UI"
            BY DEF UI
          <5> QED
            BY <4>2, <5>1 DEF NoSDLine
        <4> QED
          BY <2>1, <4>1, <4>2
      <3> QED
        BY <2>1, <2>3, <3>1 DEF Reached, SavedSD
    <2> QED
      BY <2>2, <2>3
  <1>12. CASE RestoreFinish
    <2>1. /\ pc = "restore" /\ saved_printing' = FALSE /\ reached' = reached
      BY <1>12 DEF RestoreFinish, Running, ghostVars
    <2>2. /\ ~SavedSD' /\ ~sdprinting
          /\ saved_printing \/ saved_type # "sd"
      BY <2>1 DEF Inv, Core, Saver, SavedSD
    <2>3. CASE saved_type = "sd"
      <3>1. sdpos_atomic' = saved_sdpos /\ cmds' = Rebase(cmds, saved_sdpos)
        BY <1>12, <2>3 DEF RestoreFinish
      <3>2. QueueStart' = saved_sdpos
        <4>1. CASE Len(cmds) = 0
          <5>1. cmds' = <<>>
            BY <3>1, <4>1, <1>s DEF Rebase, ShapeOK
          <5> QED
            BY <5>1, <3>1 DEF QueueStart
        <4>2. CASE Len(cmds) # 0
          <5>1. 1 \in DOMAIN cmds /\ cmds[1] \in Command
            BY <4>2, <1>s DEF ShapeOK
          <5>2. cmds'[1] = [cmds[1] EXCEPT !.from = saved_sdpos,
                                           !.to = saved_sdpos]
            BY <3>1, <5>1 DEF Rebase
          <5>3. cmds'[1].from = saved_sdpos /\ cmds'[1].to = saved_sdpos
            BY <5>1, <5>2 DEF Command
          <5>4. cmds' # <<>>
            <6>1. DOMAIN cmds' # {}
              BY <3>1, <5>1 DEF Rebase
            <6> QED
              BY <6>1
          <5> QED
            BY <5>3, <5>4 DEF QueueStart
        <4> QED
          BY <4>1, <4>2
      <3> QED
        BY <2>1, <2>2, <2>3, <3>2 DEF Reached, SavedSD
    <2>4. CASE saved_type # "sd"
      <3>1. UNCHANGED <<cmds, sdpos_atomic, sdprinting>>
        BY <1>12, <2>4 DEF RestoreFinish
      <3>2. QueueStart' = QueueStart /\ NoSDLine' = NoSDLine
        BY <3>1 DEF QueueStart, NoSDLine
      <3> QED
        BY <2>1, <2>2, <2>4, <3>1, <3>2 DEF Reached, SavedSD
    <2> QED
      BY <2>3, <2>4
  <1>13. CASE CancelPrint
    BY <1>13 DEF CancelPrint, PrintStop, Reached, SavedSD, QueueStart
  <1> QED
    BY <1>1, <1>2, <1>3, <1>4, <1>5, <1>6, <1>7, <1>8, <1>9, <1>10, <1>11, <1>12,
       <1>13 DEF Next, Main, Saving, Environment

\* As long as the bytes in flight fit in the 16 bits of a length, the lines of
\* the file are processed one after the other, whatever pauses, runouts and
\* cancellations come in between.
THEOREM NothingLost ==
    Spec /\ [](InFlight < SDLEN_MOD) => []NoGap
  <1>1. Init => Reached
    BY DEF Init, Reached, SavedSD, QueueStart
  <1>2. Inv /\ Reached /\ InFlight < SDLEN_MOD /\ [Next]_vars => Reached'
    BY ReachedStep
  <1>3. Inv /\ Reached => NoGap
    <2> SUFFICES ASSUME Inv, Reached, pc = "proc", line # NoLine, ~already
                 PROVE  line = reached
      BY DEF NoGap
    <2>1. Len(cmds) > 0 /\ cmds[1].type = "SDCARD" /\ cmds[1].from = line
      BY DEF Inv, Core, Processed, InCommand
    <2>2. 1 \in 1 .. Len(cmds) /\ cmds # <<>>
      BY <2>1, Shape DEF Inv, Core, ShapeOK
    <2>3. ~NoSDLine /\ ~SavedSD /\ QueueStart = line
      BY <2>1, <2>2 DEF NoSDLine, SavedSD, Inv, Core, Quiet, QueueStart
    <2> QED
      BY <2>3 DEF Reached
  <1> QED
    BY <1>1, <1>2, <1>3, Invariance, PTL DEF Spec

-----------------------------------------------------------------------------
(* PrintFlowCrash: a print that a crash has stopped is not forgotten.      *)

\* The commands in the queue are records that tell what they are.
IsQueue(q) ==
    /\ q \in Seq({q[i] : i \in 1 .. Len(q)})
    /\ \A i \in 1 .. Len(q) : "what" \in DOMAIN q[i]

\* The command at the head of the queue is on its way out.
Releasing == pc \in {"handover", "pop", "pop2"} \/ (pc = "hand" /\ ~already)

\* The i-th command resumes or ends the print, and is not on its way out.
Resumes(i) == cmds[i].what \in CrashCommands /\ (Releasing => i # 1)

\* A stopped print will be resumed, or the command for it has been dropped.
Recovers ==
    saved_printing /\ ~paused /\ pc # "restore" /\ ~torn
        => sg_crash \/ refused \/ \E i \in 1 .. Len(cmds) : Resumes(i)

\* Which points of the main thread go with which state of a save.
CrashControl ==
    /\ ret \in {"top", "loop", "idle", "proc", "m601"}
    /\ back \in {"idle", "proc", "finish", "hand"}
    /\ save # "off" /\ by = "crash" => sg_crash
    /\ save # "off" /\ by = "runout" => pc \in Waits
    /\ save # "off" /\ by = "pause" => pc \in Waits \cup {"m601"}
    /\ save = "off" /\ by = "runout" => pc = "restore" /\ already
    /\ pc \in {"m600", "front"} => already
    /\ pc \in {"handover", "pop", "pop2"} => cmds # <<>>
    /\ buflen \in Int /\ (~torn => BuflenAgrees)

\* The inductive invariant of the crash detection.
CrashInv == IsQueue(cmds) /\ CrashControl /\ Recovers

\* A sequence of such records is such a queue.
LEMMA QueueOf ==
    ASSUME NEW S, NEW q \in Seq(S), \A r \in S : "what" \in DOMAIN r
    PROVE  IsQueue(q)
  <1>1. \A i \in 1 .. Len(q) : q[i] \in S
    OBVIOUS
  <1>2. q \in Seq({q[i] : i \in 1 .. Len(q)})
    <2> DEFINE T == {q[i] : i \in 1 .. Len(q)}
    <2>1. Len(q) \in Nat /\ q = [i \in 1 .. Len(q) |-> q[i]] /\ \A i \in 1 .. Len(q) : q[i] \in T
      OBVIOUS
    <2> QED
      BY <2>1
  <1> QED
    BY <1>1, <1>2 DEF IsQueue

\* The elements of such a queue.
LEMMA QueueTyped ==
    ASSUME NEW q, IsQueue(q)
    PROVE  \E S : q \in Seq(S) /\ \A r \in S : "what" \in DOMAIN r
  <1> DEFINE T == {q[i] : i \in 1 .. Len(q)}
  <1>1. q \in Seq(T) /\ \A r \in T : "what" \in DOMAIN r
    BY DEF IsQueue
  <1> QED
    BY <1>1

\* A command is queued behind the others,
LEMMA QueueAppend ==
    ASSUME NEW q, IsQueue(q), NEW e, "what" \in DOMAIN e
    PROVE  /\ IsQueue(Append(q, e)) /\ Len(Append(q, e)) = Len(q) + 1 /\ Len(q) \in Nat
           /\ \A i \in 1 .. Len(q) : Append(q, e)[i] = q[i]
           /\ Append(q, e)[Len(q) + 1] = e
  <1>1. PICK S : q \in Seq(S) /\ \A r \in S : "what" \in DOMAIN r
    BY QueueTyped
  <1> DEFINE T == S \cup {e}
             z == Append(q, e)
  <1>2. q \in Seq(T) /\ e \in T /\ \A r \in T : "what" \in DOMAIN r
    BY <1>1
  <1> HIDE DEF T
  <1>3. z \in Seq(T) /\ Len(z) = Len(q) + 1 /\ Len(q) \in Nat
        /\ (\A i \in 1 .. Len(q) : z[i] = q[i]) /\ z[Len(q) + 1] = e
    BY <1>2
  <1>4. IsQueue(z)
    BY <1>2, <1>3, QueueOf
  <1> QED
    BY <1>3, <1>4

\* ... or in front of them,
LEMMA QueueCons ==
    ASSUME NEW q, IsQueue(q), NEW e, "what" \in DOMAIN e
    PROVE  /\ IsQueue(<<e>> \o q) /\ Len(<<e>> \o q) = Len(q) + 1 /\ Len(q) \in Nat
           /\ \A i \in 1 .. Len(q) : (<<e>> \o q)[i + 1] = q[i]
  <1>1. PICK S : q \in Seq(S) /\ \A r \in S : "what" \in DOMAIN r
    BY QueueTyped
  <1> DEFINE T == S \cup {e}
             z == <<e>> \o q
  <1>2. q \in Seq(T) /\ <<e>> \in Seq(T) /\ Len(<<e>>) = 1 /\ \A r \in T : "what" \in DOMAIN r
    BY <1>1
  <1> HIDE DEF T
  <1>3. z \in Seq(T) /\ Len(z) = Len(q) + 1 /\ Len(q) \in Nat
    BY <1>2
  <1>4. \A i \in 1 .. Len(q) : z[i + 1] = q[i]
    BY <1>2, <1>3
  <1>5. IsQueue(z)
    BY <1>2, <1>3, QueueOf
  <1> QED
    BY <1>3, <1>4, <1>5

\* ... leaves it at the head,
LEMMA QueueTail ==
    ASSUME NEW q, IsQueue(q), Len(q) > 0
    PROVE  /\ IsQueue(Tail(q)) /\ Len(Tail(q)) = Len(q) - 1 /\ Len(q) \in Nat
           /\ \A i \in 1 .. Len(q) : i # 1 => Tail(q)[i - 1] = q[i]
  <1>1. PICK S : q \in Seq(S) /\ \A r \in S : "what" \in DOMAIN r
    BY QueueTyped
  <1>2. /\ Tail(q) \in Seq(S) /\ Len(Tail(q)) = Len(q) - 1 /\ Len(q) \in Nat
        /\ \A i \in 1 .. Len(q) : i # 1 => Tail(q)[i - 1] = q[i]
    BY <1>1
  <1>3. IsQueue(Tail(q))
    BY <1>1, <1>2, QueueOf
  <1> QED
    BY <1>2, <1>3

\* ... or changes another field than the one that tells what it is.
LEMMA QueueMapped ==
    ASSUME NEW q, IsQueue(q), NEW z, Len(z) = Len(q), z = [i \in 1 .. Len(q) |-> z[i]],
           \A i \in 1 .. Len(q) : DOMAIN z[i] = DOMAIN q[i] /\ z[i].what = q[i].what
    PROVE  IsQueue(z)
  <1>1. Len(q) \in Nat /\ \A i \in 1 .. Len(q) : "what" \in DOMAIN q[i]
    <2>1. PICK S : q \in Seq(S)
      BY QueueTyped
    <2> QED
      BY <2>1 DEF IsQueue
  <1> DEFINE T == {z[i] : i \in 1 .. Len(q)}
  <1>2. z \in Seq(T) /\ \A r \in T : "what" \in DOMAIN r
    BY <1>1
  <1> QED
    BY <1>2, QueueOf

\* What a command is does not depend on its type ...
Retyped(q, v) == [q EXCEPT ![1].type = v]
LEMMA QueueRetyped ==
    ASSUME NEW q, IsQueue(q), NEW v
    PROVE  /\ IsQueue(Retyped(q, v)) /\ Len(Retyped(q, v)) = Len(q)
           /\ \A i \in 1 .. Len(q) : Retyped(q, v)[i].what = q[i].what
  <1> DEFINE z == Retyped(q, v)
  <1>1. PICK S : q \in Seq(S) /\ \A r \in S : "what" \in DOMAIN r
    BY QueueTyped
  <1>2. Len(q) \in Nat /\ DOMAIN q = 1 .. Len(q)
    BY <1>1
  <1>3. z = [i \in 1 .. Len(q) |-> z[i]] /\ Len(z) = Len(q)
    <2> DEFINE w == [i \in 1 .. Len(q) |-> IF i = 1 THEN [q[1] EXCEPT !.type = v] ELSE q[i]]
    <2>1. z = w
      BY <1>2 DEF Retyped
    <2>2. Len(w) = Len(q) /\ w = [i \in 1 .. Len(q) |-> w[i]]
      BY <1>2
    <2> QED
      BY <2>1, <2>2
  <1>4. ASSUME NEW i \in 1 .. Len(q) PROVE DOMAIN z[i] = DOMAIN q[i] /\ z[i].what = q[i].what
    <2>1. CASE i = 1
      <3>1. z[i] = [q[i] EXCEPT !.type = v]
        BY <1>2, <2>1 DEF Retyped
      <3>2. "what" \in DOMAIN q[i]
        BY <1>1
      <3> QED
        BY <3>1, <3>2
    <2>2. CASE i # 1
      BY <1>2, <2>2 DEF Retyped
    <2> QED
      BY <2>1, <2>2
  <1> HIDE DEF z
  <1>5. IsQueue(z)
    BY <1>3, <1>4, QueueMapped
  <1> QED
    BY <1>3, <1>4, <1>5 DEF z

\* ... nor on where it stands.
LEMMA QueueRebased ==
    ASSUME NEW q, IsQueue(q), NEW p
    PROVE  /\ IsQueue(Rebase(q, p)) /\ Len(Rebase(q, p)) = Len(q)
           /\ \A i \in 1 .. Len(q) : Rebase(q, p)[i].what = q[i].what
  <1> DEFINE z == Rebase(q, p)
  <1>1. PICK S : q \in Seq(S) /\ \A r \in S : "what" \in DOMAIN r
    BY QueueTyped
  <1>2. Len(q) \in Nat /\ DOMAIN q = 1 .. Len(q)
    BY <1>1
  <1>3. z = [i \in 1 .. Len(q) |-> z[i]] /\ Len(z) = Len(q)
    BY <1>2 DEF Rebase
  <1>4. ASSUME NEW i \in 1 .. Len(q) PROVE DOMAIN z[i] = DOMAIN q[i] /\ z[i].what = q[i].what
    <2>1. z[i] = [q[i] EXCEPT !.from = p, !.to = p]
      BY <1>2 DEF Rebase
    <2>2. "what" \in DOMAIN q[i]
      BY <1>1
    <2> HIDE DEF z
    <2> QED
      BY <2>1, <2>2
  <1> HIDE DEF z
  <1>5. IsQueue(z)
    BY <1>3, <1>4, QueueMapped
  <1> QED
    BY <1>3, <1>4, <1>5 DEF z

-----------------------------------------------------------------------------
(* The steps.                                                              *)

\* A step that leaves the queue alone and does not release its head.
LEMMA CrashFrame ==
    ASSUME CrashInv, UNCHANGED <<cmds, sg_crash, refused, torn>>, CrashControl',
           saved_printing' /\ ~paused' /\ pc' # "restore"
               => saved_printing /\ ~paused /\ pc # "restore",
           Releasing' => Releasing
    PROVE  CrashInv'
  <1>1. IsQueue(cmds)'
    BY DEF CrashInv
  <1>2. Recovers'
    <2>1. SUFFICES ASSUME saved_printing', ~paused', pc' # "restore", ~torn', ~sg_crash', ~refused'
                   PROVE  (\E i \in 1 .. Len(cmds) : Resumes(i))'
      BY DEF Recovers
    <2>2. PICK i \in 1 .. Len(cmds) : Resumes(i)
      BY <2>1 DEF CrashInv, Recovers
    <2>3. Resumes(i)'
      BY <2>2 DEF Resumes
    <2> QED
      BY <2>3
  <1> QED
    BY <1>1, <1>2 DEF CrashInv

\* A step that leaves alone what the commands are.
LEMMA CrashSameWhat ==
    ASSUME CrashInv, UNCHANGED <<sg_crash, refused, torn, saved_printing, paused>>, pc # "restore",
           IsQueue(cmds'), Len(cmds') = Len(cmds),
           \A i \in 1 .. Len(cmds) : cmds'[i].what = cmds[i].what,
           CrashControl', Releasing' => Releasing
    PROVE  CrashInv'
  <1>1. Recovers'
    <2>1. SUFFICES ASSUME saved_printing, ~paused, ~torn, ~sg_crash, ~refused
                   PROVE  (\E i \in 1 .. Len(cmds) : Resumes(i))'
      BY DEF Recovers
    <2>2. PICK i \in 1 .. Len(cmds) : Resumes(i)
      BY <2>1 DEF CrashInv, Recovers
    <2>3. i \in 1 .. Len(cmds') /\ cmds'[i].what = cmds[i].what
      OBVIOUS
    <2>4. Resumes(i)'
      BY <2>2, <2>3 DEF Resumes
    <2> QED
      BY <2>3, <2>4
  <1> QED
    BY <1>1 DEF CrashInv

\* A step after which the print is not stopped, is about to go on, or is left
\* to its fate.
LEMMA CrashOver ==
    ASSUME IsQueue(cmds'), CrashControl',
           ~saved_printing' \/ paused' \/ pc' = "restore" \/ sg_crash' \/ refused'
    PROVE  CrashInv'
  BY DEF CrashInv, Recovers

\* get_command() is entered, or left at once.
LEMMA CrashEnterStep ==
    ASSUME CrashInv, UNCHANGED crashVars, LoopTop \/ GetWhileWaiting \/ LoopEnd
    PROVE  CrashInv'
  <1>1. UNCHANGED <<cmds, buflen, sg_crash, refused, torn, save, by, already, back, saved_printing, paused>>
    BY DEF crashVars, LoopTop, GetWhileWaiting, LoopEnd, queueVars, savedVars, isrVars
  <1>2. /\ save = "off" /\ pc \in {"loop", "proc", "idle"} /\ pc' \in {"get", "top", "proc", "loop"}
        /\ ret' \in {"top", "loop", "idle", "proc", "m601"}
    BY DEF LoopTop, GetWhileWaiting, LoopEnd, GetEnter, Running, CrashInv, CrashControl
  <1>3. CrashControl'
    BY <1>1, <1>2 DEF CrashInv, CrashControl, BuflenAgrees, Window, Waits
  <1> QED
    BY <1>1, <1>2, <1>3, CrashFrame DEF Releasing

\* get_command() at work.
LEMMA CrashReadStep ==
    ASSUME CrashInv, UNCHANGED crashVars,
           \/ GetLine \/ GetBlankLine \/ GetReturn \/ GetEndOfFile \/ PrintingHasFinished
    PROVE  CrashInv'
  <1>1. UNCHANGED <<cmds, buflen, sg_crash, refused, torn, save, by, already, ret, back, saved_printing, paused>>
    BY DEF crashVars, GetLine, GetBlankLine, GetReturn, GetEndOfFile, PrintingHasFinished,
           queueVars, savedVars, isrVars, fileVars
  <1>2. save = "off" /\ pc \in {"get", "finish"} /\ pc' \in {"commit", "finish", ret}
    BY DEF GetLine, GetBlankLine, GetReturn, GetEndOfFile, PrintingHasFinished, Running
  <1>3. CrashControl'
    BY <1>1, <1>2 DEF CrashInv, CrashControl, BuflenAgrees, Window, Waits
  <1> QED
    BY <1>1, <1>2, <1>3, CrashFrame DEF Releasing, CrashInv, CrashControl

\* The other steps of the main thread that leave the queue alone.
LEMMA CrashPlainStep ==
    ASSUME CrashInv, UNCHANGED crashVars,
           ~torn, \/ PlanPrepare \/ PlanPublish \/ ReleaseCheck \/ RestoreMove
           \/ LoopDispatch
    PROVE  CrashInv'
  <1>1. UNCHANGED <<cmds, buflen, sg_crash, refused, torn, save, by, ret, back, saved_printing, paused>>
    BY DEF crashVars, PlanPrepare, PlanPublish, ReleaseCheck, RestoreMove,
           LoopDispatch, queueVars, savedVars, isrVars
  <1>2. /\ save = "off" /\ pc \in {"proc", "prep", "hand", "restore", "top"}
        /\ pc' \in {"prep", "proc", "handover", "idle", "restore"}
        /\ pc = "restore" <=> pc' = "restore"
        /\ pc = "restore" => already' = already
        /\ pc' = "handover" => pc = "hand" /\ ~already /\ buflen > 0
    BY DEF PlanPrepare, PlanPublish, ReleaseCheck, RestoreMove, LoopDispatch, Running,
           queueVars
  <1>4. pc' = "handover" => cmds # <<>>
    <2>1. pc' = "handover" => Len(cmds) = buflen /\ buflen > 0
      BY <1>2 DEF CrashInv, CrashControl, BuflenAgrees, Window
    <2>2. cmds = <<>> => Len(cmds) = 0
      OBVIOUS
    <2> QED
      BY <2>1, <2>2
  <1>3. CrashControl'
    BY <1>1, <1>2, <1>4 DEF CrashInv, CrashControl, BuflenAgrees, Window, Waits
  <1> QED
    BY <1>1, <1>2, <1>3, CrashFrame DEF Releasing

\* The steps of a save, of the interrupts and of the environment.
LEMMA CrashSaveStep ==
    ASSUME CrashInv, UNCHANGED crashVars,
           \/ SavePlanner \/ SaveCmdqueue \/ StepperDone \/ FinishPowerFail \/ PowerDown
           \/ Pause \/ FilamentRunout \/ PowerFail
    PROVE  CrashInv'
  <1>1. UNCHANGED <<cmds, buflen, sg_crash, refused, torn, already, ret, back, saved_printing, pc>>
    BY DEF crashVars, SavePlanner, SaveCmdqueue, StepperDone, FinishPowerFail, PowerDown, Pause,
           FilamentRunout, PowerFail, PauseAt, queueVars, savedVars, isrVars, mainVars, vars
  <1>2. paused' = paused \/ paused'
    BY DEF SavePlanner, SaveCmdqueue, StepperDone, FinishPowerFail, PowerDown, Pause,
           FilamentRunout, PowerFail, PauseAt, savedVars, vars
  <1>3. \/ UNCHANGED <<save, by>>
        \/ save # "off" /\ save' # "off" /\ by' = by
        \/ save' # "off" /\ by' \in {"pause", "runout", "int4"} /\ (by' # "int4" => pc \in Waits)
    BY DEF SavePlanner, SaveCmdqueue, StepperDone, FinishPowerFail, PowerDown, Pause,
           FilamentRunout, PowerFail, PauseAt, StartSave, isrVars, vars
  <1>4. CrashControl'
    BY <1>1, <1>3 DEF CrashInv, CrashControl, BuflenAgrees, Window
  <1> QED
    BY <1>1, <1>2, <1>4, CrashFrame DEF Releasing

\* A command is queued behind the others.
LEMMA CrashAppends ==
    ASSUME CrashInv, NEW e, "what" \in DOMAIN e, cmds' = Append(cmds, e),
           UNCHANGED <<sg_crash, refused, torn, saved_printing, paused>>, CrashControl',
           pc # "restore", ~Releasing'
    PROVE  CrashInv'
  <1>1. /\ IsQueue(cmds') /\ Len(cmds') = Len(cmds) + 1 /\ Len(cmds) \in Nat
        /\ \A i \in 1 .. Len(cmds) : cmds'[i] = cmds[i]
    BY QueueAppend DEF CrashInv
  <1>2. Recovers'
    <2>1. SUFFICES ASSUME saved_printing, ~paused, pc' # "restore", ~torn, ~sg_crash, ~refused
                   PROVE  (\E i \in 1 .. Len(cmds) : Resumes(i))'
      BY DEF Recovers
    <2>2. PICK i \in 1 .. Len(cmds) : Resumes(i)
      BY <2>1 DEF CrashInv, Recovers
    <2>3. i \in 1 .. Len(cmds') /\ cmds'[i].what = cmds[i].what
      BY <1>1
    <2>4. Resumes(i)'
      BY <2>2, <2>3 DEF Resumes
    <2> QED
      BY <2>3, <2>4
  <1> QED
    BY <1>1, <1>2 DEF CrashInv

\* A line of the file or a command of the menu.
LEMMA CrashQueueStep ==
    ASSUME CrashInv, UNCHANGED crashVars, CommitLine \/ EnqueueUI PROVE CrashInv'
  <1>1. UNCHANGED <<sg_crash, refused, torn, save, by, already, ret, back, saved_printing, paused>>
    BY DEF crashVars, CommitLine, EnqueueUI, savedVars, isrVars, mainVars
  <1>2. /\ pc \in {"commit", "idle", "proc"} /\ pc' \in {"get", "idle", "proc", ret} /\ save = "off"
        /\ ret \in {"top", "loop", "idle", "proc", "m601"} /\ buflen' = buflen + 1
    BY DEF CommitLine, EnqueueUI, Running, mainVars, CrashInv, CrashControl
  <1>4. PICK e : "what" \in DOMAIN e /\ cmds' = Append(cmds, e)
    <2>1. CASE CommitLine
      BY <2>1 DEF CommitLine
    <2>2. CASE EnqueueUI
      BY <2>2 DEF EnqueueUI, UI
    <2> QED
      BY <2>1, <2>2
  <1>5. Len(cmds') = Len(cmds) + 1 /\ Len(cmds) \in Nat
    BY <1>4, QueueAppend DEF CrashInv
  <1>3. CrashControl'
    BY <1>1, <1>2, <1>5 DEF CrashInv, CrashControl, BuflenAgrees, Window, Waits
  <1> QED
    BY <1>1, <1>2, <1>3, <1>4, CrashAppends DEF Releasing

\* The count of the head comes first.
LEMMA CrashCountStep ==
    ASSUME CrashInv, UNCHANGED crashVars, PopCount PROVE CrashInv'
  <1>1. /\ UNCHANGED <<cmds, sg_crash, refused, torn, save, by, already, ret, back, saved_printing, paused>>
        /\ save = "off" /\ pc = "pop" /\ pc' = "pop2" /\ buflen' = buflen - 1
    BY DEF crashVars, PopCount, savedVars, isrVars, Running
  <1>2. Len(cmds) \in Nat
    BY QueueAppend, QueueTyped DEF CrashInv
  <1>3. CrashControl'
    BY <1>1, <1>2 DEF CrashInv, CrashControl, BuflenAgrees, Window, Waits
  <1> QED
    BY <1>1, <1>3, CrashFrame DEF Releasing

\* The head is done with, and it was not the command that resumes the print.
LEMMA CrashDoneStep ==
    ASSUME CrashInv, UNCHANGED crashVars, CommandDone,
           ~\E what \in CrashCommands : Front(what)
    PROVE  CrashInv'
  <1>1. UNCHANGED <<cmds, buflen, sg_crash, refused, torn, save, by, already, ret, back, saved_printing,
                    paused>>
    BY DEF crashVars, CommandDone, queueVars, savedVars, isrVars
  <1>2. Running("proc") /\ pc' = "hand" /\ pc = "proc" /\ save = "off"
    BY DEF CommandDone, Running
  <1>3. CrashControl'
    BY <1>1, <1>2 DEF CrashInv, CrashControl, BuflenAgrees, Window, Waits
  <1>4. Recovers'
    <2>1. SUFFICES ASSUME saved_printing, ~paused, ~torn, ~sg_crash, ~refused
                   PROVE  \E i \in 1 .. Len(cmds) : Resumes(i)'
      BY <1>1 DEF Recovers
    <2>2. PICK i \in 1 .. Len(cmds) : Resumes(i)
      BY <1>2, <2>1 DEF CrashInv, Recovers
    <2>3. CASE already
      BY <1>1, <1>2, <2>2, <2>3 DEF Resumes, Releasing
    <2>4. CASE ~already
      <3>1. cmds # <<>>
        BY <2>2 DEF CrashInv, IsQueue
      <3>2. i # 1
        BY <1>2, <2>2, <2>4, <3>1 DEF Front, Resumes
      <3> QED
        BY <1>1, <2>2, <3>2 DEF Resumes
    <2> QED
      BY <2>3, <2>4
  <1> QED
    BY <1>1, <1>3, <1>4 DEF CrashInv

\* A command is pushed to the front, or counted there.
LEMMA CrashFrontStep ==
    ASSUME CrashInv, UNCHANGED crashVars,
           RepeatAfterHoming \/ EnqueueM600 \/ EnqueueFrontCommit
    PROVE  CrashInv'
  <1>1. UNCHANGED <<sg_crash, refused, torn, save, by, ret, saved_printing, paused>>
    BY DEF crashVars, RepeatAfterHoming, EnqueueM600, EnqueueFrontCommit, savedVars, isrVars
  <1>2. /\ save = "off" /\ pc \in {"proc", "m600", "front"} /\ already'
        /\ back' \in {"idle", "proc", "finish", "hand"}
        /\ (pc = "front" => pc' = back) /\ (pc # "front" => pc' = "front")
    BY DEF RepeatAfterHoming, EnqueueM600, EnqueueFrontCommit, Running, CrashInv, CrashControl
  <1>4. ~Releasing'
    BY <1>2 DEF CrashInv, CrashControl, Releasing
  <1>5. CASE RepeatAfterHoming \/ EnqueueM600
    <2> DEFINE e == [UI("ui", QueueStart) EXCEPT !.type = "STALE"]
    <2>1. /\ cmds' = <<e>> \o cmds /\ "what" \in DOMAIN e /\ pc' = "front" /\ buflen' = buflen
          /\ pc \in {"proc", "m600"}
      BY <1>5 DEF RepeatAfterHoming, EnqueueM600, UI, Running
    <2> HIDE DEF e
    <2>2. /\ IsQueue(cmds') /\ Len(cmds') = Len(cmds) + 1 /\ Len(cmds) \in Nat
          /\ \A i \in 1 .. Len(cmds) : cmds'[i + 1] = cmds[i]
      BY <2>1, QueueCons DEF CrashInv
    <2>3. CrashControl'
      BY <1>1, <1>2, <2>1, <2>2 DEF CrashInv, CrashControl, BuflenAgrees, Window, Waits
    <2>4. Recovers'
      <3>1. SUFFICES ASSUME saved_printing, ~paused, ~torn, ~sg_crash, ~refused
                     PROVE  (\E i \in 1 .. Len(cmds) : Resumes(i))'
        BY <1>1 DEF Recovers
      <3>2. PICK i \in 1 .. Len(cmds) : Resumes(i)
        BY <2>1, <3>1 DEF CrashInv, Recovers
      <3>3. i + 1 \in 1 .. Len(cmds') /\ cmds'[i + 1].what = cmds[i].what
        BY <2>2
      <3> DEFINE j == i + 1
      <3>4. j \in 1 .. Len(cmds') /\ cmds'[j].what \in CrashCommands
        BY <3>2, <3>3 DEF Resumes
      <3> HIDE DEF j
      <3>5. Resumes(j)'
        BY <1>4, <3>4 DEF Resumes
      <3> QED
        BY <3>4, <3>5
    <2> QED
      BY <2>2, <2>3, <2>4 DEF CrashInv
  <1>6. CASE EnqueueFrontCommit
    <2>1. cmds' = [cmds EXCEPT ![1].type = "UI"] /\ pc = "front" /\ pc' = back /\ buflen' = buflen + 1
      BY <1>6 DEF EnqueueFrontCommit, Running
    <2>2. /\ IsQueue(cmds') /\ Len(cmds') = Len(cmds)
          /\ \A i \in 1 .. Len(cmds) : cmds'[i].what = cmds[i].what
      <3>1. cmds' = Retyped(cmds, "UI") /\ IsQueue(cmds)
        BY <2>1 DEF Retyped, CrashInv
      <3> QED
        BY <3>1, QueueRetyped
    <2>3. CrashControl'
      BY <1>1, <1>2, <2>1, <2>2 DEF CrashInv, CrashControl, BuflenAgrees, Window, Waits
    <2> QED
      BY <1>1, <1>4, <2>1, <2>2, <2>3, CrashSameWhat
  <1> QED
    BY <1>5, <1>6

\* The head is handed over ...
LEMMA CrashHandOverStep ==
    ASSUME CrashInv, UNCHANGED crashVars, HandOver PROVE CrashInv'
  <1>1. /\ UNCHANGED <<buflen, sg_crash, refused, torn, save, by, already, back, saved_printing, paused>>
        /\ save = "off" /\ pc = "handover" /\ pc' = "pop" /\ ret' = "idle"
    BY DEF HandOver, Running, crashVars, savedVars, isrVars
  <1>3. /\ IsQueue(cmds') /\ Len(cmds') = Len(cmds)
        /\ \A i \in 1 .. Len(cmds) : cmds'[i].what = cmds[i].what
    <2>1. CASE cmds' = cmds
      BY <2>1 DEF CrashInv
    <2>2. CASE cmds' = [cmds EXCEPT ![1].type = "TO_BE_REMOVED"]
      <3>1. cmds' = Retyped(cmds, "TO_BE_REMOVED") /\ IsQueue(cmds)
        BY <2>2 DEF Retyped, CrashInv
      <3> QED
        BY <3>1, QueueRetyped
    <2> QED
      BY <2>1, <2>2 DEF HandOver
  <1>4. cmds # <<>> /\ cmds' # <<>>
    BY <1>1, <1>3 DEF CrashInv, CrashControl, IsQueue
  <1>2. CrashControl'
    BY <1>1, <1>3, <1>4 DEF CrashInv, CrashControl, BuflenAgrees, Window, Waits
  <1> QED
    BY <1>1, <1>2, <1>3, CrashSameWhat DEF Releasing

\* ... and leaves the queue.
LEMMA CrashPopStep ==
    ASSUME CrashInv, UNCHANGED crashVars, PopAdvance PROVE CrashInv'
  <1>1. /\ UNCHANGED <<buflen, sg_crash, refused, torn, save, by, ret, back, already, saved_printing, paused>>
        /\ save = "off" /\ pc = "pop2" /\ pc' = ret /\ cmds' = Tail(cmds) /\ cmds # <<>>
        /\ ret \in {"top", "loop", "idle", "proc", "m601"}
    BY DEF PopAdvance, Running, crashVars, savedVars, isrVars, CrashInv, CrashControl
  <1>2. ~Releasing'
    BY <1>1 DEF CrashInv, CrashControl, Releasing
  <1>3. Len(cmds) > 0
    BY <1>1, QueueTyped DEF CrashInv
  <1>4. /\ IsQueue(cmds') /\ Len(cmds') = Len(cmds) - 1 /\ Len(cmds) \in Nat
        /\ \A i \in 1 .. Len(cmds) : i # 1 => cmds'[i - 1] = cmds[i]
    BY <1>1, <1>3, QueueTail DEF CrashInv
  <1>7. ~torn => BuflenAgrees'
    <2>1. ~torn => Len(cmds) = buflen + 1 /\ buflen \in Int
      BY <1>1 DEF CrashInv, CrashControl, BuflenAgrees, Window
    <2>2. pc' \notin {"pop2", "front"}
      BY <1>1
    <2> QED
      BY <1>1, <1>4, <2>1, <2>2 DEF BuflenAgrees, Window
  <1>5. CrashControl'
    BY <1>1, <1>7 DEF CrashInv, CrashControl
  <1>6. Recovers'
    <3>1. SUFFICES ASSUME saved_printing, ~paused, ~torn, ~sg_crash, ~refused
                   PROVE  (\E i \in 1 .. Len(cmds) : Resumes(i))'
      BY <1>1 DEF Recovers
    <3>2. PICK i \in 1 .. Len(cmds) : Resumes(i)
      BY <1>1, <3>1 DEF CrashInv, Recovers
    <3> DEFINE j == i - 1
    <3>3. i # 1 /\ cmds[i].what \in CrashCommands
      BY <1>1, <3>2 DEF Resumes, Releasing
    <3>4. j \in 1 .. Len(cmds') /\ cmds'[j].what \in CrashCommands
      BY <1>4, <3>3
    <3> HIDE DEF j
    <3>5. Resumes(j)'
      BY <1>2, <3>4 DEF Resumes
    <3> QED
      BY <3>4, <3>5
  <1> QED
    BY <1>4, <1>5, <1>6 DEF CrashInv

\* The print is saved, paused, restored or cancelled.
LEMMA CrashResumeStep ==
    ASSUME CrashInv, UNCHANGED crashVars, Resume PROVE CrashInv'
  <1>1. /\ UNCHANGED <<cmds, buflen, sg_crash, refused, torn, save, by, already, ret, saved_printing>>
        /\ pc \in Waits /\ save = "off" /\ paused
        /\ \/ saved_printing /\ pc' = "restore" /\ back' = pc
           \/ ~saved_printing /\ UNCHANGED <<pc, back>>
    BY DEF Resume, crashVars, queueVars, isrVars
  <1>2. CrashControl'
    BY <1>1 DEF CrashInv, CrashControl, BuflenAgrees, Window, Waits
  <1>3. IsQueue(cmds')
    BY <1>1 DEF CrashInv
  <1> QED
    BY <1>1, <1>2, <1>3, CrashOver

\* A restore ends.
LEMMA CrashRestoreStep ==
    ASSUME CrashInv, UNCHANGED crashVars, RestoreFinish PROVE CrashInv'
  <1>1. /\ UNCHANGED <<buflen, sg_crash, refused, torn, save, already, ret, back>> /\ by' = "none"
        /\ pc = "restore" /\ save = "off" /\ ~saved_printing'
        /\ pc' = IF by = "runout" THEN "m600" ELSE back
    BY Zenon DEF RestoreFinish, Running, crashVars
  <1>2. /\ IsQueue(cmds') /\ Len(cmds') = Len(cmds)
    <2>1. CASE cmds' = cmds
      BY <2>1 DEF CrashInv
    <2>2. CASE cmds' = Rebase(cmds, saved_sdpos)
      BY <2>2, QueueRebased DEF CrashInv
    <2> QED
      BY <2>1, <2>2 DEF RestoreFinish
  <1>3. CrashControl'
    BY <1>1, <1>2 DEF CrashInv, CrashControl, BuflenAgrees, Window, Waits
  <1> QED
    BY <1>1, <1>2, <1>3, CrashOver

\* The queue as a save leaves it.
LEMMA StoppedQueue ==
    ASSUME NEW e, "what" \in DOMAIN e
    PROVE  IsQueue(<<>>) /\ Len(<<>>) = 0 /\ IsQueue(<<e>>) /\ Len(<<e>>) = 1 /\ <<e>> # <<>>
  <1> DEFINE S == {e}
  <1>1. <<>> \in Seq(S) /\ <<e>> \in Seq(S) /\ Len(<<>>) = 0 /\ Len(<<e>>) = 1
    OBVIOUS
  <1>2. \A r \in S : "what" \in DOMAIN r
    OBVIOUS
  <1> HIDE DEF S
  <1>3. IsQueue(<<>>) /\ IsQueue(<<e>>)
    BY <1>1, <1>2, QueueOf
  <1> QED
    BY <1>1, <1>3

\* A save or a cancel empties the queue.
LEMMA CrashStopStep ==
    ASSUME CrashInv, UNCHANGED crashVars, FinishPause \/ FinishRunout \/ CancelPrint
    PROVE  CrashInv'
  <1>1. UNCHANGED <<sg_crash, refused, torn, ret>> /\ already' = TRUE /\ save' = "off"
    BY DEF FinishPause, FinishRunout, CancelPrint, PrintStop, StopPrint, crashVars, mainVars, isrVars
  <1>2. "what" \in DOMAIN UI("ui", sdpos_atomic)
    BY DEF UI
  <1>3. /\ \/ cmds' = <<>> /\ buflen' = Len(cmds') /\ pc \in Waits \cup {"restore"}
           \/ cmds' = <<UI("ui", sdpos_atomic)>> /\ buflen' = Len(cmds')
    <2>1. CASE FinishPause
      BY <2>1 DEF FinishPause, StopPrint
    <2>2. CASE FinishRunout
      BY <2>2 DEF FinishRunout, StopPrint, CrashInv, CrashControl
    <2>3. CASE CancelPrint
      BY <2>3, StoppedQueue, <1>2 DEF CancelPrint, PrintStop
    <2> QED
      BY <2>1, <2>2, <2>3
  <1>4. IsQueue(cmds') /\ Len(cmds') \in Nat
    BY <1>2, <1>3, StoppedQueue
  <1>5. /\ pc' \in {pc, "proc", "restore"} /\ back' \in {back, pc} /\ (back' # back => pc \in Waits)
        /\ (pc' = pc \/ pc' = "proc" \/ pc \in Waits)
    BY DEF FinishPause, FinishRunout, CancelPrint, mainVars, CrashInv, CrashControl
  <1>6. by' = "none" \/ (by' = by /\ by # "runout") \/ pc' = "restore"
    BY DEF FinishPause, FinishRunout, CancelPrint, PrintStop, isrVars, mainVars, CrashInv, CrashControl, Waits
  <1>7. ~torn => BuflenAgrees'
    <2>1. pc \in Waits \cup {"m601", "restore"}
      BY DEF FinishPause, FinishRunout, CancelPrint, CrashInv, CrashControl
    <2> QED
      BY <1>3, <1>4, <1>5, <2>1 DEF BuflenAgrees, Window, Waits
  <1>8. CrashControl'
    <2>1. pc \in Waits \cup {"m601", "restore"}
      BY DEF FinishPause, FinishRunout, CancelPrint, CrashInv, CrashControl
    <2>2. pc' \notin {"handover", "pop", "pop2"} /\ back' \in {"idle", "proc", "finish", "hand"}
          /\ ret' \in {"top", "loop", "idle", "proc", "m601"}
      BY <1>1, <1>5, <2>1 DEF Waits, CrashInv, CrashControl
    <2>3. buflen' \in Int
      BY <1>3, <1>4
    <2> QED
      BY <1>1, <1>6, <1>7, <2>2, <2>3 DEF CrashControl
  <1>9. ~saved_printing' \/ paused' \/ pc' = "restore"
    BY DEF FinishPause, FinishRunout, CancelPrint, PrintStop
  <1> QED
    BY <1>4, <1>8, <1>9, CrashOver

\* The pause of an M601.
LEMMA CrashM601Step ==
    ASSUME CrashInv, UNCHANGED crashVars, PauseAfterM601 PROVE CrashInv'
  <1>1. /\ UNCHANGED <<cmds, buflen, sg_crash, refused, torn, already, ret, back, saved_printing>>
        /\ pc = "m601" /\ save = "off"
        /\ \/ saved_printing /\ paused' /\ pc' = "proc" /\ UNCHANGED <<save, by>>
           \/ ~saved_printing /\ pc' = pc /\ save' # "off" /\ by' = "pause"
    BY DEF PauseAfterM601, PauseAt, StartSave, Running, crashVars, queueVars
  <1>2. CrashControl' /\ IsQueue(cmds')
    BY <1>1 DEF CrashInv, CrashControl, BuflenAgrees, Window, Waits
  <1> QED
    BY <1>1, <1>2, CrashOver

-----------------------------------------------------------------------------
(* The steps of the crash detection.                                       *)

\* The interrupt detects a crash ...
LEMMA CrashDetectedStep == CrashInv /\ CrashDetected => CrashInv'
  <1> SUFFICES ASSUME CrashInv, CrashDetected PROVE CrashInv'
    OBVIOUS
  <1>1. /\ UNCHANGED <<cmds, buflen, torn, already, ret, back, pc>> /\ sg_crash' = TRUE
        /\ save = "off" /\ (UNCHANGED <<save, by>> \/ (save' # "off" /\ by' = "crash"))
    BY DEF CrashDetected, StartSave, queueVars, mainVars
  <1>2. CrashControl' /\ IsQueue(cmds')
    BY <1>1 DEF CrashInv, CrashControl, BuflenAgrees, Window
  <1> QED
    BY <1>1, <1>2, CrashOver

\* ... and empties the queue: the crash is still to be queued.
LEMMA FinishCrashStep == CrashInv /\ FinishCrash => CrashInv'
  <1> SUFFICES ASSUME CrashInv, FinishCrash PROVE CrashInv'
    OBVIOUS
  <1> DEFINE e == UI("ui", sdpos_atomic)
  <1>1. /\ UNCHANGED <<ret, back, pc, sg_crash>> /\ already' = TRUE /\ save' = "off" /\ by' = "none"
        /\ cmds' = <<e>> /\ buflen' = Len(cmds') /\ torn' = Window /\ sg_crash
    BY DEF FinishCrash, StopPrint, mainVars, CrashInv, CrashControl
  <1>2. "what" \in DOMAIN e
    BY DEF UI
  <1> HIDE DEF e
  <1>3. IsQueue(cmds') /\ Len(cmds') = 1 /\ cmds' # <<>> /\ buflen' = 1
    BY <1>1, <1>2, StoppedQueue
  <1>4. CrashControl'
    <2>1. ~torn' => BuflenAgrees'
      <3>1. ~torn' => ~Window'
        BY Zenon, <1>1 DEF Window
      <3> QED
        BY <1>3, <3>1 DEF BuflenAgrees
    <2>2. UNCHANGED <<ret, back>> /\ save' = "off" /\ by' = "none" /\ already'
      BY <1>1
    <2> QED
      BY <1>3, <2>1, <2>2 DEF CrashInv, CrashControl
  <1> QED
    BY <1>1, <1>3, <1>4, CrashOver

\* A command that resumes or ends the print is queued, or does not fit.
LEMMA CrashQueued ==
    ASSUME CrashInv, NEW k \in CrashCommands, Enqueue(k),
           pc' \in {"loop", "hand"}, UNCHANGED <<already, save, by, ret, back, torn>>,
           save = "off", pc \in {"loop", "proc"}, Len(cmds) > 0 \/ pc' = "loop"
    PROVE  CrashInv'
  <1> DEFINE e == UI(k, sdpos_atomic)
  <1>1. CASE cmds' = Append(cmds, e) /\ buflen' = buflen + 1
    <2>1. "what" \in DOMAIN e /\ e.what = k
      BY DEF UI
    <2> HIDE DEF e
    <2>2. /\ IsQueue(cmds') /\ Len(cmds') = Len(cmds) + 1 /\ Len(cmds) \in Nat
          /\ cmds'[Len(cmds) + 1] = e
      BY <1>1, <2>1, QueueAppend DEF CrashInv
    <2>3. CrashControl'
      BY <1>1, <2>2 DEF CrashInv, CrashControl, BuflenAgrees, Window, Waits
    <2>4. PICK j \in 1 .. Len(cmds') :
              cmds'[j].what \in CrashCommands /\ (pc' = "loop" \/ j # 1)
      BY <2>1, <2>2
    <2>5. Resumes(j)'
      BY <2>4 DEF Resumes, Releasing
    <2> QED
      BY <2>2, <2>3, <2>4, <2>5 DEF CrashInv, Recovers
  <1>2. CASE UNCHANGED <<cmds, buflen>> /\ refused' = TRUE
    <2>1. IsQueue(cmds') /\ CrashControl'
      BY <1>2 DEF CrashInv, CrashControl, BuflenAgrees, Window, Waits
    <2> QED
      BY <1>2, <2>1, CrashOver
  <1> QED
    BY <1>1, <1>2 DEF Enqueue

\* The crash becomes a command,
LEMMA EnqueueCrashStep == CrashInv /\ EnqueueCrash => CrashInv'
  <1> SUFFICES ASSUME CrashInv, EnqueueCrash PROVE CrashInv'
    OBVIOUS
  <1>1. /\ Enqueue("crash") /\ "crash" \in CrashCommands
        /\ pc = "loop" /\ pc' = "loop" /\ save = "off"
        /\ UNCHANGED <<already, save, by, ret, back, torn>>
    BY DEF EnqueueCrash, Running, mainVars, isrVars, CrashCommands
  <1> QED
    BY <1>1, CrashQueued

\* ... which queues the recovery before it is released,
LEMMA ProcessCrashDetectedStep == CrashInv /\ ProcessCrashDetected => CrashInv'
  <1> SUFFICES ASSUME CrashInv, ProcessCrashDetected PROVE CrashInv'
    OBVIOUS
  <1>1. /\ pc = "proc" /\ pc' = "hand" /\ save = "off" /\ cmds # <<>>
        /\ UNCHANGED <<already, save, by, ret, back, torn>>
    BY DEF ProcessCrashDetected, Front, Running, isrVars
  <1>2. PICK k \in {"recover", "cancel"} : Enqueue(k)
    BY DEF ProcessCrashDetected
  <1>3. Len(cmds) > 0 /\ k \in CrashCommands
    BY <1>1, QueueTyped DEF CrashInv, CrashCommands
  <1> QED
    BY <1>1, <1>2, <1>3, CrashQueued

\* ... and gives the print up at the user's wish,
LEMMA ProcessCrashCancelStep == CrashInv /\ ProcessCrashCancel => CrashInv'
  <1> SUFFICES ASSUME CrashInv, ProcessCrashCancel PROVE CrashInv'
    OBVIOUS
  <1>1. /\ cmds' = <<>> /\ buflen' = 0 /\ already' = TRUE /\ saved_printing' = FALSE
        /\ pc = "proc" /\ pc' = "hand" /\ save = "off"
        /\ UNCHANGED <<save, by, ret, back, torn>>
    BY DEF ProcessCrashCancel, PrintStop, Front, Running, isrVars
  <1>2. IsQueue(cmds') /\ Len(cmds') = 0
    <2>1. "what" \in DOMAIN UI("ui", 0)
      BY DEF UI
    <2> QED
      BY <1>1, <2>1, StoppedQueue
  <1>3. CrashControl'
    BY <1>1, <1>2 DEF CrashInv, CrashControl, BuflenAgrees, Window, Waits
  <1> QED
    BY <1>1, <1>2, <1>3, CrashOver

\* ... which resumes the print before it is released.
LEMMA ProcessCrashRecoverStep == CrashInv /\ ProcessCrashRecover => CrashInv'
  <1> SUFFICES ASSUME CrashInv, ProcessCrashRecover PROVE CrashInv'
    OBVIOUS
  <1>1. /\ UNCHANGED <<cmds, buflen, already, save, by, ret, torn, saved_printing, paused>>
        /\ pc = "proc" /\ save = "off"
        /\ \/ saved_printing /\ pc' = "restore" /\ back' = "hand"
           \/ (paused \/ ~saved_printing) /\ pc' = "hand" /\ back' = back
    BY DEF ProcessCrashRecover, Front, Running, isrVars, queueVars, savedVars
  <1>2. CrashControl' /\ IsQueue(cmds')
    BY <1>1 DEF CrashInv, CrashControl, BuflenAgrees, Window, Waits
  <1> QED
    BY <1>1, <1>2, CrashOver

-----------------------------------------------------------------------------
\* No print is stopped at first.
LEMMA CrashInitInv == InitCrash => CrashInv
  <1> SUFFICES ASSUME InitCrash PROVE CrashInv
    OBVIOUS
  <1>1. IsQueue(cmds) /\ Len(cmds) = 0
    <2>1. "what" \in DOMAIN UI("ui", 0)
      BY DEF UI
    <2> QED
      BY <2>1, StoppedQueue DEF InitCrash, Init
  <1>2. CrashControl
    BY <1>1 DEF InitCrash, Init, CrashControl, BuflenAgrees, Window
  <1> QED
    BY <1>1, <1>2 DEF InitCrash, Init, CrashInv, Recovers

\* Every step keeps the invariant.
LEMMA CrashStepInv == "m601" \notin Events /\ CrashInv /\ [NextCrash]_allVars => CrashInv'
  <1> SUFFICES ASSUME "m601" \notin Events, CrashInv, [NextCrash]_allVars PROVE CrashInv'
    OBVIOUS
  <1>1. CASE Base
    <2>1. /\ Next /\ ~torn /\ UNCHANGED crashVars /\ ~ProcessM601
          /\ ~(pc' # pc /\ \E what \in CrashCommands : Front(what))
      BY <1>1 DEF Base, ProcessM601
    <2>2. CommandDone => ~\E what \in CrashCommands : Front(what)
      BY <2>1 DEF CommandDone, Running
    <2>3. CASE Main
      BY <2>1, <2>2, <2>3, CrashEnterStep, CrashReadStep, CrashPlainStep, CrashQueueStep,
         CrashCountStep, CrashFrontStep, CrashDoneStep, CrashHandOverStep, CrashPopStep,
         CrashM601Step, CrashRestoreStep DEF Main
    <2>4. CASE Saving
      BY <2>1, <2>4, CrashSaveStep, CrashStopStep DEF Saving
    <2>5. CASE Environment
      BY <2>1, <2>5, CrashQueueStep, CrashSaveStep, CrashResumeStep, CrashStopStep DEF Environment
    <2>6. CASE StepperDone \/ FinishPowerFail \/ PowerDown
      BY <2>1, <2>6, CrashSaveStep
    <2> QED
      BY <2>1, <2>3, <2>4, <2>5, <2>6 DEF Next
  <1>2. CASE Torn \/ UNCHANGED allVars
    <2>1. UNCHANGED vars /\ UNCHANGED crashVars
      BY <1>2 DEF Torn, allVars
    <2>2. UNCHANGED <<cmds, buflen, already, saved_printing, paused, pc, ret, back, save, by,
                      sg_crash, refused, torn>>
      BY <2>1 DEF vars, queueVars, savedVars, mainVars, isrVars, crashVars
    <2>3. CrashControl'
      BY <2>2 DEF CrashInv, CrashControl, BuflenAgrees, Window
    <2> QED
      BY <2>2, <2>3, CrashFrame DEF Releasing
  <1> QED
    BY <1>1, <1>2, CrashDetectedStep, FinishCrashStep, EnqueueCrashStep, ProcessCrashDetectedStep,
       ProcessCrashRecoverStep, ProcessCrashCancelStep DEF NextCrash

-----------------------------------------------------------------------------
(* PrintFlowCrash: what a save computes while crashes may stop the print.  *)
(* The parts of the invariant that speak of what the main thread plans do  *)
(* not survive a crash: it goes on with the line that was being read or    *)
(* processed.  Core does, and the following beside it.                     *)

\* Some command in q has come from the crash detection.
CrashIn(q) == \E i \in 1 .. Len(q) : q[i].what \in CrashCommands

Lineless(q) == \A i \in 1 .. Len(q) : q[i].type # "SDCARD"

\* No line of the file stands behind the command that will resume the print.
LinesFirst(q) ==
    \A i, j \in 1 .. Len(q) :
        q[i].what \in CrashCommands /\ i <= j => q[j].type # "SDCARD"

\* Where the main thread may be: a line is read on while the print is stopped
\* only if a crash has come in the middle of get_command().
Flowing ==
    /\ pc # "m601"
    /\ pc \in {"pop", "pop2"} => ret = "idle"
    /\ pc \in {"get", "commit"} => sdprinting \/ SavedSD

\* Saver, with the crash as one more caller.
CrashSaver ==
    /\ save \in {"planner", "cmdqueue"} => saved_type = "sd"
    /\ save # "off" => /\ ~SavedSD /\ (saved_type = "sd" <=> sdprinting)
                       /\ by \in {"pause", "runout"} => pc \in Waits
    /\ paused => saved_printing
    /\ pc = "restore" => ~sdprinting /\ (saved_printing \/ saved_type # "sd")

\* A stopped print that is not read on.
AtRest == saved_type # "sd" \/ paused \/ pc = "restore" \/ ~readOn

\* What remains of Quiet: lines are left in the queue only in front of the
\* command that will resume the print, and none is read once it is queued.
Stopped ==
    saved_printing =>
        /\ ~sdprinting
        /\ LinesFirst(cmds)
        /\ CrashIn(cmds) => pc \notin {"get", "commit"}
        /\ AtRest => /\ Lineless(cmds) /\ pc \notin {"get", "commit"}
                     /\ already \/ line = NoLine

FlowInv == Core /\ Flowing /\ CrashSaver /\ Stopped

\* The whole invariant: a torn queue stays as it is.
CrashFlow ==
    /\ torn => Window /\ save = "off" /\ ~armed
    /\ ~torn => FlowInv

-----------------------------------------------------------------------------
(* The queue.                                                              *)

\* The head is removed.
LEMMA FlowTail ==
    ASSUME NEW q \in Seq(Command), Len(q) > 0
    PROVE  /\ CrashIn(Tail(q)) => CrashIn(q)
           /\ Lineless(q) => Lineless(Tail(q))
           /\ LinesFirst(q) => LinesFirst(Tail(q))
  <1> DEFINE r == Tail(q)
  <1>1. /\ Len(q) \in Nat /\ Len(r) = Len(q) - 1
        /\ \A i \in 1 .. Len(q) - 1 : r[i] = q[i + 1]
    BY TailShape
  <1> HIDE DEF r
  <1>2. \A i \in 1 .. Len(r) : i + 1 \in 1 .. Len(q) /\ r[i] = q[i + 1]
    BY <1>1
  <1>3. \A i, j \in 1 .. Len(r) : i <= j => i + 1 <= j + 1
    OBVIOUS
  <1>4. (CrashIn(r) => CrashIn(q)) /\ (Lineless(q) => Lineless(r))
    BY <1>2 DEF CrashIn, Lineless
  <1>5. LinesFirst(q) => LinesFirst(r)
    BY <1>2, <1>3 DEF LinesFirst
  <1> QED
    BY <1>4, <1>5 DEF r

\* A command that is no line and comes from nobody else is put in front.
LEMMA FlowCons ==
    ASSUME NEW q \in Seq(Command), NEW e \in Command, e.type # "SDCARD",
           e.what \notin CrashCommands
    PROVE  /\ CrashIn(<<e>> \o q) => CrashIn(q)
           /\ Lineless(q) => Lineless(<<e>> \o q)
           /\ LinesFirst(q) => LinesFirst(<<e>> \o q)
  <1> DEFINE r == <<e>> \o q
  <1>1. /\ Len(q) \in Nat /\ Len(r) = Len(q) + 1 /\ r[1] = e
        /\ \A i \in 2 .. Len(q) + 1 : r[i] = q[i - 1]
    BY ConsShape
  <1> HIDE DEF r
  <1>2. \A i \in 1 .. Len(r) : \/ i = 1 /\ r[i] = e
                               \/ i > 1 /\ i - 1 \in 1 .. Len(q) /\ r[i] = q[i - 1]
    BY <1>1
  <1>3. (CrashIn(r) => CrashIn(q)) /\ (Lineless(q) => Lineless(r))
    BY <1>2 DEF CrashIn, Lineless
  <1>4. LinesFirst(q) => LinesFirst(r)
    <2> SUFFICES ASSUME LinesFirst(q), NEW i \in 1 .. Len(r), NEW j \in 1 .. Len(r),
                        r[i].what \in CrashCommands, i <= j
                 PROVE  r[j].type # "SDCARD"
      BY DEF LinesFirst
    <2>1. i > 1 /\ i - 1 \in 1 .. Len(q) /\ r[i] = q[i - 1]
      BY <1>2
    <2>2. j > 1 /\ j - 1 \in 1 .. Len(q) /\ r[j] = q[j - 1] /\ i - 1 <= j - 1
      BY <1>2, <2>1
    <2> QED
      BY <2>1, <2>2 DEF LinesFirst
  <1> QED
    BY <1>3, <1>4 DEF r

\* The head gets another type.
LEMMA FlowRetype ==
    ASSUME cmds \in Seq(Command), Len(cmds) > 0, NEW t \in Types, t # "SDCARD",
           cmds' = [cmds EXCEPT ![1].type = t]
    PROVE  /\ CrashIn(cmds') => CrashIn(cmds)
           /\ Lineless(cmds) => Lineless(cmds')
           /\ LinesFirst(cmds) => LinesFirst(cmds')
  <1>1. /\ Len(cmds') = Len(cmds) /\ cmds'[1].type = t
        /\ \A i \in 2 .. Len(cmds) : cmds'[i] = cmds[i]
    BY RetypeShape
  <1>2. cmds'[1].what = cmds[1].what
    <2>1. cmds[1] \in Command /\ 1 \in DOMAIN cmds
      OBVIOUS
    <2>2. cmds'[1] = [cmds[1] EXCEPT !.type = t]
      BY <2>1
    <2> QED
      BY <2>1, <2>2 DEF Command
  <1>3. \A i \in 1 .. Len(cmds') :
           /\ cmds'[i].what = cmds[i].what
           /\ cmds'[i].type = "SDCARD" => cmds[i].type = "SDCARD"
    <2>1. \A i \in 1 .. Len(cmds) : i = 1 \/ i \in 2 .. Len(cmds)
      OBVIOUS
    <2> QED
      BY <1>1, <1>2, <2>1
  <1> QED
    BY ONLY <1>1, <1>3 DEF CrashIn, Lineless, LinesFirst

\* A command is appended.
LEMMA FlowAppend ==
    ASSUME NEW q \in Seq(Command), NEW e \in Command
    PROVE  /\ CrashIn(Append(q, e)) => CrashIn(q) \/ e.what \in CrashCommands
           /\ e.type # "SDCARD" /\ Lineless(q) => Lineless(Append(q, e))
           /\ e.type # "SDCARD" /\ LinesFirst(q) => LinesFirst(Append(q, e))
  <1> DEFINE r == Append(q, e)
  <1>1. /\ Len(q) \in Nat /\ Len(r) = Len(q) + 1 /\ r[Len(q) + 1] = e
        /\ \A i \in 1 .. Len(q) : r[i] = q[i]
    BY AppendShape
  <1> HIDE DEF r
  <1>2. \A i \in 1 .. Len(r) : \/ i = Len(q) + 1 /\ r[i] = e
                               \/ i \in 1 .. Len(q) /\ r[i] = q[i]
    BY <1>1
  <1>3. /\ CrashIn(r) => CrashIn(q) \/ e.what \in CrashCommands
        /\ e.type # "SDCARD" /\ Lineless(q) => Lineless(r)
    BY <1>2 DEF CrashIn, Lineless
  <1>4. e.type # "SDCARD" /\ LinesFirst(q) => LinesFirst(r)
    <2> SUFFICES ASSUME e.type # "SDCARD", LinesFirst(q),
                        NEW i \in 1 .. Len(r), NEW j \in 1 .. Len(r),
                        r[i].what \in CrashCommands, i <= j
                 PROVE  r[j].type # "SDCARD"
      BY DEF LinesFirst
    <2>1. CASE j = Len(q) + 1
      BY <1>2, <2>1
    <2>2. CASE j # Len(q) + 1
      <3>1. j \in 1 .. Len(q) /\ i \in 1 .. Len(q) /\ r[i] = q[i] /\ r[j] = q[j]
        BY <1>1, <1>2, <2>2
      <3> QED
        BY <3>1 DEF LinesFirst
    <2> QED
      BY <2>1, <2>2
  <1> QED
    BY <1>3, <1>4 DEF r

-----------------------------------------------------------------------------
(* The steps.                                                              *)

\* A step of the main thread or of the environment that neither stops the
\* print nor lets it go on.
LEMMA FlowFrame ==
    ASSUME FlowInv, Core', save = "off",
           UNCHANGED <<saved_printing, saved_type, paused, save, readOn>>,
           sdprinting' => sdprinting,
           Lineless(cmds) => Lineless(cmds'), LinesFirst(cmds) => LinesFirst(cmds'),
           CrashIn(cmds') /\ pc' \in {"get", "commit"} => CrashIn(cmds),
           pc' # "m601", pc' \in {"pop", "pop2"} => ret' = "idle",
           pc' \in {"get", "commit"}
               => sdprinting' \/ (pc \in {"get", "commit"} /\ ~sdprinting),
           pc' = "restore" => pc = "restore",
           Lineless(cmds) /\ (already \/ line = NoLine) => already' \/ line' = NoLine
    PROVE  FlowInv'
  <1>1. Flowing'
    BY DEF FlowInv, Flowing, SavedSD
  <1>2. CrashSaver'
    BY DEF FlowInv, CrashSaver
  <1>3. Stopped'
    <2> SUFFICES ASSUME saved_printing PROVE Stopped'
      BY DEF Stopped
    <2>1. /\ ~sdprinting /\ LinesFirst(cmds)
          /\ CrashIn(cmds) => pc \notin {"get", "commit"}
          /\ AtRest => /\ Lineless(cmds) /\ pc \notin {"get", "commit"}
                       /\ already \/ line = NoLine
      BY DEF FlowInv, Stopped
    <2>2. ~sdprinting' /\ (AtRest' => AtRest)
      BY <2>1 DEF AtRest
    <2>3. pc' \in {"get", "commit"} => pc \in {"get", "commit"}
      BY <2>2
    <2> QED
      BY <2>1, <2>2, <2>3 DEF Stopped
  <1> QED
    BY <1>1, <1>2, <1>3 DEF FlowInv

\* get_command() is entered, or left at once.
LEMMA FlowEnterStep == FlowInv /\ (LoopTop \/ GetWhileWaiting \/ LoopEnd) /\ readOn' = readOn => FlowInv'
  <1> SUFFICES ASSUME FlowInv, LoopTop \/ GetWhileWaiting \/ LoopEnd, readOn' = readOn PROVE FlowInv'
    OBVIOUS
  <1>1. Core'
    BY EnterStep DEF FlowInv
  <1>2. /\ save = "off"
        /\ UNCHANGED <<cmds, already, line, saved_printing, saved_type, paused,
                       save, sdprinting>>
        /\ pc' \in {"get", "top", "proc", "loop"} /\ (pc' = "get" => sdprinting)
    BY DEF LoopTop, GetWhileWaiting, LoopEnd, GetEnter, Running, queueVars,
           savedVars, isrVars, fileVars
  <1> QED
    BY <1>1, <1>2, FlowFrame

\* get_command() at work.
LEMMA FlowReadStep ==
    ASSUME FlowInv, readOn' = readOn,
           \/ GetLine \/ GetBlankLine \/ GetReturn \/ GetEndOfFile
           \/ PrintingHasFinished
    PROVE  FlowInv'
  <1>1. Core'
    BY ReadStep, ReturnStep DEF FlowInv
  <1>2. /\ save = "off"
        /\ UNCHANGED <<cmds, already, line, saved_printing, saved_type, paused, save>>
        /\ sdprinting' = sdprinting \/ (sdprinting' = FALSE /\ pc = "finish" /\ pc' = ret)
        /\ pc = "finish" => pc' = ret
        /\ pc \in {"get", "finish"} /\ pc' \in {"commit", "finish", ret}
    BY DEF GetLine, GetBlankLine, GetReturn, GetEndOfFile, PrintingHasFinished,
           Running, fileVars, queueVars, savedVars, isrVars
  <1>3. ret \in {"top", "loop", "proc"}
    BY <1>2 DEF FlowInv, Core, Control
  <1>t. sdprinting \in BOOLEAN
    BY DEF FlowInv, Core, TypeOK, FileTypes
  <1>4. /\ sdprinting' => sdprinting
        /\ pc' \in {"get", "commit"}
               => sdprinting' \/ (pc \in {"get", "commit"} /\ ~sdprinting)
        /\ pc' \in {"commit", "finish", "top", "loop", "proc"}
    <2>1. CASE sdprinting' = sdprinting /\ pc = "get"
      BY <1>2, <1>3, <2>1
    <2>2. CASE sdprinting' = sdprinting /\ pc = "finish"
      BY <1>2, <1>3, <2>2
    <2>3. CASE sdprinting' = FALSE /\ pc = "finish" /\ pc' = ret
      BY <1>3, <2>3
    <2> QED
      BY <1>2, <2>1, <2>2, <2>3
  <1> QED
    BY <1>1, <1>2, <1>4, FlowFrame

\* Steps that leave the queue alone.
LEMMA FlowPlainStep ==
    ASSUME FlowInv, readOn' = readOn,
           \/ LoopDispatch \/ PlanPrepare \/ PlanPublish \/ CommandDone
           \/ ReleaseCheck \/ PopCount \/ RestoreMove \/ StepperDone
    PROVE  FlowInv'
  <1>1. Core'
    BY DispatchStep, ProcessStep, PlanPublishStep, PopCountStep, RestoreMoveStep,
       StepperDoneStep DEF FlowInv
  <1>2. /\ save = "off"
        /\ UNCHANGED <<cmds, ret, saved_printing, saved_type, paused, save, sdprinting>>
        /\ \/ pc' \in {"proc", "idle", "prep", "hand", "handover"}
           \/ pc' = "pop2" /\ pc = "pop"
           \/ pc' = pc
    BY DEF LoopDispatch, PlanPrepare, PlanPublish, CommandDone, ReleaseCheck,
           PopCount, RestoreMove, StepperDone, Running, fileVars, queueVars,
           savedVars, isrVars, mainVars
  <1>3. \/ UNCHANGED <<already, line>>
        \/ pc = "top" /\ buflen > 0
           /\ line' = IF cmds[1].type = "SDCARD" THEN cmds[1].from ELSE NoLine
    BY DEF LoopDispatch, PlanPrepare, PlanPublish, CommandDone, ReleaseCheck,
           PopCount, RestoreMove, StepperDone, Running, queueVars, mainVars
  <1>4. Lineless(cmds) /\ (already \/ line = NoLine) => already' \/ line' = NoLine
    <2>1. CASE UNCHANGED <<already, line>>
      BY <2>1
    <2>2. CASE pc = "top" /\ buflen > 0
               /\ line' = IF cmds[1].type = "SDCARD" THEN cmds[1].from ELSE NoLine
      <3>s. ShapeOK
        BY Shape DEF FlowInv, Core
      <3>1. 1 \in 1 .. Len(cmds)
        BY <2>2, <3>s DEF FlowInv, Core, BuflenAgrees, Window, ShapeOK
      <3> QED
        BY <2>2, <3>1 DEF Lineless
    <2> QED
      BY <1>3, <2>1, <2>2
  <1>5. /\ pc' # "m601" /\ (pc' \in {"pop", "pop2"} => ret' = "idle")
        /\ pc' \in {"get", "commit"} => sdprinting' \/ (pc \in {"get", "commit"} /\ ~sdprinting)
    BY <1>2 DEF FlowInv, Flowing
  <1> QED
    BY <1>1, <1>2, <1>4, <1>5, FlowFrame

\* Steps that move or mark the head of the queue.
LEMMA FlowHeadStep ==
    ASSUME FlowInv, readOn' = readOn,
           \/ HandOver \/ PopAdvance \/ EnqueueFrontCommit \/ RepeatAfterHoming
           \/ EnqueueM600
    PROVE  FlowInv'
  <1>1. Core'
    BY HandOverStep, PopAdvanceStep, EnqueueFrontCommitStep, PushFrontStep DEF FlowInv
  <1>2. /\ save = "off" /\ UNCHANGED <<line, saved_printing, saved_type, paused,
                                       save, sdprinting>>
        /\ already' = already \/ already'
    BY DEF HandOver, PopAdvance, EnqueueFrontCommit, RepeatAfterHoming, EnqueueM600,
           Running, fileVars, savedVars, isrVars
  <1>3. /\ \/ pc' = "pop" /\ ret' = "idle"
           \/ pc' = ret /\ pc = "pop2"
           \/ pc' = back /\ pc = "front"
           \/ pc' = "front"
    BY DEF HandOver, PopAdvance, EnqueueFrontCommit, RepeatAfterHoming, EnqueueM600,
           Running
  <1>4. back \in {"idle", "proc", "finish", "hand"} /\ (pc = "pop2" => ret = "idle")
    BY DEF FlowInv, Core, TypeOK, MainTypes, Flowing
  <1>s. ShapeOK
    BY Shape DEF FlowInv, Core
  <1>5. /\ CrashIn(cmds') => CrashIn(cmds)
        /\ Lineless(cmds) => Lineless(cmds')
        /\ LinesFirst(cmds) => LinesFirst(cmds')
    <2>q. cmds \in Seq(Command) /\ QueueStart \in Int
      BY <1>s, CoreOrder DEF ShapeOK, FlowInv
    <2>1. CASE HandOver
      <3>1. CASE UNCHANGED cmds
        BY <3>1
      <3>2. CASE cmds' = [cmds EXCEPT ![1].type = "TO_BE_REMOVED"]
        <4>1. Len(cmds) > 0
          BY <2>1 DEF HandOver, Running, FlowInv, Core, Control
        <4>2. "TO_BE_REMOVED" \in Types
          BY DEF Types
        <4> QED
          BY ONLY <2>q, <3>2, <4>1, <4>2, FlowRetype
      <3> QED
        BY <2>1, <3>1, <3>2 DEF HandOver
    <2>2. CASE PopAdvance
      <3>1. Len(cmds) > 0 /\ cmds' = Tail(cmds)
        BY <2>2 DEF PopAdvance, Running, FlowInv, Core, Control
      <3> QED
        BY ONLY <2>q, <3>1, FlowTail
    <2>3. CASE EnqueueFrontCommit
      <3>1. Len(cmds) > 0 /\ cmds' = [cmds EXCEPT ![1].type = "UI"]
        BY <2>3 DEF EnqueueFrontCommit, Running, FlowInv, Core, Control
      <3>2. "UI" \in Types
        BY DEF Types
      <3> QED
        BY ONLY <2>q, <3>1, <3>2, FlowRetype
    <2>4. CASE RepeatAfterHoming \/ EnqueueM600
      <3> DEFINE e == [UI("ui", QueueStart) EXCEPT !.type = "STALE"]
      <3>1. cmds' = <<e>> \o cmds
        BY <2>4 DEF RepeatAfterHoming, EnqueueM600
      <3>2. e \in Command /\ e.type # "SDCARD" /\ e.what \notin CrashCommands
        BY <2>q DEF UI, Command, Types, Kinds, CrashCommands
      <3> HIDE DEF e
      <3> QED
        BY ONLY <2>q, <3>1, <3>2, FlowCons
    <2> QED
      BY <2>1, <2>2, <2>3, <2>4
  <1>6. /\ pc' \notin {"m601", "get", "commit", "restore"}
        /\ pc' \in {"pop", "pop2"} => ret' = "idle"
    BY <1>3, <1>4
  <1>7. Lineless(cmds) /\ (already \/ line = NoLine) => already' \/ line' = NoLine
    BY <1>2
  <1> QED
    BY <1>1, <1>2, <1>5, <1>6, <1>7, FlowFrame

\* A line enters the queue: after a crash it is the one that was being read.
LEMMA FlowCommitStep == FlowInv /\ CommitLine /\ readOn' = readOn => FlowInv'
  <1> SUFFICES ASSUME FlowInv, CommitLine, readOn' = readOn PROVE FlowInv'
    OBVIOUS
  <1> DEFINE e == [type |-> "SDCARD", what |-> "line",
                   len  |-> Trunc(readpos - sdpos_atomic),
                   from |-> sdpos_atomic, to |-> readpos]
  <1>1. Core'
    BY CommitLineStep DEF FlowInv
  <1>2. /\ save = "off" /\ pc = "commit" /\ cmds' = Append(cmds, e)
        /\ UNCHANGED <<saved_printing, saved_type, paused, save, by, sdprinting, ret>>
        /\ pc' \in {"get", ret}
    BY DEF CommitLine, Running, planVars, savedVars, isrVars
  <1>3. ret \in {"top", "loop", "proc"} /\ (sdprinting \/ SavedSD)
    BY <1>2 DEF FlowInv, Core, Control, Flowing
  <1>4. e \in Command /\ e.what = "line" /\ cmds \in Seq(Command)
    <2>s. ShapeOK
      BY Shape DEF FlowInv, Core
    <2>1. readpos - sdpos_atomic \in Int
      BY <2>s DEF ShapeOK
    <2> QED
      BY <2>s, <2>1, TruncFacts DEF ShapeOK, Command, Types, Kinds
  <1> HIDE DEF e
  <1>5. CrashIn(cmds') => CrashIn(cmds)
    <2>1. CrashIn(Append(cmds, e)) => CrashIn(cmds) \/ e.what \in CrashCommands
      BY ONLY <1>4, FlowAppend
    <2> QED
      BY <1>2, <1>4, <2>1 DEF CrashCommands
  <1>6. Flowing' /\ CrashSaver'
    BY <1>2, <1>3 DEF FlowInv, CrashSaver, Flowing, SavedSD
  <1>7. Stopped'
    <2> SUFFICES ASSUME saved_printing PROVE Stopped'
      BY <1>2 DEF Stopped
    <2>1. ~sdprinting /\ ~CrashIn(cmds) /\ ~AtRest
      BY <1>2 DEF FlowInv, Stopped
    <2>2. ~AtRest' /\ ~CrashIn(cmds')
      BY <1>2, <1>3, <1>5, <2>1 DEF AtRest
    <2>3. LinesFirst(cmds')
      BY <2>2 DEF CrashIn, LinesFirst
    <2> QED
      BY <1>2, <2>1, <2>2, <2>3 DEF Stopped
  <1> QED
    BY <1>1, <1>6, <1>7 DEF FlowInv

\* A command of the printer's own is queued: by the menu, at the end of loop()
\* after a crash, or by the command that handles the crash.
LEMMA FlowAppendStep ==
    ASSUME FlowInv, readOn' = readOn, NEW k \in Kinds, save = "off", pc \in {"idle", "proc", "loop"},
           pc' = pc \/ (pc = "proc" /\ pc' = "hand"),
           cmds' = Append(cmds, UI(k, sdpos_atomic)), buflen' = buflen + 1,
           UNCHANGED <<fileVars, already, planVars, savedVars, ret, back, line,
                       segs, isrVars, finished, ghostVars>>
    PROVE  FlowInv'
  <1> DEFINE e == UI(k, sdpos_atomic)
  <1>1. Core'
    BY AppendStep DEF FlowInv
  <1>2. UNCHANGED <<saved_printing, saved_type, paused, save, sdprinting>>
    BY DEF fileVars, savedVars, isrVars
  <1>3. e \in Command /\ e.type # "SDCARD" /\ cmds \in Seq(Command)
    <2>s. ShapeOK
      BY Shape DEF FlowInv, Core
    <2> QED
      BY <2>s DEF ShapeOK, UI, Command, Types
  <1> HIDE DEF e
  <1>4. /\ Lineless(cmds) => Lineless(cmds')
        /\ LinesFirst(cmds) => LinesFirst(cmds')
    <2>1. cmds' = Append(cmds, e)
      BY DEF e
    <2>2. /\ Lineless(cmds) => Lineless(Append(cmds, e))
          /\ LinesFirst(cmds) => LinesFirst(Append(cmds, e))
      BY ONLY <1>3, FlowAppend
    <2> QED
      BY <2>1, <2>2
  <1> QED
    BY <1>1, <1>2, <1>4, FlowFrame

\* The user resumes a print that has been paused.
LEMMA FlowResumeStep == FlowInv /\ Resume /\ readOn' = readOn => FlowInv'
  <1> SUFFICES ASSUME FlowInv, Resume, readOn' = readOn PROVE FlowInv'
    OBVIOUS
  <1>1. paused /\ saved_printing
    BY DEF Resume, FlowInv, CrashSaver
  <1>2. /\ save = "off" /\ pc \in Waits /\ pc' = "restore" /\ save' = save
        /\ UNCHANGED <<cmds, already, line, saved_printing, saved_type, paused,
                       sdprinting>>
    BY <1>1 DEF Resume, fileVars, queueVars, isrVars
  <1>3. already \/ line = NoLine
    BY <1>1 DEF FlowInv, Stopped, AtRest
  <1>4. Core'
    BY <1>3, ResumeStep DEF FlowInv
  <1>5. Flowing' /\ CrashSaver'
    BY <1>1, <1>2 DEF FlowInv, Stopped, Flowing, CrashSaver, Waits
  <1>6. Stopped'
    BY <1>1, <1>2 DEF FlowInv, Stopped, AtRest
  <1> QED
    BY <1>4, <1>5, <1>6 DEF FlowInv

\* crashdet_recover() resumes the print, if it is still stopped.  No line of
\* the file stands in the queue any more.
LEMMA FlowRecoverStep == FlowInv /\ ProcessCrashRecover /\ readOn' = readOn => FlowInv'
  <1> SUFFICES ASSUME FlowInv, ProcessCrashRecover, readOn' = readOn PROVE FlowInv'
    OBVIOUS
  <1>s. ShapeOK
    BY Shape DEF FlowInv, Core
  <1>1. /\ pc = "proc" /\ save = "off" /\ ~already /\ cmds # <<>>
        /\ cmds[1].what = "recover"
        /\ UNCHANGED <<fileVars, queueVars, planVars, savedVars, ret, line, segs,
                       isrVars, finished, ghostVars>>
        /\ \/ saved_printing /\ pc' = "restore" /\ back' = "hand"
           \/ pc' = "hand" /\ back' = back
    BY DEF ProcessCrashRecover, Front, Running
  <1>u. UNCHANGED <<cmds, buflen, already, blocks, sdpos_atomic, moved, readpos,
                    sdprinting, saved_printing, saved_type, saved_sdpos, save, by,
                    idx, acc, paused, reached, planner_aborted>>
    BY <1>1 DEF fileVars, queueVars, planVars, savedVars, isrVars, ghostVars
  <1>2. 1 \in 1 .. Len(cmds)
    BY <1>1, <1>s DEF ShapeOK
  <1>3. saved_printing => /\ Lineless(cmds) /\ line = NoLine
    <2> SUFFICES ASSUME saved_printing PROVE Lineless(cmds) /\ line = NoLine
      OBVIOUS
    <2>1. LinesFirst(cmds)
      BY DEF FlowInv, Stopped
    <2>2. Lineless(cmds)
      BY <1>1, <1>2, <2>1 DEF LinesFirst, Lineless, CrashCommands
    <2>3. cmds[1].type # "SDCARD"
      BY <1>2, <2>2 DEF Lineless
    <2> QED
      BY <1>1, <2>2, <2>3 DEF FlowInv, Core, Processed, InCommand
  <1>4. TypeOK'
    BY <1>1, <1>u DEF FlowInv, Core, TypeOK, FileTypes, QueueTypes, PlanTypes,
       SavedTypes, MainTypes, SaveTypes, GhostTypes, fileVars, queueVars, planVars,
       savedVars, isrVars, ghostVars
  <1>5. BuflenAgrees' /\ QueueBytes' /\ Control'
    BY <1>1, <1>u DEF FlowInv, Core, BuflenAgrees, Window, QueueBytes, Control
  <1>6. Processed'
    BY <1>1, <1>u, <1>3 DEF FlowInv, Core, Processed, InCommand
  <1>7. sdpos_atomic <= readpos'
    BY <1>u DEF FlowInv, Core, QueueChain
  <1>8. Core'
    BY <1>1, <1>4, <1>5, <1>6, <1>7, <1>u, MainFrame DEF FlowInv
  <1>9. Flowing' /\ CrashSaver'
    BY <1>1, <1>u DEF FlowInv, Flowing, CrashSaver, Stopped
  <1>10. Stopped'
    BY <1>1, <1>3, <1>u DEF FlowInv, Stopped, AtRest
  <1> QED
    BY <1>8, <1>9, <1>10 DEF FlowInv

\* The print goes on from the saved position, or is cancelled.
LEMMA FlowEndStep == FlowInv /\ (RestoreFinish \/ CancelPrint) /\ readOn' = readOn => FlowInv'
  <1> SUFFICES ASSUME FlowInv, RestoreFinish \/ CancelPrint, readOn' = readOn PROVE FlowInv'
    OBVIOUS
  <1>1. CASE RestoreFinish
    <2>1. /\ pc = "restore" /\ save = "off" /\ save' = "off"
          /\ saved_printing \/ saved_type # "sd"
          /\ saved_printing' = FALSE /\ paused' = FALSE
          /\ pc' = IF by = "runout" THEN "m600" ELSE back
      BY <1>1 DEF RestoreFinish, Running, FlowInv, CrashSaver
    <2>2. saved_type = "sd" => NoSDLine
      BY <2>1 DEF FlowInv, Stopped, AtRest, Lineless, NoSDLine
    <2>3. Core'
      BY <1>1, <2>2, RestoreFinishStep DEF FlowInv
    <2>4. pc' \in {"idle", "proc", "finish", "hand", "m600"}
      BY <2>1 DEF FlowInv, Core, TypeOK, MainTypes
    <2> QED
      BY <2>1, <2>3, <2>4 DEF FlowInv, Flowing, CrashSaver, Stopped
  <1>2. CASE CancelPrint
    <2>1. Core'
      BY <1>2, CancelPrintStep DEF FlowInv
    <2>2. /\ pc' \in Waits \cup {"restore"} /\ save' = "off" /\ saved_printing' = FALSE
          /\ paused' = FALSE /\ sdprinting' = FALSE /\ saved_type' = "none"
      BY <1>2 DEF CancelPrint, PrintStop, mainVars, isrVars
    <2> QED
      BY <2>1, <2>2 DEF FlowInv, Flowing, CrashSaver, Stopped, Waits
  <1> QED
    BY <1>1, <1>2

\* crashdet_cancel() gives the print up.
LEMMA FlowCancelStep == FlowInv /\ ProcessCrashCancel /\ readOn' = readOn => FlowInv'
  <1> SUFFICES ASSUME FlowInv, ProcessCrashCancel, readOn' = readOn PROVE FlowInv'
    OBVIOUS
  <1>s. ShapeOK
    BY Shape DEF FlowInv, Core
  <1>f. /\ save = "off" /\ pc = "proc" /\ pc' = "hand"
        /\ blocks' = <<>> /\ planner_aborted' = TRUE
        /\ cmds' = <<>> /\ buflen' = 0 /\ already' = TRUE
        /\ saved_printing' = FALSE /\ saved_type' = "none" /\ paused' = FALSE
        /\ sdprinting' = FALSE /\ isopen' = FALSE
        /\ moved' = {} /\ reached' = sdpos_atomic
        /\ UNCHANGED <<readpos, stopBuffering, sdpos_atomic, saved_sdpos, save, by, idx,
                       acc, power, ret, back, line, segs, finished>>
    BY DEF ProcessCrashCancel, PrintStop, Front, Running, isrVars
  <1>h. /\ QueueStart' = sdpos_atomic /\ ResumePoint' = sdpos_atomic
        /\ cmds' \in Seq(Command) /\ blocks' \in Seq(Block)
        /\ Len(blocks') = 0 /\ Len(cmds') = 0
    BY <1>f DEF QueueStart, ResumePoint
  <1>1. FileTypes' /\ QueueTypes' /\ PlanTypes' /\ SavedTypes' /\ GhostTypes'
    BY <1>f, <1>h, <1>s DEF FlowInv, Core, TypeOK, FileTypes, QueueTypes, PlanTypes,
       SavedTypes, GhostTypes, ShapeOK
  <1>2. MainTypes' /\ SaveTypes'
    BY <1>f DEF FlowInv, Core, TypeOK, MainTypes, SaveTypes
  <1>3. BuflenAgrees' /\ Control' /\ Processed'
    BY <1>f, <1>h DEF BuflenAgrees, Window, Control, Processed, InCommand
  <1>4. QueueChain' /\ QueueBytes' /\ BlockChain'
    BY <1>f, <1>h DEF FlowInv, Core, QueueChain, QueueBytes, BlockChain
  <1>5. Summed' /\ Flowing' /\ CrashSaver' /\ Stopped'
    BY <1>f DEF Summed, PositionSaved, Flowing, CrashSaver, Stopped
  <1> QED
    BY <1>1, <1>2, <1>3, <1>4, <1>5 DEF FlowInv, Core, TypeOK

\* A pause or a runout stops the print.
LEMMA FlowStopStep == FlowInv /\ (FinishPause \/ FinishRunout) /\ readOn' = readOn => FlowInv'
  <1> SUFFICES ASSUME FlowInv, FinishPause \/ FinishRunout, readOn' = readOn PROVE FlowInv'
    OBVIOUS
  <1>1. by \in {"pause", "runout"} /\ save = "done" /\ pc \in Waits
    BY DEF FinishPause, FinishRunout, FlowInv, CrashSaver
  <1>2. Core'
    BY <1>1, FinishSaveStep DEF FlowInv
  <1>3. /\ save' = "off" /\ saved_printing' = TRUE /\ sdprinting' = FALSE
        /\ already' = TRUE /\ pc' \in Waits \cup {"restore"}
        /\ cmds' = <<>> \/ cmds' = <<UI("ui", sdpos_atomic)>>
    BY <1>1 DEF FinishPause, FinishRunout, StopPrint, Waits
  <1>4. Lineless(cmds') /\ LinesFirst(cmds')
    <2>1. \A i \in 1 .. Len(cmds') : cmds'[i].type = "UI"
      BY <1>3 DEF UI
    <2> QED
      BY <2>1 DEF Lineless, LinesFirst
  <1> QED
    BY <1>2, <1>3, <1>4 DEF FlowInv, Flowing, CrashSaver, Stopped, Waits

\* The stepper interrupt stops the print, wherever the main thread is.
LEMMA FlowCrashStep == FlowInv /\ FinishCrash /\ ~Window => FlowInv'
  <1> SUFFICES ASSUME FlowInv, FinishCrash, ~Window PROVE FlowInv'
    OBVIOUS
  <1>s. ShapeOK
    BY Shape DEF FlowInv, Core
  <1>1. /\ save = "done" /\ save' = "off" /\ by' = "none" /\ saved_printing' = TRUE
        /\ UNCHANGED <<readpos, isopen, stopBuffering, sdpos_atomic, saved_type,
                       saved_sdpos, paused, idx, acc, power, pc, ret, back, line,
                       segs, finished>>
        /\ blocks' = <<>> /\ planner_aborted' = TRUE /\ already' = TRUE
        /\ sdprinting' = FALSE
        /\ cmds' = <<UI("ui", sdpos_atomic)>> /\ buflen' = 1
        /\ \/ moved' = {l \in moved : l < saved_sdpos}
              /\ reached' = IF saved_sdpos < reached THEN saved_sdpos ELSE reached
           \/ moved' = moved /\ reached' = reached
    BY DEF FinishCrash, StopPrint, mainVars, ghostVars
  <1>h. /\ QueueStart' = sdpos_atomic
        /\ cmds' \in Seq(Command) /\ blocks' \in Seq(Block)
        /\ Len(blocks') = 0
        /\ \A i \in 1 .. Len(cmds') :
              /\ i = 1 /\ cmds'[i].type = "UI"
              /\ cmds'[i].from = sdpos_atomic /\ cmds'[i].to = sdpos_atomic
    BY <1>1, <1>s, StoppedShape DEF ShapeOK
  <1>k. Len(cmds') = 1 /\ 1 \in 1 .. Len(cmds')
    BY <1>1
  <1>2. FileTypes' /\ QueueTypes' /\ PlanTypes' /\ SavedTypes'
    BY <1>1, <1>h DEF FlowInv, Core, TypeOK, FileTypes, QueueTypes, PlanTypes,
                      SavedTypes
  <1>3. MainTypes' /\ SaveTypes' /\ GhostTypes'
    BY <1>1, <1>s DEF FlowInv, Core, TypeOK, MainTypes, SaveTypes, GhostTypes, ShapeOK
  <1>4. BuflenAgrees' /\ QueueBytes'
    BY <1>1, <1>h, <1>k DEF BuflenAgrees, Window, QueueBytes
  <1>5. QueueChain'
    BY <1>1, <1>h, <1>s DEF FlowInv, Core, QueueChain, ShapeOK
  <1>6. Control'
    BY <1>1, <1>h, <1>k DEF FlowInv, Core, Control, Flowing, Window
  <1>7. Processed' /\ BlockChain' /\ Summed'
    BY <1>1, <1>h DEF Processed, BlockChain, Summed, PositionSaved
  <1>8. Flowing'
    <2>1. pc \in {"get", "commit"} => saved_type = "sd"
      BY <1>1 DEF FlowInv, Flowing, CrashSaver
    <2> QED
      BY <1>1, <2>1 DEF FlowInv, Flowing, SavedSD
  <1>9. CrashSaver'
    BY <1>1 DEF CrashSaver
  <1>10. Stopped'
    <2>1. LinesFirst(cmds') /\ Lineless(cmds')
      BY <1>h DEF LinesFirst, Lineless
    <2>2. ~CrashIn(cmds')
      <3>1. cmds'[1].what = "ui"
        BY <1>1 DEF UI
      <3> QED
        BY <1>h, <3>1 DEF CrashIn, CrashCommands
    <2>3. AtRest' => pc \notin {"get", "commit"}
      <3>1. CASE paused
        BY <1>1, <3>1 DEF FlowInv, CrashSaver, Flowing, Stopped, SavedSD
      <3>2. CASE saved_type # "sd"
        BY <1>1, <3>2 DEF FlowInv, CrashSaver, Flowing
      <3>3. ~readOn' => pc \notin {"get", "commit"}
        BY DEF FinishCrash
      <3> QED
        BY <1>1, <3>1, <3>2, <3>3 DEF AtRest
    <2> QED
      BY <1>1, <2>1, <2>2, <2>3 DEF Stopped, AtRest
  <1> QED
    BY <1>2, <1>3, <1>4, <1>5, <1>6, <1>7, <1>8, <1>9, <1>10
       DEF FlowInv, Core, TypeOK

\* A pause, a runout, a power failure or a crash begins a save.
LEMMA FlowSaveStep ==
    ASSUME FlowInv, readOn' = readOn, NEW who \in {"pause", "runout", "int4", "crash"},
           StartSave(who), save = "off", ~SavedSD,
           who \in {"pause", "runout"} => pc \in Waits /\ ~saved_printing,
           UNCHANGED <<fileVars, queueVars, planVars, saved_printing, paused,
                       power, mainVars, finished, ghostVars>>
    PROVE  FlowInv'
  <1>1. Core'
    BY StartSaveStep DEF FlowInv
  <1>2. /\ by' = who
        /\ saved_type' = IF sdprinting THEN "sd" ELSE "none"
        /\ save' \in {"planner", "done"} /\ (save' = "planner" => sdprinting)
        /\ UNCHANGED <<cmds, already, line, pc, ret, saved_printing, paused, sdprinting>>
    BY DEF StartSave, fileVars, queueVars, mainVars
  <1>3. saved_printing => ~sdprinting
    BY DEF FlowInv, Stopped
  <1>4. Flowing'
    BY <1>2, <1>3 DEF FlowInv, Flowing, SavedSD
  <1>5. CrashSaver'
    BY <1>2, <1>3 DEF FlowInv, CrashSaver, SavedSD
  <1>6. Stopped'
    <2>1. saved_printing => AtRest
      BY DEF SavedSD, AtRest
    <2> QED
      BY <1>2, <2>1 DEF FlowInv, Stopped
  <1> QED
    BY <1>1, <1>4, <1>5, <1>6 DEF FlowInv

\* Only flags of the environment change, or nothing at all.
LEMMA FlowFlagStep ==
    ASSUME FlowInv, readOn' = readOn, power' \in {"on", "failed"},
           UNCHANGED <<fileVars, queueVars, planVars, savedVars, save, by, idx,
                       acc, mainVars, finished, ghostVars>>
    PROVE  FlowInv'
  <1>1. Core'
    BY FlagStep DEF FlowInv, Core, TypeOK, SavedTypes, savedVars
  <1>2. UNCHANGED <<cmds, already, line, pc, ret, saved_printing, saved_type,
                    paused, sdprinting, save, by>>
    BY DEF fileVars, queueVars, mainVars, savedVars
  <1> QED
    BY <1>1, <1>2 DEF FlowInv, Flowing, CrashSaver, Stopped, SavedSD, AtRest, Waits

\* It may be dropped for want of room.
LEMMA FlowEnqueueStep ==
    ASSUME FlowInv, readOn' = readOn, NEW k \in CrashCommands, Enqueue(k),
           save = "off", power = "on", pc \in {"proc", "loop"},
           pc' = pc \/ (pc = "proc" /\ pc' = "hand"),
           UNCHANGED <<fileVars, already, planVars, savedVars, ret, back, line,
                       segs, isrVars, finished, ghostVars>>
    PROVE  FlowInv'
  <1>1. k \in Kinds
    BY DEF CrashCommands, Kinds
  <1>2. CASE cmds' = Append(cmds, UI(k, sdpos_atomic)) /\ buflen' = buflen + 1
    BY <1>1, <1>2, FlowAppendStep
  <1>3. CASE UNCHANGED <<cmds, buflen>> /\ pc' = pc
    <2>1. power' \in {"on", "failed"}
      BY DEF FlowInv, Core, TypeOK, SaveTypes, isrVars
    <2> QED
      BY <1>3, <2>1, FlowFlagStep DEF queueVars, mainVars, isrVars
  <1>4. CASE UNCHANGED <<cmds, buflen>> /\ pc = "proc" /\ pc' = "hand"
    <2>1. CommandDone
      BY <1>4 DEF CommandDone, Running, queueVars
    <2> QED
      BY <2>1, FlowPlainStep
  <1> QED
    BY <1>2, <1>3, <1>4 DEF Enqueue

\* The two sums.
LEMMA FlowSumStep == FlowInv /\ (SavePlanner \/ SaveCmdqueue) /\ readOn' = readOn => FlowInv'
  <1> SUFFICES ASSUME FlowInv, SavePlanner \/ SaveCmdqueue, readOn' = readOn PROVE FlowInv'
    OBVIOUS
  <1>1. Core'
    BY SavePlannerStep, SaveCmdqueueStep DEF FlowInv
  <1>2. /\ save \in {"planner", "cmdqueue"} /\ save' # "off"
        /\ UNCHANGED <<cmds, already, line, pc, ret, saved_printing, saved_type,
                       paused, sdprinting, by>>
    BY DEF SavePlanner, SaveCmdqueue, fileVars, queueVars, mainVars
  <1> QED
    BY <1>1, <1>2 DEF FlowInv, Flowing, CrashSaver, Stopped, SavedSD, AtRest

\* The events of the environment that begin a save, and those that do not.
LEMMA FlowEventStep ==
    ASSUME FlowInv, readOn' = readOn, Pause \/ FilamentRunout \/ PowerFail
    PROVE  FlowInv'
  <1>1. CASE Pause
    <2>1. ~saved_printing /\ save = "off" /\ pc \in Waits
      BY <1>1 DEF Pause, FlowInv, Stopped
    <2>2. /\ StartSave("pause")
          /\ UNCHANGED <<fileVars, queueVars, planVars, saved_printing, paused,
                         power, mainVars, finished, ghostVars>>
      BY <1>1, <2>1 DEF Pause, PauseAt, mainVars
    <2> QED
      BY <2>1, <2>2, FlowSaveStep DEF SavedSD
  <1>2. CASE FilamentRunout
    BY <1>2, FlowSaveStep DEF FilamentRunout, SavedSD
  <1>3. CASE PowerFail /\ saved_printing /\ saved_type # "none"
    BY <1>3, FlowFlagStep DEF PowerFail, savedVars
  <1>4. CASE PowerFail /\ ~(saved_printing /\ saved_type # "none")
    BY <1>4, FlowSaveStep DEF PowerFail, SavedSD
  <1> QED
    BY <1>1, <1>2, <1>3, <1>4

\* The driver reports a stall.
LEMMA FlowStallStep == FlowInv /\ CrashDetected /\ readOn' = readOn => FlowInv'
  <1> SUFFICES ASSUME FlowInv, CrashDetected, readOn' = readOn PROVE FlowInv'
    OBVIOUS
  <1>1. CASE saved_printing
    <2>1. power' \in {"on", "failed"}
      BY DEF CrashDetected
    <2> QED
      BY <1>1, <2>1, FlowFlagStep DEF CrashDetected, savedVars
  <1>2. CASE ~saved_printing
    BY <1>2, FlowSaveStep DEF CrashDetected, SavedSD
  <1> QED
    BY <1>1, <1>2

-----------------------------------------------------------------------------
\* The print has just been started.
LEMMA FlowInit == InitCrash => CrashFlow
  <1> SUFFICES ASSUME InitCrash PROVE CrashFlow
    OBVIOUS
  <1>1. Core
    BY InitInv DEF InitCrash, Inv
  <1>2. Flowing /\ CrashSaver /\ Stopped
    BY DEF InitCrash, Init, Flowing, CrashSaver, Stopped
  <1> QED
    BY <1>1, <1>2 DEF CrashFlow, FlowInv, InitCrash

\* The detection is off while it stops the print: it is armed again by a
\* command, and the main thread waits for the interrupt.
Disarmed == save # "off" /\ by = "crash" => ~armed

LEMMA DisarmedStep == Disarmed /\ [NextCrash]_allVars => Disarmed'
  <1> SUFFICES ASSUME Disarmed, [NextCrash]_allVars PROVE Disarmed'
    OBVIOUS
  <1>f. (UNCHANGED <<by, armed>> /\ (save' # "off" => save # "off")) => Disarmed'
    BY DEF Disarmed
  <1>o. save' = "off" \/ by' # "crash" => Disarmed'
    BY DEF Disarmed
  <1>1. CASE Base
    <2>1. Next /\ armed' = armed
      BY <1>1 DEF Base, crashVars
    <2>2. CASE Main
      <3>1. CASE RestoreFinish
        BY <3>1, <1>o DEF RestoreFinish
      <3>2. CASE PauseAfterM601
        BY <3>2, <2>1, <1>f, <1>o DEF PauseAfterM601, PauseAt, StartSave
      <3>3. CASE ~RestoreFinish /\ ~PauseAfterM601
        <4>1. UNCHANGED isrVars
          BY <3>3, <2>2 DEF Main, LoopTop, GetLine, GetBlankLine, CommitLine,
             GetReturn, GetEndOfFile, PrintingHasFinished, LoopDispatch,
             PlanPrepare, PlanPublish, GetWhileWaiting, RepeatAfterHoming,
             EnqueueFrontCommit, ProcessM601, CommandDone, ReleaseCheck,
             HandOver, PopCount, PopAdvance, LoopEnd, RestoreMove, EnqueueM600
        <4> QED
          BY <4>1, <2>1, <1>f DEF isrVars
      <3> QED
        BY <3>1, <3>2, <3>3
    <2>3. CASE SavePlanner \/ SaveCmdqueue
      BY <2>3, <2>1, <1>f DEF SavePlanner, SaveCmdqueue
    <2>4. CASE FinishPause \/ FinishRunout
      BY <2>4, <1>o DEF FinishPause, FinishRunout
    <2>5. CASE Pause \/ FilamentRunout \/ PowerFail
      BY <2>5, <2>1, <1>f, <1>o
         DEF Pause, PauseAt, FilamentRunout, PowerFail, StartSave
    <2>6. CASE EnqueueUI \/ Resume \/ CancelPrint \/ StepperDone
               \/ FinishPowerFail \/ PowerDown
      BY <2>6, <2>1, <1>f DEF EnqueueUI, Resume, CancelPrint, PrintStop, StepperDone,
         FinishPowerFail, PowerDown, vars, isrVars
    <2> QED
      BY <2>1, <2>2, <2>3, <2>4, <2>5, <2>6 DEF Next, Saving, Environment
  <1>2. CASE CrashDetected
    BY <1>2 DEF CrashDetected, Disarmed
  <1>3. CASE FinishCrash \/ ProcessCrashRecover \/ ProcessCrashCancel
    BY <1>3, <1>o DEF FinishCrash, ProcessCrashRecover, ProcessCrashCancel,
       PrintStop, Front, Running, isrVars, Disarmed
  <1>4. CASE EnqueueCrash \/ ProcessCrashDetected \/ Torn \/ UNCHANGED allVars
    BY <1>4, <1>f DEF EnqueueCrash, ProcessCrashDetected, Torn, allVars, vars,
       isrVars, crashVars
  <1> QED
    BY <1>1, <1>2, <1>3, <1>4 DEF NextCrash

\* Every step keeps the invariant.
LEMMA FlowStep ==
    "m601" \notin Events /\ Disarmed /\ CrashFlow /\ [NextCrash]_allVars
        => CrashFlow'
  <1> SUFFICES ASSUME "m601" \notin Events, Disarmed, CrashFlow,
                      [NextCrash]_allVars
               PROVE  CrashFlow'
    OBVIOUS
  <1>1. CASE Base
    <2>1. Next /\ ~torn /\ ~torn' /\ FlowInv /\ readOn' = readOn
      BY <1>1 DEF Base, crashVars, CrashFlow
    <2>2. CASE Main
      <3>1. ~ProcessM601 /\ ~PauseAfterM601
        BY <2>1 DEF ProcessM601, PauseAfterM601, Running, FlowInv, Flowing
      <3> QED
        BY <2>1, <2>2, <3>1, FlowEnterStep, FlowReadStep, FlowPlainStep,
           FlowHeadStep, FlowCommitStep, FlowEndStep DEF Main, CrashFlow
    <2>3. CASE Saving
      BY <2>1, <2>3, FlowSumStep, FlowStopStep DEF Saving, CrashFlow
    <2>4. CASE Environment
      <3>1. CASE EnqueueUI
        <4>1. /\ "ui" \in Kinds /\ pc \in {"idle", "proc", "loop"} /\ pc' = pc
              /\ UNCHANGED <<fileVars, already, planVars, savedVars, ret, back,
                             line, segs, isrVars, finished, ghostVars>>
          BY <3>1 DEF EnqueueUI, mainVars, Kinds
        <4> QED
          BY <2>1, <3>1, <4>1, FlowAppendStep DEF EnqueueUI, CrashFlow
      <3> QED
        BY <2>1, <2>4, <3>1, FlowEventStep, FlowResumeStep, FlowEndStep
           DEF Environment, CrashFlow
    <2>5. CASE StepperDone
      BY <2>1, <2>5, FlowPlainStep DEF CrashFlow
    <2>6. CASE FinishPowerFail \/ PowerDown
      <3>1. /\ power' \in {"on", "failed"}
            /\ UNCHANGED <<fileVars, queueVars, planVars, savedVars, save, by, idx,
                           acc, mainVars, finished, ghostVars>>
        BY <2>6 DEF FinishPowerFail, PowerDown, vars, isrVars
      <3> QED
        BY <2>1, <3>1, FlowFlagStep DEF CrashFlow
    <2> QED
      BY <2>1, <2>2, <2>3, <2>4, <2>5, <2>6 DEF Next
  <1>2. CASE CrashDetected
    <2>1. ~torn /\ ~torn' /\ readOn' = readOn
      BY <1>2 DEF CrashDetected, CrashFlow
    <2> QED
      BY <1>2, <2>1, FlowStallStep DEF CrashFlow
  <1>3. CASE FinishCrash
    <2>1. FlowInv
      BY <1>3 DEF FinishCrash, CrashFlow
    <2>2. torn' = Window /\ Window' = Window /\ save' = "off" /\ armed' = armed
      BY <1>3 DEF FinishCrash, mainVars, Window
    <2>3. CASE Window
      BY <1>3, <2>2, <2>3 DEF CrashFlow, FinishCrash, Disarmed
    <2>4. CASE ~Window
      BY <1>3, <2>1, <2>2, <2>4, FlowCrashStep DEF CrashFlow
    <2> QED
      BY <2>3, <2>4
  <1>4. CASE EnqueueCrash \/ ProcessCrashDetected
    <2>1. ~torn /\ torn' = torn /\ readOn' = readOn
      BY <1>4 DEF EnqueueCrash, ProcessCrashDetected, Front, Running, CrashFlow, Window
    <2>2. /\ save = "off" /\ power = "on" /\ pc \in {"proc", "loop"}
          /\ pc' = pc \/ (pc = "proc" /\ pc' = "hand")
          /\ UNCHANGED <<fileVars, already, planVars, savedVars, ret, back, line,
                         segs, isrVars, finished, ghostVars>>
      BY <1>4 DEF EnqueueCrash, ProcessCrashDetected, Front, Running, mainVars
    <2>3. PICK k \in CrashCommands : Enqueue(k)
      BY <1>4 DEF EnqueueCrash, ProcessCrashDetected, CrashCommands
    <2>4. FlowInv => FlowInv'
      BY <2>1, <2>2, <2>3, FlowEnqueueStep
    <2> QED
      BY <2>1, <2>4 DEF CrashFlow
  <1>5. CASE ProcessCrashCancel
    <2>1. ~torn /\ torn' = torn /\ readOn' = readOn
      BY <1>5 DEF ProcessCrashCancel, Front, Running, CrashFlow, Window
    <2> QED
      BY <1>5, <2>1, FlowCancelStep DEF CrashFlow
  <1>6. CASE ProcessCrashRecover
    <2>1. ~torn /\ torn' = torn /\ readOn' = readOn
      BY <1>6 DEF ProcessCrashRecover, Front, Running, CrashFlow, Window
    <2> QED
      BY <1>6, <2>1, FlowRecoverStep DEF CrashFlow
  <1>7. CASE Torn \/ UNCHANGED allVars
    <2>1. UNCHANGED vars /\ UNCHANGED crashVars
      BY <1>7 DEF Torn, allVars
    <2>2. /\ Window' = Window /\ UNCHANGED <<torn, armed, save>>
          /\ power' = power /\ readOn' = readOn
          /\ UNCHANGED <<fileVars, queueVars, planVars, savedVars, save, by, idx,
                         acc, mainVars, finished, ghostVars>>
      BY <2>1 DEF vars, crashVars, isrVars, mainVars, Window
    <2>3. FlowInv => FlowInv'
      <3>1. FlowInv => power' \in {"on", "failed"}
        BY <2>2 DEF FlowInv, Core, TypeOK, SaveTypes
      <3> QED
        BY <2>2, <3>1, FlowFlagStep
    <2> QED
      BY <2>2, <2>3 DEF CrashFlow
  <1> QED
    BY <1>1, <1>2, <1>3, <1>4, <1>5, <1>6, <1>7 DEF NextCrash

\* Wherever the crash interrupt finds the main thread, but for the windows that
\* tear the queue: the position that stop_and_save_print_to_ram() or uvlo_()
\* computes for a pause, a runout, a power failure or a crash lies before every
\* line that is queued or planned.
THEOREM CrashSkipsNothing ==
    ASSUME "m601" \notin Events PROVE SpecCrash => []NoLineSkipped
  <1>1. CrashFlow => NoLineSkipped
    <2>1. CASE torn
      BY <2>1 DEF CrashFlow, NoLineSkipped, PositionSaved
    <2>2. CASE ~torn
      BY <2>2, NothingBefore DEF CrashFlow, FlowInv
    <2> QED
      BY <2>1, <2>2
  <1>2. InitCrash => Disarmed
    BY DEF InitCrash, Init, Disarmed
  <1> QED
    BY <1>1, <1>2, DisarmedStep, FlowInit, FlowStep, PTL DEF SpecCrash

-----------------------------------------------------------------------------
(* PrintFlowCrash: a command of the detection is dropped only if the crash  *)
(* came in the middle of get_command().  Otherwise nothing is queued beside *)
(* the commands of the detection, and there is room for them.               *)

\* Stopped by a crash that did not come in the middle of get_command().
Interrupted == saved_printing /\ ~paused /\ ~readOn /\ pc # "restore"

\* The retraction and the command of the detection, or the one that the latter
\* queues before it is released.
FewCommands ==
    /\ ~refused /\ ~armed /\ pc # "m600"
    /\ Len(cmds) <= IF sg_crash THEN 1 ELSE 2
    /\ \A i \in 1 .. Len(cmds) :
          cmds[i].what = "crash" => ~sg_crash /\ (i = Len(cmds) \/ (i = 1 /\ Releasing))

\* No crash is detected between a restore and the M600 of a runout.
Counted ==
    ~torn => /\ Interrupted => FewCommands
             /\ pc = "m600" => blocks = <<>> /\ by # "crash"

\* A step that leaves alone what the commands are.
LEMMA CountFrame ==
    ASSUME Counted, ~torn, UNCHANGED <<refused, armed, sg_crash>>,
           Interrupted' => Interrupted, Len(cmds') = Len(cmds),
           \A i \in 1 .. Len(cmds) : cmds'[i].what = cmds[i].what,
           Interrupted /\ Releasing => Releasing',
           pc' = "m600" => pc = "m600" /\ blocks' = <<>> /\ by' # "crash"
    PROVE  Counted'
  <1>1. ASSUME Interrupted' PROVE FewCommands'
    <2>1. FewCommands /\ Interrupted
      BY <1>1 DEF Counted
    <2>2. ~refused' /\ ~armed' /\ pc' # "m600"
      BY <2>1 DEF FewCommands
    <2>3. Len(cmds') <= IF sg_crash' THEN 1 ELSE 2
      BY <2>1 DEF FewCommands
    <2>4. ASSUME NEW i \in 1 .. Len(cmds'), cmds'[i].what = "crash"
          PROVE  ~sg_crash' /\ (i = Len(cmds') \/ (i = 1 /\ Releasing'))
      <3>1. i \in 1 .. Len(cmds) /\ cmds[i].what = "crash"
        BY <2>4
      <3>2. ~sg_crash /\ (i = Len(cmds) \/ (i = 1 /\ Releasing))
        BY <2>1, <3>1 DEF FewCommands
      <3> QED
        BY <2>1, <3>2
    <2> QED
      BY <2>2, <2>3, <2>4 DEF FewCommands
  <1> QED
    BY <1>1 DEF Counted

\* A step after which no print is stopped in this way.
LEMMA CountOver ==
    ASSUME ~Interrupted', pc' = "m600" => blocks' = <<>> /\ by' # "crash"
    PROVE  Counted'
  BY DEF Counted

\* The steps that leave the queue alone.
LEMMA CountPlainStep ==
    ASSUME CrashInv, FlowInv, Counted, ~torn, UNCHANGED crashVars,
           \/ LoopTop \/ GetWhileWaiting \/ LoopEnd \/ GetLine \/ GetBlankLine
           \/ GetReturn \/ GetEndOfFile \/ PrintingHasFinished \/ LoopDispatch
           \/ PlanPrepare \/ PlanPublish \/ RestoreMove \/ CommandDone
           \/ ReleaseCheck \/ PopCount \/ SavePlanner \/ SaveCmdqueue \/ StepperDone
           \/ FinishPowerFail \/ PowerDown \/ Pause \/ FilamentRunout \/ PowerFail
           \/ Resume
    PROVE  Counted'
  <1>1. UNCHANGED <<cmds, saved_printing, refused, armed, sg_crash, readOn>>
    BY DEF crashVars, LoopTop, GetWhileWaiting, LoopEnd, GetLine, GetBlankLine, GetReturn,
       GetEndOfFile, PrintingHasFinished, LoopDispatch, PlanPrepare, PlanPublish, RestoreMove,
       CommandDone, ReleaseCheck, PopCount, SavePlanner, SaveCmdqueue, StepperDone,
       FinishPowerFail, PowerDown, Pause, FilamentRunout, PowerFail, PauseAt, Resume,
       queueVars, savedVars, vars
  <1>2. \/ paused' = paused
        \/ paused'
        \/ ~saved_printing
    BY DEF LoopTop, GetWhileWaiting, LoopEnd, GetLine, GetBlankLine, GetReturn,
       GetEndOfFile, PrintingHasFinished, LoopDispatch, PlanPrepare, PlanPublish, RestoreMove,
       CommandDone, ReleaseCheck, PopCount, SavePlanner, SaveCmdqueue, StepperDone,
       FinishPowerFail, PowerDown, Pause, FilamentRunout, PowerFail, PauseAt, Resume,
       savedVars, vars
  <1>3. /\ ret \in {"top", "loop", "idle", "proc", "m601"}
        /\ pc = "hand" /\ ~already /\ cmds # <<>> => buflen # 0
    <2>1. IsQueue(cmds) /\ (pc = "hand" => Len(cmds) = buflen)
      BY DEF CrashInv, CrashControl, BuflenAgrees, Window
    <2>2. Len(cmds) = 0 => cmds = <<>>
      BY <2>1, QueueTyped
    <2> QED
      BY <2>1, <2>2 DEF CrashInv, CrashControl
  <1>4. /\ pc = "restore" => pc' = "restore"
        /\ pc' = "m600" => pc = "m600" /\ blocks' = <<>> /\ by' # "crash"
        /\ Releasing /\ cmds # <<>> => Releasing'
    <2>1. CASE LoopTop \/ GetWhileWaiting \/ LoopEnd \/ GetLine \/ GetBlankLine
               \/ GetReturn \/ GetEndOfFile \/ PrintingHasFinished \/ LoopDispatch
               \/ PlanPrepare \/ PlanPublish \/ RestoreMove \/ CommandDone
      BY <2>1, <1>3 DEF LoopTop, GetWhileWaiting, LoopEnd, GetEnter, GetLine, GetBlankLine,
         GetReturn, GetEndOfFile, PrintingHasFinished, LoopDispatch, PlanPrepare, PlanPublish,
         RestoreMove, CommandDone, Running, Releasing
    <2>2. CASE ReleaseCheck
      <3>1. pc = "hand" /\ pc' = IF ~already /\ buflen > 0 THEN "handover" ELSE "idle"
        BY <2>2 DEF ReleaseCheck, Running
      <3>2. buflen \in Nat
        BY DEF FlowInv, Core, TypeOK, QueueTypes
      <3> QED
        BY <3>1, <3>2, <1>3 DEF Releasing
    <2>3. CASE PopCount
      BY <2>3 DEF PopCount, Running, Releasing
    <2>4. CASE Pause \/ FilamentRunout \/ Resume
      BY <2>4 DEF Pause, PauseAt, FilamentRunout, Resume, Waits, mainVars, Releasing
    <2>5. CASE SavePlanner \/ SaveCmdqueue \/ StepperDone \/ FinishPowerFail
               \/ PowerDown \/ PowerFail
      <3>1. pc' = pc /\ already' = already
        BY <2>5 DEF SavePlanner, SaveCmdqueue, StepperDone, FinishPowerFail, PowerDown, PowerFail,
           mainVars, queueVars, vars
      <3>2. (blocks = <<>> => blocks' = <<>>) /\ (by # "crash" => by' # "crash")
        BY <2>5 DEF SavePlanner, SaveCmdqueue, StepperDone, FinishPowerFail, PowerDown, PowerFail,
           StartSave, planVars, isrVars, vars
      <3> QED
        BY <3>1, <3>2 DEF Counted, Releasing
    <2> QED
      BY <2>1, <2>2, <2>3, <2>4, <2>5
  <1>5. Interrupted' => Interrupted
    BY <1>1, <1>2, <1>4 DEF Interrupted
  <1>6. CASE cmds # <<>>
    BY <1>1, <1>4, <1>5, <1>6, CountFrame
  <1>7. CASE cmds = <<>>
    <2>1. ASSUME Interrupted' PROVE FewCommands'
      <3>1. FewCommands
        BY <2>1, <1>5 DEF Counted
      <3>2. cmds' = <<>> /\ 1 .. Len(cmds') = {}
        BY <1>1, <1>7
      <3>3. pc' # "m600"
        BY <1>4, <3>1 DEF FewCommands
      <3> QED
        BY <1>1, <3>1, <3>2, <3>3 DEF FewCommands
    <2> QED
      BY <1>4, <2>1 DEF Counted
  <1> QED
    BY <1>6, <1>7

\* The steps that change it.
LEMMA CountQueueStep ==
    ASSUME CrashInv, FlowInv, Counted, ~torn, UNCHANGED crashVars,
           \/ CommitLine \/ RepeatAfterHoming \/ EnqueueM600 \/ EnqueueFrontCommit
           \/ HandOver \/ PopAdvance \/ RestoreFinish \/ FinishPause \/ FinishRunout
           \/ CancelPrint
    PROVE  Counted'
  <1>1. UNCHANGED <<refused, armed, sg_crash, readOn>>
    BY DEF crashVars
  <1>2. CASE CommitLine \/ RepeatAfterHoming \/ EnqueueM600
    <2>1. /\ UNCHANGED <<saved_printing, paused>> /\ pc' # "m600"
          /\ pc \in {"commit", "proc", "m600"} /\ (pc = "proc" => RepeatAfterHoming)
      BY <1>2 DEF CommitLine, RepeatAfterHoming, EnqueueM600, Running, savedVars,
         CrashInv, CrashControl
    <2>2. ASSUME Interrupted' PROVE FALSE
      <3>1. Interrupted /\ FewCommands
        BY <1>1, <2>1, <2>2 DEF Interrupted, Counted
      <3>2. pc \notin {"get", "commit"} /\ (already \/ line = NoLine)
        BY <3>1 DEF Interrupted, FlowInv, Stopped, AtRest
      <3>3. RepeatAfterHoming
        BY <2>1, <3>1, <3>2 DEF FewCommands
      <3>4. already /\ ~planner_aborted /\ pc = "proc"
        BY <3>2, <3>3 DEF RepeatAfterHoming, Running
      <3>5. InCommand /\ ~planner_aborted => ~already
        BY DEF FlowInv, Core, Processed
      <3> QED
        BY <3>4, <3>5 DEF InCommand
    <2> QED
      BY <2>1, <2>2, CountOver
  <1>3. CASE EnqueueFrontCommit \/ HandOver
    <2>1. /\ UNCHANGED <<saved_printing, paused>>
          /\ pc' \notin {"m600", "restore"} /\ pc # "restore"
          /\ Releasing => Releasing'
      BY <1>3 DEF EnqueueFrontCommit, HandOver, Running, savedVars, CrashInv, CrashControl,
         Releasing
    <2>2. /\ Len(cmds') = Len(cmds)
          /\ \A i \in 1 .. Len(cmds) : cmds'[i].what = cmds[i].what
      <3>1. \/ cmds' = cmds \/ cmds' = Retyped(cmds, "UI")
            \/ cmds' = Retyped(cmds, "TO_BE_REMOVED")
        BY <1>3 DEF EnqueueFrontCommit, HandOver, Retyped
      <3>2. IsQueue(cmds)
        BY DEF CrashInv
      <3> QED
        BY <3>1, <3>2, QueueRetyped
    <2>3. Interrupted' => Interrupted
      BY <1>1, <2>1 DEF Interrupted
    <2> QED
      BY <1>1, <2>1, <2>2, <2>3, CountFrame
  <1>4. CASE PopAdvance
    <2>1. /\ pc = "pop2" /\ pc' = ret /\ cmds' = Tail(cmds) /\ UNCHANGED <<saved_printing, paused>>
          /\ cmds # <<>> /\ pc' \notin {"m600", "restore", "hand", "handover", "pop", "pop2"}
      BY <1>4 DEF PopAdvance, Running, savedVars, CrashInv, CrashControl
    <2>2. /\ Len(cmds') = Len(cmds) - 1 /\ Len(cmds) \in Nat
          /\ \A i \in 1 .. Len(cmds) : i # 1 => cmds'[i - 1] = cmds[i]
      <3>1. IsQueue(cmds) /\ Len(cmds) > 0
        BY <2>1, QueueTyped DEF CrashInv
      <3> QED
        BY <2>1, <3>1, QueueTail
    <2>3. ASSUME Interrupted' PROVE FewCommands'
      <3>1. Interrupted /\ FewCommands
        BY <1>1, <2>1, <2>3 DEF Interrupted, Counted
      <3>2. ~refused' /\ ~armed' /\ pc' # "m600"
        BY <1>1, <2>1, <3>1 DEF FewCommands
      <3>3. Len(cmds') <= IF sg_crash' THEN 1 ELSE 2
        BY <1>1, <2>2, <3>1 DEF FewCommands
      <3>4. ASSUME NEW i \in 1 .. Len(cmds'), cmds'[i].what = "crash"
            PROVE  ~sg_crash' /\ i = Len(cmds')
        <4> DEFINE j == i + 1
        <4>1. j \in 1 .. Len(cmds) /\ j # 1 /\ cmds[j] = cmds'[i]
          BY <2>2
        <4>2. ~sg_crash /\ j = Len(cmds)
          BY <3>1, <3>4, <4>1 DEF FewCommands
        <4> QED
          BY <1>1, <2>2, <4>2
      <3> QED
        BY <3>2, <3>3, <3>4 DEF FewCommands
    <2> QED
      BY <2>1, <2>3 DEF Counted
  <1>5. CASE RestoreFinish
    <2>1. saved_printing' = FALSE /\ blocks' = <<>> /\ by' = "none"
      BY <1>5 DEF RestoreFinish
    <2> QED
      BY <2>1, CountOver DEF Interrupted
  <1>6. CASE FinishPause
    <2>1. /\ paused' = TRUE /\ blocks' = <<>> /\ by' = "none"
      BY <1>6 DEF FinishPause, StopPrint
    <2> QED
      BY <2>1, CountOver DEF Interrupted
  <1>7. CASE FinishRunout
    <2>1. pc' = "restore"
      BY <1>7 DEF FinishRunout
    <2> QED
      BY <2>1, CountOver DEF Interrupted
  <1>8. CASE CancelPrint
    <2>1. /\ saved_printing' = FALSE /\ pc' = pc /\ pc # "m600"
      BY <1>8 DEF CancelPrint, PrintStop, mainVars, Waits
    <2> QED
      BY <2>1, CountOver DEF Interrupted
  <1> QED
    BY <1>2, <1>3, <1>4, <1>5, <1>6, <1>7, <1>8

\* A crash is detected, and stops the print.
LEMMA CountCrashStep ==
    ASSUME CrashInv, FlowInv, Counted, Disarmed, ~torn, CrashDetected \/ FinishCrash
    PROVE  Counted'
  <1>1. CASE CrashDetected
    <2>1. /\ UNCHANGED <<saved_printing, paused, readOn, pc>> /\ armed /\ blocks # <<>>
      BY <1>1 DEF CrashDetected, mainVars
    <2>2. ~Interrupted' /\ pc' # "m600"
      BY <2>1 DEF Interrupted, Counted, FewCommands
    <2> QED
      BY <2>2, CountOver
  <1>2. CASE FinishCrash
    <2>1. /\ cmds' = <<UI("ui", sdpos_atomic)>> /\ ~refused' /\ pc' = pc
          /\ UNCHANGED <<armed, sg_crash>> /\ save # "off" /\ by = "crash"
      BY <1>2 DEF FinishCrash, StopPrint, mainVars
    <2>2. ~armed' /\ sg_crash' /\ pc' # "m600"
      BY <2>1 DEF Disarmed, CrashInv, CrashControl, Counted
    <2>3. /\ Len(cmds') = 1
          /\ \A i \in 1 .. Len(cmds') : cmds'[i].what = "ui"
      <3> DEFINE e == UI("ui", sdpos_atomic)
      <3>1. cmds' = <<e>> /\ e.what = "ui"
        BY <2>1 DEF UI
      <3> HIDE DEF e
      <3> QED
        BY <3>1
    <2>4. FewCommands'
      BY <2>1, <2>2, <2>3 DEF FewCommands
    <2> QED
      BY <2>2, <2>4 DEF Counted
  <1> QED
    BY <1>1, <1>2

\* There is room for what the detection queues.
LEMMA CountEnqueueStep ==
    ASSUME QUEUE_MAX >= 2, CrashInv, Counted, ~torn, EnqueueCrash \/ ProcessCrashDetected
    PROVE  Counted'
  <1>1. /\ UNCHANGED <<saved_printing, paused, readOn, armed, already>>
        /\ pc' \in {"loop", "hand"} /\ pc \in {"loop", "proc"}
    BY DEF EnqueueCrash, ProcessCrashDetected, Front, Running, savedVars, mainVars
  <1>2. Interrupted' => Interrupted
    BY <1>1 DEF Interrupted
  <1>3. IsQueue(cmds) /\ QUEUE_MAX \in Nat
    BY SizeAssumption DEF CrashInv
  <1>4. Len(cmds) \in Nat
    BY <1>3, QueueTyped
  <1>5. ASSUME Interrupted, EnqueueCrash PROVE FewCommands'
    <2>1. Enqueue("crash") /\ sg_crash /\ ~sg_crash'
      BY <1>5 DEF EnqueueCrash
    <2>2. /\ ~refused /\ ~armed /\ Len(cmds) <= 1
          /\ \A i \in 1 .. Len(cmds) : cmds[i].what # "crash"
      BY <1>5, <2>1 DEF Counted, FewCommands
    <2> DEFINE e == UI("crash", sdpos_atomic)
    <2>3. cmds' = Append(cmds, e) /\ ~refused'
      BY <1>3, <1>4, <2>1, <2>2 DEF Enqueue, Room
    <2>4. "what" \in DOMAIN e
      BY DEF UI
    <2> HIDE DEF e
    <2>5. /\ Len(cmds') = Len(cmds) + 1
          /\ \A i \in 1 .. Len(cmds) : cmds'[i] = cmds[i]
      BY <1>3, <2>3, <2>4, QueueAppend
    <2>6. \A i \in 1 .. Len(cmds') : cmds'[i].what = "crash" => i = Len(cmds')
      BY <1>4, <2>2, <2>5
    <2> QED
      BY <1>1, <1>4, <2>1, <2>2, <2>3, <2>5, <2>6 DEF FewCommands
  <1>6. ASSUME Interrupted, ProcessCrashDetected PROVE FewCommands'
    <2>1. PICK k \in {"recover", "cancel"} : Enqueue(k)
      BY <1>6 DEF ProcessCrashDetected
    <2>2. /\ pc = "proc" /\ pc' = "hand" /\ ~already /\ cmds # <<>> /\ cmds[1].what = "crash"
          /\ sg_crash' = sg_crash
      BY <1>6 DEF ProcessCrashDetected, Front, Running
    <2>3. 1 \in 1 .. Len(cmds)
      BY <1>3, <1>4, <2>2, QueueTyped
    <2>4. /\ ~refused /\ ~armed /\ ~sg_crash /\ Len(cmds) = 1
      BY <1>6, <2>2, <2>3 DEF Counted, FewCommands, Releasing
    <2> DEFINE e == UI(k, sdpos_atomic)
    <2>5. cmds' = Append(cmds, e) /\ ~refused'
      BY <1>3, <1>4, <2>1, <2>4 DEF Enqueue, Room
    <2>6. "what" \in DOMAIN e /\ e.what # "crash"
      BY DEF UI
    <2> HIDE DEF e
    <2>7. Len(cmds') = 2 /\ cmds'[2] = e
      <3>1. Len(Append(cmds, e)) = Len(cmds) + 1 /\ Append(cmds, e)[Len(cmds) + 1] = e
        BY <1>3, <2>6, QueueAppend
      <3> QED
        BY <2>4, <2>5, <3>1
    <2>8. \A i \in 1 .. Len(cmds') : cmds'[i].what = "crash" => i = 1
      BY <2>6, <2>7
    <2>9. Releasing'
      BY <1>1, <2>2 DEF Releasing
    <2> QED
      BY <1>1, <2>2, <2>4, <2>5, <2>7, <2>8, <2>9 DEF FewCommands
  <1> QED
    BY <1>1, <1>2, <1>5, <1>6 DEF Counted

\* Every step keeps the count.
LEMMA CountStep ==
    ASSUME QUEUE_MAX >= 2, Events \cap {"m601", "ui"} = {},
           CrashInv, CrashFlow, Disarmed, Counted, [NextCrash]_allVars
    PROVE  Counted'
  <1>1. CASE Base
    <2>1. Next /\ ~torn /\ UNCHANGED crashVars /\ FlowInv
      BY <1>1 DEF Base, CrashFlow
    <2>2. ~ProcessM601 /\ ~PauseAfterM601 /\ ~EnqueueUI
      BY <2>1 DEF ProcessM601, PauseAfterM601, EnqueueUI, Running, FlowInv, Flowing
    <2> QED
      BY <2>1, <2>2, CountPlainStep, CountQueueStep DEF Next, Main, Saving, Environment
  <1>2. CASE CrashDetected \/ FinishCrash
    <2>1. CASE torn
      <3>1. save = "off" /\ ~armed
        BY <2>1 DEF CrashFlow
      <3> QED
        BY <1>2, <3>1 DEF CrashDetected, FinishCrash
    <2>2. CASE ~torn
      BY <1>2, <2>2, CountCrashStep DEF CrashFlow
    <2> QED
      BY <2>1, <2>2
  <1>3. CASE EnqueueCrash \/ ProcessCrashDetected
    <2>1. torn' = torn
      BY <1>3 DEF EnqueueCrash, ProcessCrashDetected
    <2>2. CASE torn
      BY <2>1, <2>2 DEF Counted
    <2>3. CASE ~torn
      BY <1>3, <2>3, CountEnqueueStep
    <2> QED
      BY <2>2, <2>3
  <1>4. CASE ProcessCrashRecover
    <2>1. /\ UNCHANGED <<saved_printing, paused>> /\ pc' \in {"restore", "hand"}
          /\ pc' = "hand" => paused \/ ~saved_printing
      BY <1>4 DEF ProcessCrashRecover, savedVars
    <2> QED
      BY <2>1, CountOver DEF Interrupted
  <1>5. CASE ProcessCrashCancel
    <2>1. saved_printing' = FALSE /\ pc' = "hand"
      BY <1>5 DEF ProcessCrashCancel, PrintStop
    <2> QED
      BY <2>1, CountOver DEF Interrupted
  <1>6. CASE Torn \/ UNCHANGED allVars
    <2>1. UNCHANGED <<cmds, already, saved_printing, paused, pc, by, blocks, refused, armed,
                      sg_crash, readOn, torn>>
      BY <1>6 DEF Torn, allVars, vars, queueVars, savedVars, mainVars, isrVars, planVars, crashVars
    <2>2. Counted' = Counted
      BY <2>1 DEF Counted, Interrupted, FewCommands, Releasing
    <2> QED
      BY <2>2
  <1> QED
    BY <1>1, <1>2, <1>3, <1>4, <1>5, <1>6 DEF NextCrash

\* Whatever the main thread was doing when the crash came, and whatever comes
\* in between: a print that a crash has stopped will be resumed or cancelled.
\* Only if the interrupt came in the middle of get_command(), which then fills
\* the buffer with lines of the file, may enquecommand() have dropped the
\* command for it.  No menu may add commands of its own.
THEOREM CrashRemembered ==
    ASSUME QUEUE_MAX >= 2, Events \cap {"m601", "ui"} = {}
    PROVE  SpecCrash => []CrashNotForgotten
  <1> DEFINE All == CrashInv /\ CrashFlow /\ Disarmed /\ Counted
  <1>1. All => CrashNotForgotten
    <2> SUFFICES ASSUME All, saved_printing, ~paused, pc # "restore", ~torn, ~sg_crash,
                        ~(refused /\ readOn)
                 PROVE  \E i \in DOMAIN cmds : cmds[i].what \in CrashCommands
      BY DEF CrashNotForgotten
    <2>1. ~refused
      BY DEF Counted, Interrupted, FewCommands
    <2>2. PICK i \in 1 .. Len(cmds) : Resumes(i)
      BY <2>1 DEF CrashInv, Recovers
    <2>3. DOMAIN cmds = 1 .. Len(cmds)
      BY QueueTyped DEF CrashInv
    <2> QED
      BY <2>2, <2>3 DEF Resumes
  <1>2. InitCrash => All
    <2>1. InitCrash => Disarmed /\ Counted
      BY DEF InitCrash, Init, Disarmed, Counted, Interrupted
    <2> QED
      BY <2>1, CrashInitInv, FlowInit
  <1>3. All /\ [NextCrash]_allVars => All'
    <2>1. "m601" \notin Events
      OBVIOUS
    <2> QED
      BY <2>1, CrashStepInv, FlowStep, DisarmedStep, CountStep
  <1> HIDE DEF All
  <1>4. SpecCrash => []All
    BY <1>2, <1>3, PTL DEF SpecCrash
  <1> QED
    BY <1>1, <1>4, PTL
=============================================================================
