------------------------------ MODULE CmdBuffer ------------------------------
(***************************************************************************)
(* cmdqueue.cpp: the bytes of the ring of commands.  A command is a header *)
(* (a type that is not zero, then the bytes of a length), its characters   *)
(* and a zero; its length is stored nowhere, so cmdqueue_pop_front() finds *)
(* the next command by looking for zeros.  A cell holds 0, the type of a   *)
(* command, a character of one, or a character of a line that has not been *)
(* received to its end.  `queue' is a ghost: the lengths of the commands   *)
(* the program believes to have queued.                                    *)
(***************************************************************************)
EXTENDS Integers, Sequences, FiniteSetsExt

CONSTANTS BUFLINES,      \* BUFSIZE of cmdbuffer
          MAX_CMD_SIZE, CMDHDRSIZE, RESERVE_FRONT,
          FrontLens,     \* lengths of the commands pushed to the front
          UiLens,        \* lengths of the commands of the menus
          SdLens,        \* lengths of the lines of the SD card
          UiWhileReceiving \* menus enqueue while a line is being received

ASSUME CmdBufferAssumption ==
  /\ BUFLINES \in Nat \ {0} /\ MAX_CMD_SIZE \in Nat \ {0, 1}
  /\ CMDHDRSIZE \in Nat \ {0} /\ RESERVE_FRONT \in Nat
  /\ FrontLens \subseteq 1 .. MAX_CMD_SIZE - 1 /\ UiLens \subseteq 1 .. MAX_CMD_SIZE - 1
  /\ SdLens \subseteq 1 .. MAX_CMD_SIZE - 1
  /\ UiWhileReceiving \in BOOLEAN
  \* An empty ring has room for a line of full length.
  /\ MAX_CMD_SIZE + CMDHDRSIZE <= BUFLINES * (MAX_CMD_SIZE + 1)

VARIABLES cmdbuffer, bufindr, bufindw, buflen, serial_count,
          cmdbuffer_front_already_processed,
          processing,  \* loop() is inside process_commands()
          queue        \* ghost
cmdVars == <<cmdbuffer, bufindr, bufindw, buflen, serial_count,
             cmdbuffer_front_already_processed, processing, queue>>

SizeOf == BUFLINES * (MAX_CMD_SIZE + 1) + RESERVE_FRONT
Cells  == 0 .. SizeOf - 1
Type     == 1
Char     == 2
Received == 3
Taken(len) == len + 1 + CMDHDRSIZE

\* The ring and its indices as one value, for functions that call each other.
Ring == [cells |-> cmdbuffer, r |-> bufindr, w |-> bufindw, n |-> buflen]
SetRing(b) == /\ cmdbuffer' = b.cells /\ bufindr' = b.r /\ bufindw' = b.w /\ buflen' = b.n

Zeroed(cells, from, to) == [i \in Cells |-> IF i \in from .. to - 1 THEN 0 ELSE cells[i]]
FirstOf(places) == Min(places \union {SizeOf})
ZeroFrom(cells, i) == FirstOf({j \in i .. SizeOf - 1 : cells[j] = 0})
TextFrom(cells, i) == FirstOf({j \in i .. SizeOf - 1 : cells[j] # 0})

\* Skipping to the next command as it would be without the gap at the end.
NextCommandNoGap(cells, i) ==
  LET end == ZeroFrom(cells, i + CMDHDRSIZE)
  IN  IF end + 1 >= SizeOf THEN 0 ELSE end + 1

\* Where the next command starts: behind the zeros behind the string.
NextCommand(cells, i) ==
  LET end  == ZeroFrom(cells, i + CMDHDRSIZE)
      next == TextFrom(cells, end + 1)
  IN  IF next < SizeOf THEN next ELSE TextFrom(cells, 0)

\* cmdqueue_pop_front()
Popped(b) ==
  IF b.n = 0 THEN b
  ELSE IF b.n = 1
  THEN LET w == IF serial_count = 0 THEN 0 ELSE b.w IN [b EXCEPT !.n = 0, !.w = w, !.r = w]
  ELSE [b EXCEPT !.n = @ - 1, !.r = NextCommand(b.cells, b.r)]

Full(b) == b.r = b.w /\ b.n > 0

\* cmdqueue_could_enqueue_back() as it would be without zeroing the gap.
BackRoomNotZeroed(b, len) ==
  LET endw == b.w + Taken(len)
  IN  IF len >= MAX_CMD_SIZE \/ Full(b) THEN {}
      ELSE IF b.w < b.r
      THEN IF endw + RESERVE_FRONT <= b.r THEN {b} ELSE {}
      ELSE IF \/ endw + RESERVE_FRONT <= SizeOf
              \/ endw <= SizeOf /\ RESERVE_FRONT <= b.r
      THEN {b}
      ELSE IF Taken(len) + RESERVE_FRONT <= b.r THEN {[b EXCEPT !.w = 0]} ELSE {}

\* cmdqueue_could_enqueue_back(): the ring with room for `len' characters at
\* bufindw, or no ring.
BackRoom(b, len) ==
  LET endw == b.w + Taken(len)
  IN  IF len >= MAX_CMD_SIZE \/ Full(b) THEN {}
      ELSE IF b.w < b.r
      THEN IF endw + RESERVE_FRONT <= b.r THEN {b} ELSE {}
      ELSE IF \/ endw + RESERVE_FRONT <= SizeOf
              \/ endw <= SizeOf /\ RESERVE_FRONT <= b.r
      THEN {b}
      ELSE IF Taken(len) + RESERVE_FRONT <= b.r
      THEN {[b EXCEPT !.w = 0, !.cells = Zeroed(@, b.w, SizeOf)]}
      ELSE {}

\* cmdqueue_could_enqueue_front(), without its removal of the command that is
\* being processed: the ring with room for `len' characters at bufindr.
FrontRoom(b, len) ==
  LET endw == IF serial_count > 0 THEN b.w + MAX_CMD_SIZE + 1 ELSE b.w
      atEnd == SizeOf - Taken(len)
  IN  IF len >= MAX_CMD_SIZE \/ Full(b) THEN {}
      ELSE IF b.w < b.r
      THEN IF endw <= b.r - Taken(len) THEN {[b EXCEPT !.r = @ - Taken(len)]} ELSE {}
      ELSE IF Taken(len) <= b.r THEN {[b EXCEPT !.r = @ - Taken(len)]}
      ELSE IF endw <= atEnd THEN {[b EXCEPT !.r = atEnd, !.cells = Zeroed(@, 0, b.r)]}
      ELSE {}

\* A type and a string of `len' characters at `at'; the other bytes of the
\* header keep what they held.
Written(cells, at, len) ==
  [i \in Cells |-> IF i = at THEN Type
                   ELSE IF i \in at + CMDHDRSIZE .. at + CMDHDRSIZE + len - 1 THEN Char
                   ELSE IF i = at + CMDHDRSIZE + len THEN 0 ELSE cells[i]]

\* bufindw behind a new string, and the string counted.
Appended(b, len) ==
  [b EXCEPT !.w = IF @ + Taken(len) = SizeOf THEN 0 ELSE @ + Taken(len), !.n = @ + 1]

CmdInit ==
  /\ cmdbuffer = [i \in Cells |-> 0]
  /\ bufindr = 0 /\ bufindw = 0 /\ buflen = 0 /\ serial_count = 0
  /\ cmdbuffer_front_already_processed = FALSE /\ processing = FALSE
  /\ queue = <<>>

-----------------------------------------------------------------------------
(* The main loop.                                                          *)

\* loop() hands the command at the front to process_commands().
BeginCommand ==
  /\ ~processing /\ buflen > 0
  /\ processing' = TRUE /\ cmdbuffer_front_already_processed' = FALSE
  /\ UNCHANGED <<cmdbuffer, bufindr, bufindw, buflen, serial_count, queue>>

\* loop() releases it, unless its handler has removed or kept it.
EndCommand ==
  /\ processing /\ processing' = FALSE
  /\ IF cmdbuffer_front_already_processed \/ buflen = 0
     THEN UNCHANGED <<cmdbuffer, bufindr, bufindw, buflen, queue>>
     ELSE SetRing(Popped(Ring)) /\ queue' = Tail(queue)
  /\ UNCHANGED <<serial_count, cmdbuffer_front_already_processed>>

\* repeatcommand_front(), before commands are pushed in front of the current.
RepeatFront ==
  /\ processing /\ ~cmdbuffer_front_already_processed
  /\ cmdbuffer_front_already_processed' = TRUE
  /\ UNCHANGED <<cmdbuffer, bufindr, bufindw, buflen, serial_count, processing, queue>>

\* enquecommand_front(): only from a command that is being processed.  The
\* command it replaces is removed even if there is then no room.
EnqueueFront ==
  /\ processing /\ cmdbuffer_front_already_processed' = TRUE
  /\ LET drop == ~cmdbuffer_front_already_processed /\ buflen > 0
         b    == IF drop THEN Popped(Ring) ELSE Ring
         q    == IF drop THEN Tail(queue) ELSE queue
     IN  \E len \in FrontLens :
           IF FrontRoom(b, len) = {} THEN SetRing(b) /\ queue' = q
           ELSE \E c \in FrontRoom(b, len) :
                  /\ SetRing([c EXCEPT !.cells = Written(@, c.r, len), !.n = @ + 1])
                  /\ queue' = <<len>> \o q
  /\ UNCHANGED <<serial_count, processing>>

\* enquecommand(), of a menu or a handler.  It knows nothing of a line that is
\* being received at bufindw.
EnqueueBack ==
  /\ serial_count > 0 => UiWhileReceiving
  /\ \E len \in UiLens : \E c \in BackRoom(Ring, len) :
       /\ SetRing(Appended([c EXCEPT !.cells = Written(@, c.w, len)], len))
       /\ queue' = Append(queue, len)
  /\ UNCHANGED <<serial_count, cmdbuffer_front_already_processed, processing>>

\* cmdqueue_reset(): the pops leave nothing but the indices.
ResetQueue ==
  /\ buflen > 0
  /\ SetRing([Ring EXCEPT !.r = 0, !.w = 0, !.n = 0])
  /\ queue' = <<>> /\ cmdbuffer_front_already_processed' = TRUE
  /\ UNCHANGED <<serial_count, processing>>

-----------------------------------------------------------------------------
(* get_command(): every call first makes room for a line of full length.   *)

\* A character from the host.
GetChar ==
  /\ serial_count < MAX_CMD_SIZE - 1
  /\ \E c \in BackRoom(Ring, MAX_CMD_SIZE - 1) :
       SetRing([c EXCEPT !.cells[c.w + CMDHDRSIZE + serial_count] = Received])
  /\ serial_count' = serial_count + 1
  /\ UNCHANGED <<cmdbuffer_front_already_processed, processing, queue>>

\* The end of the line: the line number, `strip' characters, is removed by
\* moving the rest of the string to the front.
GetEndOfLine ==
  /\ serial_count > 0
  /\ \E c \in BackRoom(Ring, MAX_CMD_SIZE - 1), strip \in {0, serial_count - 1} :
       LET at   == c.w + CMDHDRSIZE
           line == [c.cells EXCEPT ![at + serial_count] = 0]
           len  == ZeroFrom(line, at + strip) - (at + strip)
           moved == [i \in Cells |-> IF i = c.w THEN Type
                                     ELSE IF i \in at .. at + len - 1 THEN Char
                                     ELSE IF i = at + len THEN 0 ELSE line[i]]
       IN  /\ SetRing(Appended([c EXCEPT !.cells = moved], len))
           /\ queue' = Append(queue, len)
  /\ serial_count' = 0
  /\ UNCHANGED <<cmdbuffer_front_already_processed, processing>>

\* The line is refused (line number, checksum, stopped, comment) or the host
\* falls silent.
DropLine ==
  /\ serial_count > 0 /\ serial_count' = 0
  /\ \E c \in BackRoom(Ring, MAX_CMD_SIZE - 1) : SetRing(c)
  /\ UNCHANGED <<cmdbuffer_front_already_processed, processing, queue>>

\* A whole line of the SD card.
GetSdLine ==
  /\ serial_count = 0
  /\ \E c \in BackRoom(Ring, MAX_CMD_SIZE - 1), len \in SdLens :
       LET cells == [i \in Cells |-> IF i \in c.w + 1 .. c.w + CMDHDRSIZE - 1 THEN 0
                                     ELSE c.cells[i]]
       IN  /\ SetRing(Appended([c EXCEPT !.cells = Written(cells, c.w, len)], len))
           /\ queue' = Append(queue, len)
  /\ UNCHANGED <<serial_count, cmdbuffer_front_already_processed, processing>>

CmdNext == \/ BeginCommand \/ EndCommand \/ RepeatFront \/ EnqueueFront \/ EnqueueBack
           \/ ResetQueue \/ GetChar \/ GetEndOfLine \/ DropLine \/ GetSdLine
CmdSpec == CmdInit /\ [][CmdNext]_cmdVars

-----------------------------------------------------------------------------
CmdTypeOK ==
  /\ cmdbuffer \in [Cells -> {0, Type, Char, Received}]
  /\ bufindr \in Cells /\ bufindw \in Cells /\ buflen \in 0 .. SizeOf
  /\ serial_count \in 0 .. MAX_CMD_SIZE - 1
  /\ cmdbuffer_front_already_processed \in BOOLEAN /\ processing \in BOOLEAN
  /\ \A k \in DOMAIN queue : queue[k] \in 0 .. MAX_CMD_SIZE - 1

\* Following the zeros from bufindr as cmdqueue_pop_front() does visits
\* exactly the queued commands, in order, each with its type and its length,
\* whatever was pushed, removed, received or wrapped in between.
QueueReadable ==
  LET at[k \in 1 .. buflen] == IF k = 1 THEN bufindr ELSE NextCommand(cmdbuffer, at[k - 1])
  IN  /\ buflen = Len(queue)
      /\ \A k \in 1 .. buflen :
           /\ at[k] + CMDHDRSIZE + queue[k] < SizeOf
           /\ cmdbuffer[at[k]] = Type
           /\ ZeroFrom(cmdbuffer, at[k] + CMDHDRSIZE)
                = at[k] + CMDHDRSIZE + queue[k]
=============================================================================
