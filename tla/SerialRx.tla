------------------------------- MODULE SerialRx -------------------------------
(***************************************************************************)
(* Bytes from the host: the receive interrupt and its ring (MarlinSerial), *)
(* the MeatPack decoder (meatpack.cpp) and the loop of get_command() that  *)
(* takes the characters.  Two common characters are packed in a byte of    *)
(* two halves; an uncommon one is told by a half that says so and follows  *)
(* in a byte of its own.  The halves tell "a", common, "n", the end of a   *)
(* line, and "f", not packed.  The lines have no numbers: what a numbered  *)
(* line that is lost leads to is HostPrint's.                              *)
(*                                                                         *)
(* Two ghosts: `text', what the host has sent and the lines have not got,  *)
(* and `filled', the ring has been full.  A full ring is a ring that loses *)
(* characters: the next one is dropped, and get_command() empties a ring   *)
(* it finds full.                                                          *)
(***************************************************************************)
EXTENDS Integers, Sequences, SequencesExt

CONSTANTS RX_BUFFER_SIZE

ASSUME RxAssumption == RX_BUFFER_SIZE \in Nat \ {0, 1}

VARIABLES rxWire,                \* bytes the host has sent
          rx_buffer, rxHead, rxTail,
          mp_config,             \* packing is active
          mp_cmd_count, mp_cmd_active, mp_full_char_queue,
          mp_char_buf,           \* the common character of a pair, or "none"
          hostPacks,             \* the host packs
          reading,               \* get_command() is in its serial loop
          text, filled
rxRing == <<rx_buffer, rxHead, rxTail>>
mpVars == <<mp_config, mp_cmd_count, mp_cmd_active, mp_full_char_queue, mp_char_buf>>
rxVars == <<rxWire, rxRing, mpVars, hostPacks, reading, text, filled>>

Packed(low, high) == [low |-> low, high |-> high]
Raw(c)            == [low |-> c, high |-> "raw"]
RawIf(b, c)       == IF b THEN <<Raw(c)>> ELSE <<>>
CommandByte       == Packed("f", "f")
Cmd(on)           == [low |-> IF on THEN "on" ELSE "off", high |-> "raw"]

RxInit ==
  /\ rxWire = <<>> /\ rx_buffer = [i \in 0 .. RX_BUFFER_SIZE - 1 |-> Raw("a")]
  /\ rxHead = 0 /\ rxTail = 0
  /\ mp_config = FALSE /\ mp_cmd_count = 0 /\ mp_cmd_active = FALSE
  /\ mp_full_char_queue = 0 /\ mp_char_buf = "none"
  /\ hostPacks = FALSE /\ reading = FALSE /\ text = <<>> /\ filled = FALSE

\* available()
RxAvailable == (RX_BUFFER_SIZE + rxHead - rxTail) % RX_BUFFER_SIZE

-----------------------------------------------------------------------------
(* The host, as long as the ring has not been full.                        *)

\* Two characters, or the end of a line and nothing; the uncommon ones follow.
SendChars ==
  /\ ~filled /\ rxWire = <<>> /\ Len(text) < RX_BUFFER_SIZE - 1
  /\ \E c \in {"a", "n", "f"}, d \in {"a", "n", "f"} :
       /\ text' = text \o (IF c = "n" THEN <<c>> ELSE <<c, d>>)
       /\ rxWire' = IF hostPacks THEN <<Packed(c, d)>> \o RawIf(c = "f", c) \o RawIf(c # "n" /\ d = "f", d)
                    ELSE <<Raw(c)>> \o RawIf(c # "n", d)
  /\ UNCHANGED <<rxRing, mpVars, hostPacks, reading, filled>>

SwitchPacking ==
  /\ ~filled /\ rxWire = <<>> /\ hostPacks' = ~hostPacks
  /\ rxWire' = <<CommandByte, CommandByte, Cmd(hostPacks')>>
  /\ UNCHANGED <<rxRing, mpVars, reading, text, filled>>

-----------------------------------------------------------------------------
(* The receive interrupt.                                                  *)

\* store_char(): a byte for which there is no room is dropped.
StoreChar ==
  /\ rxWire # <<>> /\ rxWire' = Tail(rxWire)
  /\ LET next == (rxHead + 1) % RX_BUFFER_SIZE
     IN  IF next = rxTail THEN UNCHANGED <<rx_buffer, rxHead>>
         ELSE rx_buffer' = [rx_buffer EXCEPT ![rxHead] = Head(rxWire)] /\ rxHead' = next
  /\ filled' = (filled \/ (rxHead' + 1) % RX_BUFFER_SIZE = rxTail)
  /\ UNCHANGED <<rxTail, mpVars, hostPacks, reading, text>>

-----------------------------------------------------------------------------
(* The decoder.  Its state is a record, for functions that call each other; *)
(* `out' is mp_char_out_buf.                                               *)

Decoder == [on |-> mp_config, count |-> mp_cmd_count, active |-> mp_cmd_active,
            queue |-> mp_full_char_queue, buf |-> mp_char_buf, out |-> <<>>]
SetDecoder(d) ==
  /\ mp_config' = d.on /\ mp_cmd_count' = d.count /\ mp_cmd_active' = d.active
  /\ mp_full_char_queue' = d.queue /\ mp_char_buf' = d.buf

\* A packed byte; nothing follows the end of a line.
Unpacked(d, c) ==
  IF c.low = "f" THEN IF c.high = "f" THEN [d EXCEPT !.queue = 2]
                      ELSE [d EXCEPT !.queue = 1, !.buf = c.high]
  ELSE IF c.low = "n" THEN [d EXCEPT !.out = Append(@, c.low)]
  ELSE IF c.high = "f" THEN [d EXCEPT !.out = Append(@, c.low), !.queue = @ + 1]
  ELSE [d EXCEPT !.out = @ \o <<c.low, c.high>>]

\* mp_handle_rx_char_inner()
Inner(d, c) ==
  IF ~d.on THEN [d EXCEPT !.out = Append(@, c.low)]
  ELSE IF d.queue > 0
  THEN [d EXCEPT !.out = Append(@, c.low) \o (IF d.buf = "none" THEN <<>> ELSE <<d.buf>>),
                 !.buf = "none", !.queue = @ - 1]
  ELSE Unpacked(d, c)

\* mp_handle_rx_char(): the command byte is also the byte of two uncommon
\* characters, which is only known when the next byte comes.
Decoded(d, c) ==
  IF c = CommandByte
  THEN IF d.count > 0 THEN [d EXCEPT !.active = TRUE, !.count = 0] ELSE [d EXCEPT !.count = 1]
  ELSE IF d.active
  THEN IF c.low = "on" THEN [d EXCEPT !.on = TRUE, !.active = FALSE]
       ELSE [d EXCEPT !.on = FALSE, !.active = FALSE]
  ELSE Inner(IF d.count > 0 THEN [Inner(d, CommandByte) EXCEPT !.count = 0] ELSE d, c)

-----------------------------------------------------------------------------
(* get_command(), the part that reads the serial line.                     *)

\* What the call would do with the ring it finds were one byte less enough for
\* a full ring, and what it does.
FlushedEarly(n) == IF n >= RX_BUFFER_SIZE - 2 THEN rxTail ELSE rxHead
Flushed(n)      == IF n = RX_BUFFER_SIZE - 1 THEN rxTail ELSE rxHead

\* The call, there being room for a command; it flushes a full ring.
EnterGet ==
  /\ ~reading /\ reading' = TRUE
  /\ rxHead' = Flushed(RxAvailable)
  /\ UNCHANGED <<rxWire, rx_buffer, rxTail, mpVars, hostPacks, text, filled>>

\* The loop ends: nothing to read, or the print has been saved.
LeaveGet ==
  /\ reading /\ reading' = FALSE
  /\ UNCHANGED <<rxWire, rxRing, mpVars, hostPacks, text, filled>>

\* One byte and its characters.  After the end of a line the call may return,
\* and what is left of the characters is forgotten.
ReadByte ==
  /\ reading /\ rxHead # rxTail /\ rxTail' = (rxTail + 1) % RX_BUFFER_SIZE
  /\ LET d == Decoded(Decoder, rx_buffer[rxTail])
     IN  /\ SetDecoder(d)
         /\ reading' \in BOOLEAN /\ (~reading' => d.out # <<>> /\ d.out[1] = "n")
         /\ LET taken == IF reading' THEN d.out ELSE <<"n">>
            IN  text' = IF IsPrefix(taken, text) THEN SubSeq(text, Len(taken) + 1, Len(text))
                        ELSE <<"garbled">>
  /\ UNCHANGED <<rxWire, rx_buffer, rxHead, hostPacks, filled>>

RxNext == SendChars \/ SwitchPacking \/ StoreChar \/ EnterGet \/ LeaveGet \/ ReadByte
RxSpec == RxInit /\ [][RxNext]_rxVars

-----------------------------------------------------------------------------
RxTypeOK ==
  /\ rxHead \in 0 .. RX_BUFFER_SIZE - 1 /\ rxTail \in 0 .. RX_BUFFER_SIZE - 1
  /\ mp_config \in BOOLEAN /\ mp_cmd_count \in {0, 1} /\ mp_cmd_active \in BOOLEAN
  /\ mp_full_char_queue \in 0 .. 2 /\ mp_char_buf \in {"none", "a", "n", "raw"}
  /\ hostPacks \in BOOLEAN /\ reading \in BOOLEAN /\ filled \in BOOLEAN

\* As long as the ring has never been full: when all bytes have been read, the
\* lines have got exactly the characters the host has sent, packed or not,
\* across the ring's end, the switches, a command byte that is none, a call
\* that returns amid the characters, and calls that look for a full ring.
TextArrives == rxWire = <<>> /\ rxHead = rxTail /\ ~filled => text = <<>>
=============================================================================
