---------------------------- MODULE DoubleBuffer ----------------------------
(***************************************************************************)
(* The one-way packet links of hspi/hspi.c and serdes/serdes.c: a board    *)
(* that sends and a board that receives into two DMA buffers in turn.  The *)
(* two drivers differ in when they acknowledge an interrupt: hspi before   *)
(* the user's callback, serdes after it.                                   *)
(*                                                                         *)
(* The hardware (external) transmits from, and receives into, the buffer   *)
(* its own toggle points to, and switches it after every packet; a damaged *)
(* packet does not switch the receiver's.  hspi has two transmit slots,    *)
(* serdes one.  A packet takes much longer than the few instructions       *)
(* before the callback, which may take longer than a packet: one packet    *)
(* may arrive while it runs, for the drivers in Overlap.  (In serdes.c     *)
(* such a packet is never reported: its flag is cleared with the one that  *)
(* was served.)  The sender waits for the end of a transmission before the *)
(* next one.                                                               *)
(***************************************************************************)
EXTENDS Integers, Sequences, PacketLink

CONSTANTS
  Overlap,     \* the drivers whose callback may take longer than a packet
  Sizes,       \* the sizes sent
  Customs,     \* the values of custom_register sent
  MaxPackets   \* bound on the packets sent

ASSUME LinkAssumption ==
  /\ Overlap \subseteq {"hspi", "serdes"} /\ MaxPackets \in Nat
  /\ \A size \in Sizes : size \in Nat /\ size <= 4096
  /\ \A custom \in Customs : custom \in Nat /\ custom < 32768

VARIABLES
  driver,     \* the driver of both boards: "hspi" or "serdes"
  tx,         \* the sender: current_dma_buffer, transmit slots, hardware toggle, pc
  waiting,    \* the packets that arrived and no handler has looked at
  sent        \* what hspi_send or serdes_send was called with

vars == <<driver, tx, rx, dma, call, waiting, sent, good, reported>>

Slots == {0, 1}
Nothing == [n |-> 0, word |-> 0]
Hspi == driver = "hspi"

(* The user-defined header word: 13 bits of size, and what these leave of  *)
(* 26 bits (HSPI_USER_DEFINED_MASK) or 28 (SERDES_USER_DEFINED_MASK) is    *)
(* for custom_register.                                                    *)
SizeRange == 8192                                     \* 2^13
WordRange == IF Hspi THEN 67108864 ELSE 268435456     \* 2^26, 2^28
MaxCustom == IF Hspi THEN 8191 ELSE 32767             \* 13 bits, 15 bits

-----------------------------------------------------------------------------
Header(size, custom) == ((size % SizeRange) + custom * SizeRange) % WordRange

SizeOf(word) == word % SizeRange
CustomOf(word) == word \div SizeRange

Report(b) == [n |-> dma[b].n, size |-> SizeOf(dma[b].word), custom |-> CustomOf(dma[b].word)]

-----------------------------------------------------------------------------
Init ==
  /\ driver \in {"hspi", "serdes"}
  /\ tx = [current |-> 0, slot |-> [b \in Slots |-> Nothing], hw |-> 0, pc |-> "idle"]
  /\ rx = [current |-> 0, hw |-> 0, done |-> FALSE, err |-> FALSE, pc |-> "idle"]
  /\ dma = [b \in Slots |-> Nothing]
  /\ call = [buf |-> 0, n |-> 0]
  /\ waiting = 0
  /\ sent = <<>> /\ good = <<>> /\ reported = <<>>

(* hspi_send fills the slot of current_dma_buffer; serdes_send has one.    *)
send(size, custom) ==
  /\ tx.pc = "idle" /\ Len(sent) < MaxPackets /\ custom <= MaxCustom
  /\ sent' = Append(sent, [n |-> Len(sent) + 1, size |-> size, custom |-> custom])
  /\ tx' = [tx EXCEPT !.slot[tx.current] = [n |-> Len(sent) + 1, word |-> Header(size, custom)],
                      !.pc = "sending"]
  /\ UNCHANGED <<driver, rx, dma, call, waiting, good, reported>>

(* RB_HSPI_IF_T_DONE switches current_dma_buffer; SerDes_Wait_Txdone just  *)
(* returns.                                                                *)
Sent ==
  /\ tx.pc = "sent"
  /\ tx' = [tx EXCEPT !.current = IF Hspi THEN 1 - @ ELSE @, !.pc = "idle"]
  /\ UNCHANGED <<driver, rx, dma, call, waiting, sent, good, reported>>

(* A packet crosses the link, damaged or not.                              *)
Transmit(damaged) ==
  LET p == tx.slot[tx.hw] IN
  /\ tx.pc = "sending" /\ waiting = 0
  /\ driver \in Overlap \/ rx.pc = "idle"
  /\ tx' = [tx EXCEPT !.hw = IF Hspi THEN 1 - @ ELSE @, !.pc = "sent"]
  /\ dma' = [dma EXCEPT ![rx.hw] = p]
  /\ waiting' = 1
  /\ \/ /\ ~damaged
        /\ rx' = [rx EXCEPT !.done = TRUE, !.err = FALSE, !.hw = 1 - @]
        /\ good' = Append(good, sent[Len(sent)])
     \/ /\ damaged
        /\ rx' = IF Hspi THEN [rx EXCEPT !.done = TRUE, !.err = TRUE]
                         ELSE [rx EXCEPT !.err = TRUE]
        /\ UNCHANGED good
  /\ UNCHANGED <<driver, call, sent, reported>>

-----------------------------------------------------------------------------
Callback(b) ==
  /\ call' = [buf |-> b, n |-> dma[b].n]
  /\ reported' = Append(reported, Report(b))

(* Mutant: the callback gets the buffer the DMA fills next.                *)
HspiIrqNextBuffer ==
  /\ Hspi /\ rx.pc = "idle" /\ rx.done
  /\ waiting' = 0
  /\ rx' = [rx EXCEPT !.done = FALSE, !.current = 1 - @, !.pc = "callback"]
  /\ Callback(1 - rx.current)
  /\ UNCHANGED <<driver, tx, dma, sent, good>>

(* HSPI_IRQHandler on RB_HSPI_IF_R_DONE up to the callback: acknowledge,   *)
(* then switch buffers and call, or only report the error.                 *)
HSPI_IRQHandler ==
  /\ Hspi /\ rx.pc = "idle" /\ rx.done
  /\ waiting' = 0
  /\ \/ /\ ~rx.err
        /\ rx' = [rx EXCEPT !.done = FALSE, !.current = 1 - @, !.pc = "callback"]
        /\ Callback(rx.current)
     \/ /\ rx.err
        /\ rx' = [rx EXCEPT !.done = FALSE]
        /\ UNCHANGED <<call, reported>>
  /\ UNCHANGED <<driver, tx, dma, sent, good>>

HspiReturns ==
  /\ Hspi /\ rx.pc = "callback"
  /\ rx' = [rx EXCEPT !.pc = "idle"]
  /\ UNCHANGED <<driver, tx, dma, call, waiting, sent, good, reported>>

(* SERDES_IRQHandler up to the callback; nothing is done about an error.   *)
SERDES_IRQHandler ==
  /\ ~Hspi /\ rx.pc = "idle" /\ (rx.done \/ rx.err)
  /\ waiting' = 0
  /\ rx' = [rx EXCEPT !.pc = IF rx.done THEN "callback" ELSE "error"]
  /\ \/ rx.done /\ Callback(rx.current)
     \/ ~rx.done /\ UNCHANGED <<call, reported>>
  /\ UNCHANGED <<driver, tx, dma, sent, good>>

(* Mutant: the buffers are switched after an error too.                    *)
SerdesSwitchesAlways ==
  /\ ~Hspi /\ rx.pc \in {"callback", "error"}
  /\ rx' = [rx EXCEPT !.current = 1 - @, !.done = FALSE, !.err = FALSE, !.pc = "idle"]
  /\ UNCHANGED <<driver, tx, dma, call, waiting, sent, good, reported>>

(* The callback has returned: switch buffers, acknowledge everything.      *)
SerdesReturns ==
  /\ ~Hspi /\ rx.pc \in {"callback", "error"}
  /\ rx' = [rx EXCEPT !.current = IF rx.pc = "callback" THEN 1 - @ ELSE @,
                      !.done = FALSE, !.err = FALSE, !.pc = "idle"]
  /\ UNCHANGED <<driver, tx, dma, call, waiting, sent, good, reported>>

Next == \/ \E size \in Sizes, custom \in Customs : send(size, custom)
        \/ Sent
        \/ \E damaged \in BOOLEAN : Transmit(damaged)
        \/ HSPI_IRQHandler \/ HspiReturns
        \/ SERDES_IRQHandler \/ SerdesReturns

Spec == Init /\ [][Next]_vars
=============================================================================
