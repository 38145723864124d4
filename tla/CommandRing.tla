----------------------------- MODULE CommandRing -----------------------------
(***************************************************************************)
(* The command ring of the xHCI driver (src/kernel/usb/xhci/ring.cpp) under *)
(* the configuration of the ports: `commands`, which Xhci keeps as a        *)
(* sequence, is laid out in a buffer of TRBs that the driver writes and     *)
(* the controller reads, with nothing between them but the cycle bits.      *)
(*                                                                         *)
(* Ring::Push does not look where the controller is.  The controller takes  *)
(* a TRB for a command if its cycle bit is the one it expects, and follows  *)
(* the Link TRB in the last entry.                                          *)
(***************************************************************************)
EXTENDS Xhci

CONSTANT buf_size  \* TRBs of the ring; the driver's has 32

(* One entry is the link.  One more must stay free, or the push that fills  *)
(* the ring turns over the cycle bit of a link that the controller has yet  *)
(* to follow.                                                               *)
ASSUME BufSizeAssumption == buf_size \in Nat /\ buf_size > NumPorts + 1

VARIABLES cr,   \* the driver's Ring
          crcr  \* where the controller reads next, and its cycle state

ringVars == <<boot, port_config_phase, addressing_port, devices, portsc, commands, events,
              cr, crcr>>

(* A TRB of a buffer that has been filled with zeroes, and the last one.   *)
Zero == [trb |-> Command("Zero", 0, NoPort), cycle_bit |-> 0]
LinkTRB == Command("Link", 0, NoPort)

RingInit ==
  /\ Init
  /\ cr = [buf |-> [i \in 0 .. buf_size - 1 |-> Zero], write_index |-> 0, cycle_bit |-> 1]
  /\ crcr = [index |-> 0, cycle |-> 1]

CopyToLast(ring, trb) ==
  [ring EXCEPT !.buf[ring.write_index] = [trb |-> trb, cycle_bit |-> ring.cycle_bit]]

(* Seeded fault: the producer's cycle bit stays as it is.                  *)
PushSameCycle(ring, trb) ==
  LET next == [CopyToLast(ring, trb) EXCEPT !.write_index = @ + 1]
  IN  IF next.write_index = buf_size - 1
      THEN [CopyToLast(next, LinkTRB) EXCEPT !.write_index = 0]
      ELSE next

Push(ring, trb) ==
  LET next == [CopyToLast(ring, trb) EXCEPT !.write_index = @ + 1]
  IN  IF next.write_index = buf_size - 1
      THEN [CopyToLast(next, LinkTRB) EXCEPT !.write_index = 0, !.cycle_bit = 1 - @]
      ELSE next

(* Where the controller looks: it follows a link that has been written,    *)
(* which says toggle_cycle.                                                *)
Dequeue ==
  LET entry == cr.buf[crcr.index]
  IN  IF entry.cycle_bit = crcr.cycle /\ entry.trb = LinkTRB
      THEN [index |-> 0, cycle |-> 1 - crcr.cycle]
      ELSE crcr

ExecuteFromRing ==
  /\ ExecuteCommand
  /\ crcr' = [Dequeue EXCEPT !.index = @ + 1]
  /\ UNCHANGED cr

(* A handler pushes one command at most.                                   *)
ProcessEventPushing ==
  /\ ProcessEvent
  /\ cr' = IF commands' = commands THEN cr ELSE Push(cr, commands'[Len(commands')])
  /\ UNCHANGED crcr

RingNext ==
  \/ \E p \in Port : (Plug(p) \/ Unplug(p)) /\ UNCHANGED <<cr, crcr>>
  \/ \E s \in Slot : CompleteTransfer(s) /\ UNCHANGED <<cr, crcr>>
  \/ Boot /\ UNCHANGED <<cr, crcr>>
  \/ ExecuteFromRing
  \/ ProcessEventPushing

RingSpec == RingInit /\ [][RingNext]_ringVars /\ Fairness
-----------------------------------------------------------------------------
(* The controller sees the next command that was pushed and not executed,  *)
(* or nothing when there is none: no command is overwritten, skipped,      *)
(* executed twice or taken from an earlier round of the ring.              *)
RingHoldsCommands ==
  LET entry == cr.buf[Dequeue.index]
  IN  IF commands = <<>> THEN entry.cycle_bit # Dequeue.cycle
      ELSE entry = [trb |-> Head(commands), cycle_bit |-> Dequeue.cycle]
=============================================================================
