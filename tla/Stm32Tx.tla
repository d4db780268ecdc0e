------------------------------ MODULE Stm32Tx ------------------------------
(***************************************************************************)
(* The double-buffered device-to-host endpoint of the STM32F1 driver        *)
(* (usb/hw_usbd.c).  There is no ring: the main loop writes straight into the *)
(* controller's two buffers and infers from DTOG and SW_BUF, and from a flag  *)
(* it keeps (tx_ready), whether there is room.                             *)
(*                                                                         *)
(* The controller is external: it sends the buffer that DTOG names, toggles  *)
(* DTOG and raises CTR_TX, and stops when DTOG has caught up with SW_BUF      *)
(* until SW_BUF is toggled.                                                *)
(***************************************************************************)
EXTENDS Naturals, Sequences

CONSTANT Numbers

VARIABLES ep, next, last

vars == <<ep, next, last>>

\* An empty packet: configuring the endpoint makes it VALID with SW_BUF ahead of
\* DTOG, so that the first thing the controller sends has no bytes.
Empty == Numbers

Configured == [up |-> TRUE, buf |-> <<Empty, Empty>>, dtog |-> 0, sw |-> 1, stopped |-> FALSE,
               ready |-> TRUE, ctr |-> FALSE, pc |-> "idle", seen |-> FALSE]
\* handle_reset(): the soft state is cleared, the hardware disables the endpoint.
Down == [Configured EXCEPT !.up = FALSE, !.ready = FALSE, !.stopped = TRUE, !.sw = 0]

Init == ep = Configured /\ next = 0 /\ last = Numbers - 1

\* usbd_write(): EPR is read once; with the controller at the same buffer as the
\* driver there is room for two packets, and tx_ready stays.
Write ==
  /\ ep.up /\ ep.pc = "idle" /\ ep.ready
  /\ ep' = [ep EXCEPT !.pc = "copy", !.ready = (ep.dtog = ep.sw)]
  /\ UNCHANGED <<next, last>>

KeepCtr(e) == e.ctr                                        \* mutant
ClearSpotted(e) == IF e.ready THEN FALSE ELSE e.ctr
\* ... the packet is in place and SW_BUF toggled.  A completion of the second
\* free buffer that is still pending has been accounted for.
Toggle ==
  /\ ep.pc = "copy"
  /\ ep' = [ep EXCEPT !.pc = "idle", !.buf[ep.sw + 1] = next, !.sw = 1 - @,
                      !.stopped = FALSE, !.ctr = ClearSpotted(ep)]
  /\ next' = (next + 1) % Numbers
  /\ UNCHANGED last

\* handle_tx_transfer()
Process ==
  /\ ep.ctr /\ ep.pc = "idle"
  /\ ep' = [ep EXCEPT !.ctr = FALSE, !.ready = TRUE]
  /\ UNCHANGED <<next, last>>

Sent ==
  /\ ep.up /\ ~ep.stopped
  /\ last' = IF ep.buf[ep.dtog + 1] = Empty THEN last ELSE ep.buf[ep.dtog + 1]
  /\ ep' = [ep EXCEPT !.dtog = 1 - @, !.ctr = TRUE, !.stopped = (1 - ep.dtog = ep.sw)]
  /\ UNCHANGED next

BusReset == ep.up /\ ep.pc = "idle" /\ ep' = Down /\ UNCHANGED <<next, last>>
Configure == ~ep.up /\ ep' = Configured /\ UNCHANGED <<next, last>>

Next == Write \/ Toggle \/ Process \/ Sent \/ BusReset \/ Configure

MainLoop == Toggle \/ Process

\* What the controller has still to send, without the empty packet.
Packet(p) == IF p = Empty THEN <<>> ELSE <<p>>
Queue(e) ==
  IF e.stopped THEN <<>>
  ELSE IF e.dtog # e.sw THEN Packet(e.buf[e.dtog + 1])
  ELSE Packet(e.buf[e.dtog + 1]) \o Packet(e.buf[2 - e.dtog])
=============================================================================
