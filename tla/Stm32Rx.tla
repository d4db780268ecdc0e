------------------------------ MODULE Stm32Rx ------------------------------
(***************************************************************************)
(* The double-buffered host-to-device endpoint of the STM32F1 driver        *)
(* (usb/hw_usbd.c), the counterpart of Stm32Tx.                             *)
(***************************************************************************)
EXTENDS Naturals, Sequences

CONSTANT Numbers

VARIABLES ep, next, last

vars == <<ep, next, last>>

Configured == [up |-> TRUE, buf |-> <<0, 0>>, dtog |-> 0, sw |-> 0, stopped |-> FALSE,
               ready |-> FALSE, ctr |-> FALSE, pc |-> "idle"]
Down == [Configured EXCEPT !.up = FALSE]

Init == ep = Configured /\ next = 0 /\ last = Numbers - 1

Received ==
  /\ ep.up /\ ~ep.stopped
  /\ ep' = [ep EXCEPT !.buf[ep.dtog + 1] = next, !.dtog = 1 - @, !.ctr = TRUE,
                      !.stopped = (1 - ep.dtog = ep.sw)]
  /\ next' = (next + 1) % Numbers
  /\ UNCHANGED last

\* handle_rx_transfer()
Process ==
  /\ ep.ctr /\ ep.pc = "idle"
  /\ ep' = [ep EXCEPT !.ctr = FALSE, !.ready = TRUE]
  /\ UNCHANGED <<next, last>>

\* usbd_read(): with the controller at the same buffer as the driver both are
\* full, and rx_ready stays for the second.
Read ==
  /\ ep.up /\ ep.pc = "idle" /\ ep.ready
  /\ last' = ep.buf[ep.sw + 1]
  /\ ep' = [ep EXCEPT !.pc = "copied", !.ready = (ep.dtog = ep.sw)]
  /\ UNCHANGED next

\* ... SW_BUF is toggled, and CTR_RX cleared if the next packet has been spotted.
Toggle ==
  /\ ep.pc = "copied"
  /\ ep' = [ep EXCEPT !.pc = "idle", !.sw = 1 - @, !.stopped = FALSE,
                      !.ctr = IF ep.ready THEN FALSE ELSE ep.ctr]
  /\ UNCHANGED <<next, last>>

BusReset == ep.up /\ ep.pc = "idle" /\ ep' = Down /\ UNCHANGED <<next, last>>
Configure == ~ep.up /\ ep' = Configured /\ UNCHANGED <<next, last>>

Next == Received \/ Process \/ Read \/ Toggle \/ BusReset \/ Configure

MainLoop == Process \/ Read \/ Toggle

\* The buffers that are full and not yet copied.
Full(e) ==
  IF e.dtog = e.sw THEN (IF e.stopped THEN <<e.buf[e.sw + 1], e.buf[2 - e.sw]>> ELSE <<>>)
  ELSE <<e.buf[e.sw + 1]>>
Queue(e) == IF e.pc = "copied" THEN Tail(Full(e)) ELSE Full(e)
=============================================================================
