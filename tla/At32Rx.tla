------------------------------- MODULE At32Rx -------------------------------
(***************************************************************************)
(* The host-to-device bulk endpoint of the AT32F4 driver                   *)
(* (usb/hw_usbd_at32f4.c): the interrupt moves packets from the controller's  *)
(* two buffers into a ring of NBUF; when the ring is full it leaves the       *)
(* packet where it is and asks the main loop to move it (kick).             *)
(***************************************************************************)
EXTENDS Naturals, Sequences

CONSTANTS Numbers, NBUF

\* As for At32Tx; the controller receives into the buffer that dtog names while
\* sw names the other one.
VARIABLES ep, next, last

vars == <<ep, next, last>>

\* usbd_configure_ep(0x02, EPT_DBLBUF): DTOG cleared, SW_BUF set.
Configured == [up |-> TRUE, ring |-> <<>>, buf |-> <<0, 0>>, dtog |-> 0, sw |-> 1,
               kick |-> FALSE, ctr |-> FALSE, pc |-> "idle"]
Down == [Configured EXCEPT !.up = FALSE]

Init == ep = Configured /\ next = 0 /\ last = Numbers - 1

\* handle_dblbuf_rx_transfer(): frees the other buffer to the controller before it
\* copies this one.
Advance(e) ==
  IF Len(e.ring) = NBUF THEN [e EXCEPT !.ctr = FALSE, !.kick = TRUE]
  ELSE [e EXCEPT !.ctr = FALSE, !.kick = FALSE, !.sw = 1 - @,
                 !.ring = Append(@, e.buf[2 - e.sw])]

\* An OUT packet is acknowledged.
Received ==
  /\ ep.up /\ ep.dtog # ep.sw
  /\ ep' = [ep EXCEPT !.buf[ep.dtog + 1] = next, !.dtog = 1 - @, !.ctr = TRUE]
  /\ next' = (next + 1) % Numbers
  /\ UNCHANGED last

Irq == ep.ctr /\ ep' = Advance(ep) /\ UNCHANGED <<next, last>>

\* usbd_read() once usbd_ep_rx_ready(): copied, and only then consumed.
Read ==
  /\ ep.up /\ ep.pc = "idle" /\ ep.ring # <<>>
  /\ last' = Head(ep.ring)
  /\ ep' = [ep EXCEPT !.ring = Tail(@), !.pc = "test"]
  /\ UNCHANGED next

TestKick ==
  /\ ep.pc = "test"
  /\ ep' = [ep EXCEPT !.pc = IF ep.kick THEN "masked" ELSE "idle"]
  /\ UNCHANGED <<next, last>>

Kick ==
  /\ ep.pc = "masked"
  /\ ep' = [(IF ep.kick THEN Advance(ep) ELSE ep) EXCEPT !.pc = "idle"]
  /\ UNCHANGED <<next, last>>

BusReset == ep.pc = "idle" /\ ep.up /\ ep' = Down /\ UNCHANGED <<next, last>>
Configure == ~ep.up /\ ep' = Configured /\ UNCHANGED <<next, last>>

Next == Received \/ Irq \/ Read \/ TestKick \/ Kick \/ BusReset \/ Configure

MainLoop == Read \/ TestKick \/ Kick

\* A packet waits in the controller until the interrupt or the kick has moved it.
Waiting(e) == IF e.up /\ e.dtog = e.sw THEN <<e.buf[2 - e.sw]>> ELSE <<>>
Queue(e) == e.ring \o Waiting(e)
=============================================================================
