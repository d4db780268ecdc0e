------------------------------- MODULE At32Tx -------------------------------
(***************************************************************************)
(* The device-to-host bulk endpoint of the AT32F4 driver                   *)
(* (usb/hw_usbd_at32f4.c): a ring of NBUF packets that the main loop fills,   *)
(* and two packet buffers of the controller that the USB interrupt refills.  *)
(* The main loop has to start the interrupt's chain when it is idle (kick). *)
(*                                                                         *)
(* The controller is external: it sends the buffer that DTOG names while    *)
(* SW_BUF names the other one, toggles DTOG and raises CTR_TX.             *)
(***************************************************************************)
EXTENDS Naturals, Sequences

CONSTANTS Numbers,   \* packets are numbered modulo this
          NBUF       \* packets of the ring

\* ep: ring, the controller's buffers, its toggles dtog and sw, CTR, and the
\* driver's kick and slots (tx_hw_slots); pc is where usb_write() is.
VARIABLES ep, next, last

vars == <<ep, next, last>>

\* usbd_configure_ep(0x83, EPT_DBLBUF): DTOG and SW_BUF cleared.
Configured == [up |-> TRUE, ring |-> <<>>, buf |-> <<0, 0>>, dtog |-> 0, sw |-> 0,
               slots |-> 0, kick |-> TRUE, ctr |-> FALSE, pc |-> "idle"]
\* handle_reset() clears the endpoint's soft state: not double-buffered, not ready.
Down == [Configured EXCEPT !.up = FALSE, !.kick = FALSE]

Init == ep = Configured /\ next = 0 /\ last = Numbers - 1

\* stuff_dblbuf_tx_packet(): into the buffer that SW_BUF names.
Stuff(e) == [e EXCEPT !.buf[e.sw + 1] = Head(e.ring), !.ring = Tail(@), !.slots = @ + 1]

\* handle_dblbuf_tx_transfer()
Advance(e) ==
  IF e.ring = <<>> /\ e.slots = 0 THEN [e EXCEPT !.kick = TRUE]
  ELSE LET filled  == IF e.slots = 0 THEN Stuff(e) ELSE e
           toggled == [filled EXCEPT !.kick = FALSE, !.sw = 1 - @]
       IN  IF toggled.slots = 1 /\ toggled.ring # <<>> THEN Stuff(toggled) ELSE toggled

\* usbd_write() once usbd_ep_tx_ready(): the packet goes into the ring, then ...
Write ==
  /\ ep.up /\ ep.pc = "idle" /\ Len(ep.ring) < NBUF
  /\ ep' = [ep EXCEPT !.ring = Append(@, next), !.pc = "test"]
  /\ next' = (next + 1) % Numbers
  /\ UNCHANGED last

\* ... kick is tested, with the interrupt still enabled, and ...
TestKick ==
  /\ ep.pc = "test"
  /\ ep' = [ep EXCEPT !.pc = IF ep.kick THEN "masked" ELSE "idle"]
  /\ UNCHANGED <<next, last>>

\* ... tested again with the interrupt masked.
Kick ==
  /\ ep.pc = "masked"
  /\ ep' = [(IF ep.kick THEN Advance(ep) ELSE ep) EXCEPT !.pc = "idle"]
  /\ UNCHANGED <<next, last>>

\* IRQ_USB_HP: a buffer was sent.
Irq ==
  /\ ep.ctr
  /\ ep' = Advance([ep EXCEPT !.ctr = FALSE, !.slots = @ - 1])
  /\ UNCHANGED <<next, last>>

\* The host's IN token finds a buffer that is the controller's.
Sent ==
  /\ ep.up /\ ep.dtog # ep.sw
  /\ last' = ep.buf[ep.dtog + 1]
  /\ ep' = [ep EXCEPT !.dtog = 1 - @, !.ctr = TRUE]
  /\ UNCHANGED next

\* The main loop sees the bus reset, and later SET_CONFIGURATION.
BusReset == ep.pc = "idle" /\ ep.up /\ ep' = Down /\ UNCHANGED <<next, last>>
Configure == ~ep.up /\ ep' = Configured /\ UNCHANGED <<next, last>>

Next == Write \/ TestKick \/ Kick \/ Irq \/ Sent \/ BusReset \/ Configure

MainLoop == TestKick \/ Kick

\* What is under way: the controller's buffers in the order it sends them, then
\* the ring.
Sending(e) == e.slots - (IF e.ctr THEN 1 ELSE 0)
Held(e) ==
  LET first == e.buf[e.dtog + 1]
      other == e.buf[2 - e.dtog]
  IN  IF Sending(e) = 0 THEN <<>> ELSE IF Sending(e) = 1 THEN <<first>> ELSE <<first, other>>
Queue(e) == Held(e) \o e.ring
=============================================================================
