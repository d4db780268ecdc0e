------------------------------- MODULE DwcRx -------------------------------
(***************************************************************************)
(* The host-to-device endpoint of the STM32F7/AT32F415 driver               *)
(* (usb/hw_dwc_otg.c): a transfer of as many packets as the ring has room for *)
(* is posted to the controller; it ends when they have come, or with a short  *)
(* packet.  Packets and the end of a transfer pass through the controller's   *)
(* receive FIFO, which the main loop empties entry by entry.                *)
(***************************************************************************)
EXTENDS Naturals, Sequences

CONSTANTS Numbers,
          RxNr,        \* packets of the ring: a power of 2
          CounterMod   \* rxc and rxp are uint16_t: they wrap at a multiple of RxNr

\* ep: the ring rx with its counters rxc and rxp, active (rx_active); posted, fifo
\* and done (XFRC) are the controller's.  dead is a failed ASSERT.
VARIABLES ep, next, last

vars == <<ep, next, last>>

Masked(n) == (n % RxNr) + 1
Held(e) == (e.rxp + CounterMod - e.rxc) % CounterMod

\* prepare_rx()
PrepareRx(e) ==
  LET free == RxNr - Held(e)
  IN  IF e.active \/ free <= RxNr \div 2 THEN e
      ELSE [e EXCEPT !.posted = free, !.active = TRUE]

\* dwc_otg_configure_ep(0x02, ..)
Blank == [up |-> FALSE, rx |-> [i \in 1..RxNr |-> 0], rxc |-> 0, rxp |-> 0, active |-> FALSE,
          posted |-> 0, fifo |-> <<>>, done |-> FALSE, dead |-> FALSE]
Configured == PrepareRx([Blank EXCEPT !.up = TRUE])

Init == ep = Configured /\ next = 0 /\ last = Numbers - 1

Done == Numbers     \* the FIFO's entry for the end of a transfer

\* A packet is acknowledged; the last of the transfer, or a short one, ends it.
Received(short) ==
  /\ ep.up /\ ep.posted > 0
  /\ LET ends == short \/ ep.posted = 1
     IN  ep' = [ep EXCEPT !.posted = IF ends THEN 0 ELSE @ - 1,
                          !.fifo = @ \o IF ends THEN <<next, Done>> ELSE <<next>>]
  /\ next' = (next + 1) % Numbers
  /\ UNCHANGED last

\* handle_rx_transfer(), with its two ASSERTs.
PopFifo ==
  /\ ~ep.dead /\ ep.fifo # <<>>
  /\ ep' = IF Head(ep.fifo) = Done THEN [ep EXCEPT !.fifo = Tail(@), !.done = TRUE]
           ELSE IF ~ep.active \/ Held(ep) >= RxNr THEN [ep EXCEPT !.dead = TRUE]
           ELSE [ep EXCEPT !.fifo = Tail(@), !.rx[Masked(ep.rxp)] = Head(ep.fifo),
                           !.rxp = (@ + 1) % CounterMod]
  /\ UNCHANGED <<next, last>>

\* handle_oepint()
TransferEnds ==
  /\ ~ep.dead /\ ep.done
  /\ ep' = IF ~ep.active THEN [ep EXCEPT !.dead = TRUE]
           ELSE PrepareRx([ep EXCEPT !.done = FALSE, !.active = FALSE])
  /\ UNCHANGED <<next, last>>

\* dwc_otg_ep_rx_ready(), then dwc_otg_read().
Read ==
  /\ ~ep.dead /\ ep.up /\ Held(ep) # 0
  /\ last' = ep.rx[Masked(ep.rxc)]
  /\ ep' = PrepareRx([ep EXCEPT !.rxc = (@ + 1) % CounterMod])
  /\ UNCHANGED next

\* handle_reset() clears the soft state.
BusReset == ~ep.dead /\ ep.up /\ ep' = Blank /\ UNCHANGED <<next, last>>
Configure == ~ep.up /\ ep' = Configured /\ UNCHANGED <<next, last>>

Next == (\E short \in BOOLEAN : Received(short)) \/ PopFifo \/ TransferEnds \/ Read
        \/ BusReset \/ Configure

MainLoop == PopFifo \/ TransferEnds \/ Read

\* The FIFO's packets: the end of the transfer comes after them.
Packets(fifo) ==
  IF fifo # <<>> /\ fifo[Len(fifo)] = Done THEN SubSeq(fifo, 1, Len(fifo) - 1) ELSE fifo
Queue(e) == [i \in 1..Held(e) |-> e.rx[Masked(e.rxc + i - 1)]] \o Packets(e.fifo)
=============================================================================
