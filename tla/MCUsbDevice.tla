----------------------------- MODULE MCUsbDevice -----------------------------
(***************************************************************************)
(* The parts of the USB device for TLC.  They do not share state: a behaviour *)
(* is one part's, chosen in the initial state.                             *)
(***************************************************************************)
EXTENDS Naturals, Sequences

CONSTANTS Numbers, NBUF, RxNr, CounterMod, EP0_MPS, DataSize, MaxLength

\* Rings hold a packet; the counters of DwcRx wrap at a multiple of its ring.
ASSUME NumbersAssumption == Numbers \in Nat \ {0}
ASSUME RingAssumption ==
  /\ NBUF \in Nat \ {0} /\ RxNr \in Nat \ {0}
  /\ CounterMod \in Nat /\ CounterMod > RxNr /\ CounterMod % RxNr = 0
ASSUME ControlAssumption == EP0_MPS \in Nat \ {0} /\ DataSize \in Nat /\ MaxLength \in Nat

VARIABLES part, ep, next, last, dev, host

vars == <<part, ep, next, last, dev, host>>

AT == INSTANCE At32Tx
AR == INSTANCE At32Rx
ST == INSTANCE Stm32Tx
SR == INSTANCE Stm32Rx
DW == INSTANCE DwcRx
CT == INSTANCE UsbControl

PipeInit ==
  /\ \/ part = "at32tx" /\ AT!Init
     \/ part = "at32rx" /\ AR!Init
     \/ part = "stm32tx" /\ ST!Init
     \/ part = "stm32rx" /\ SR!Init
     \/ part = "dwcrx" /\ DW!Init
  /\ CT!Init
Init == PipeInit \/ (part = "control" /\ CT!Init /\ ep = 0 /\ next = 0 /\ last = Numbers - 1)

Pipe == UNCHANGED <<part, dev, host>>
Next ==
  \/ part = "at32tx" /\ AT!Next /\ Pipe
  \/ part = "at32rx" /\ AR!Next /\ Pipe
  \/ part = "stm32tx" /\ ST!Next /\ Pipe
  \/ part = "stm32rx" /\ SR!Next /\ Pipe
  \/ part = "dwcrx" /\ DW!Next /\ Pipe
  \/ part = "control" /\ CT!Next /\ UNCHANGED <<part, ep, next, last>>

\* The main loop turns, interrupts are served, and the controller and the host
\* move packets.
MainLoop ==
  \/ part = "at32tx" /\ AT!MainLoop /\ Pipe
  \/ part = "at32rx" /\ AR!MainLoop /\ Pipe
  \/ part = "stm32tx" /\ ST!MainLoop /\ Pipe
  \/ part = "stm32rx" /\ SR!MainLoop /\ Pipe
  \/ part = "dwcrx" /\ DW!MainLoop /\ Pipe
  \/ part = "control" /\ CT!MainLoop /\ UNCHANGED <<part, ep, next, last>>
Interrupt == (part = "at32tx" /\ AT!Irq /\ Pipe) \/ (part = "at32rx" /\ AR!Irq /\ Pipe)
Line ==
  \/ part = "at32tx" /\ AT!Sent /\ Pipe
  \/ part = "stm32tx" /\ ST!Sent /\ Pipe
  \/ part = "control" /\ CT!Host /\ UNCHANGED <<part, ep, next, last>>
Spec == Init /\ [][Next]_vars /\ WF_vars(MainLoop) /\ WF_vars(Interrupt) /\ WF_vars(Line)

queue ==
  CASE part = "at32tx"  -> AT!Queue(ep)
    [] part = "at32rx"  -> AR!Queue(ep)
    [] part = "stm32tx" -> ST!Queue(ep)
    [] part = "stm32rx" -> SR!Queue(ep)
    [] part = "dwcrx"   -> DW!Queue(ep)
    [] OTHER            -> <<>>
PP == INSTANCE PacketPipe WITH Capacity <- RxNr

\* Every bulk endpoint is a queue: whatever the order of main loop, interrupt and
\* line, each packet comes out once and in order, and does come out.
ImplementsPipe == PP!Spec

\* The endpoint has room for a packet from whoever puts them.
Open ==
  CASE part = "at32tx"  -> ep.up /\ ep.pc = "idle" /\ Len(ep.ring) < NBUF
    [] part = "at32rx"  -> ep.up /\ ep.dtog # ep.sw
    [] part = "stm32tx" -> ep.up /\ ep.pc = "idle" /\ ep.ready
    [] part = "stm32rx" -> ep.up /\ ~ep.stopped
    [] part = "dwcrx"   -> ep.up /\ ep.posted > 0
    [] part = "control" -> host.stage = "idle" /\ CT!InStep
\* An endpoint that is full opens again, and a control transfer ends with host and
\* device at the same address: no order of events wedges the device.
NeverWedged == []<>(Open \/ (part # "control" /\ ~ep.up))

\* A transfer that succeeds has moved what was asked for and is there, all of it
\* produced for this transfer.
TransferIsExact ==
  part = "control" /\ host.stage = "idle" /\ host.ok =>
    /\ ~host.alien
    /\ host.req.in => host.got = CT!Smaller(host.req.n, host.req.wLength)
=============================================================================
