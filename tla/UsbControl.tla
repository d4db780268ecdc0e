----------------------------- MODULE UsbControl -----------------------------
(***************************************************************************)
(* Endpoint 0: control transfers (usb/core.c, usb/cdc_acm.c) over the         *)
(* single-buffered endpoint of usb/hw_usbd.c.                              *)
(*                                                                         *)
(* Simplifications.                                                        *)
(*  - A descriptor, a line coding or a status is n bytes, in units of which  *)
(*    EP0_MPS makes a packet.  Every packet carries the number of the        *)
(*    transfer it was produced for (history).                              *)
(*  - The host is external and follows the USB specification.  It assigns an *)
(*    address in the first transfer after a bus reset, as hosts do, and      *)
(*    gives no transfer up.                                                *)
(***************************************************************************)
EXTENDS Naturals, Integers

CONSTANTS EP0_MPS,     \* bytes of a packet
          DataSize,    \* bytes of ep0.data
          MaxLength    \* bound: wLength

VARIABLES
  dev,    \* the device: ep0, the endpoint's buffers and flags, its address
  host    \* the transfer under way, what came of it, the device's address

vars == <<dev, host>>

\* The requests: get a descriptor, a status or a line coding of n bytes; set the
\* address to n; set the configuration or the control lines; set the line coding;
\* and requests nobody handles.
Request ==
  [kind : {"get"}, in : {TRUE}, wLength : 0..MaxLength, n : 0..DataSize]
    \cup [kind : {"unknownGet"}, in : {TRUE}, wLength : 1..MaxLength, n : {0}]
    \cup [kind : {"address"}, in : {FALSE}, wLength : {0}, n : {1, 2}]
    \cup [kind : {"simple", "unknownSet"}, in : {FALSE}, wLength : {0}, n : {0}]
    \cup [kind : {"lineCoding"}, in : {FALSE}, wLength : 1..MaxLength, n : {0}]

None == [len |-> 0 - 1, id |-> 0, setup |-> FALSE]
Packet(len, id, isSetup) == [len |-> len, id |-> id, setup |-> isSetup]

\* handle_reset(): endpoint 0 set up at address 0.
InitDev == [req |-> [kind |-> "simple", in |-> FALSE, wLength |-> 0, n |-> 0], dataLen |-> -1,
            todo |-> -1, trunc |-> FALSE, for |-> 0,
            rx |-> None, tx |-> None, txReady |-> TRUE, ctrTx |-> FALSE, stalled |-> FALSE,
            addr |-> 0, pending |-> 0]
InitHost == [stage |-> "idle", req |-> InitDev.req, got |-> 0, alien |-> FALSE,
             ok |-> TRUE, addr |-> 0, id |-> 0, fresh |-> TRUE]

Init == dev = InitDev /\ host = InitHost

Smaller(a, b) == IF a < b THEN a ELSE b

\* A whole data stage ends with a short packet unless it is as long as asked for.
StageOverEarly(d, len) == TRUE                             \* mutant
StageOver(d, len) == ~d.trunc \/ len < EP0_MPS
\* usb_write_ep0()
WriteEp0(d) ==
  IF d.todo < 0 \/ ~d.txReady THEN d
  ELSE LET len  == Smaller(d.todo, EP0_MPS)
           left == d.todo - len
       IN  [d EXCEPT !.tx = Packet(len, d.for, FALSE), !.txReady = FALSE,
                     !.todo = IF left = 0 /\ StageOver(d, len) THEN -1 ELSE left]

\* handle_control_request(): whether the request is handled, and its effects.
Handled(r) ==
  /\ ~(~r.in /\ r.wLength > DataSize)
  /\ r.kind \notin {"unknownGet", "unknownSet"}
HandleUnclipped(d) ==                                      \* mutant
  [d EXCEPT !.pending = IF d.req.kind = "address" THEN d.req.n ELSE @,
            !.dataLen = IF d.req.in THEN d.req.n ELSE @]
HandleRequest(d) ==
  [d EXCEPT !.pending = IF d.req.kind = "address" THEN d.req.n ELSE @,
            !.dataLen = IF d.req.in THEN Smaller(d.req.n, d.req.wLength) ELSE @]

\* The end of handle_rx_ep0(), once the request is complete.
Respond(d) ==
  IF ~Handled(d.req) THEN [d EXCEPT !.stalled = TRUE, !.dataLen = -1]
  ELSE LET h == HandleRequest(d)
       IN  IF h.req.in
           THEN WriteEp0([h EXCEPT !.todo = h.dataLen, !.trunc = h.dataLen < h.req.wLength])
           ELSE [WriteEp0([h EXCEPT !.todo = 0, !.trunc = FALSE]) EXCEPT !.dataLen = -1]

\* handle_rx_ep0(): a SETUP, a packet out of place, data, or the host's status.
HandleRx(d, pkt) ==
  LET read == [d EXCEPT !.rx = None]
  IN  IF pkt.setup
      THEN LET s == [read EXCEPT !.req = host.req, !.for = pkt.id, !.dataLen = 0, !.todo = -1]
           IN  IF s.req.in \/ s.req.wLength = 0 THEN Respond(s) ELSE s
      ELSE IF d.dataLen < 0 THEN [read EXCEPT !.stalled = TRUE]
      ELSE IF ~d.req.in
      THEN LET len == d.dataLen + pkt.len
           IN  IF len >= d.req.wLength THEN Respond([read EXCEPT !.dataLen = d.req.wLength])
               ELSE [read EXCEPT !.dataLen = len]
      ELSE [read EXCEPT !.todo = -1, !.dataLen = -1]

\* usbd_process() with CTR_RX: looked at before CTR_TX of the same endpoint.
RxTransfer == dev.rx # None /\ dev' = HandleRx(dev, dev.rx) /\ UNCHANGED host

\* handle_tx_transfer(): and a pending address once the status stage is over.
AddressDue(d) == d.pending # 0 /\ d.todo = -1
ApplyAddress(d) == IF AddressDue(d) THEN [d EXCEPT !.addr = d.pending, !.pending = 0] ELSE d
TxTransfer ==
  /\ dev.ctrTx /\ dev.rx = None
  /\ dev' = ApplyAddress(WriteEp0([dev EXCEPT !.ctrTx = FALSE, !.txReady = TRUE]))
  /\ UNCHANGED host

\* handle_reset(), in the step in which the host resets the bus.
BusReset == ~host.fresh /\ dev' = InitDev /\ host' = InitHost

(*--------------------------------- the host -------------------------------*)
InStep == host.addr = dev.addr      \* the device answers at its address only

\* hw: a SETUP is always taken, and ends a stall; a buffer not yet sent is dropped.
StartTransfer(r) ==
  /\ host.stage = "idle" /\ InStep
  /\ r.kind = "address" => host.fresh
  /\ LET id == 1 - host.id
     IN  /\ host' = [host EXCEPT !.stage = "setup", !.req = r, !.got = 0, !.alien = FALSE,
                               !.id = id, !.fresh = FALSE]
         /\ dev' = [dev EXCEPT !.rx = Packet(8, id, TRUE), !.stalled = FALSE, !.tx = None]

\* The SETUP is acknowledged: on to the data stage, or to the status stage.
SetupDone ==
  /\ host.stage = "setup" /\ ~dev.rx.setup
  /\ host' = [host EXCEPT !.stage = IF host.req.wLength = 0 THEN "statusIn"
                                    ELSE IF host.req.in THEN "dataIn" ELSE "dataOut"]
  /\ UNCHANGED dev

Sent(d) == [d EXCEPT !.tx = None, !.ctrTx = TRUE]

\* A packet comes; with as many bytes as asked for, or a short one, it is the last.
DataIn ==
  /\ host.stage = "dataIn" /\ dev.tx # None /\ ~dev.stalled
  /\ LET got == host.got + dev.tx.len
     IN  host' = [host EXCEPT !.got = got, !.alien = @ \/ dev.tx.id # host.id,
                    !.stage = IF got >= host.req.wLength \/ dev.tx.len < EP0_MPS
                              THEN "statusOut" ELSE @]
  /\ dev' = Sent(dev)

DataOut ==
  /\ host.stage = "dataOut" /\ dev.rx = None
  /\ LET len == Smaller(host.req.wLength - host.got, EP0_MPS)
     IN  /\ host' = [host EXCEPT !.got = @ + len,
                       !.stage = IF host.got + len = host.req.wLength THEN "statusIn" ELSE @]
         /\ dev' = [dev EXCEPT !.rx = Packet(len, host.id, FALSE)]

StatusOut ==
  /\ host.stage = "statusOut" /\ dev.rx = None
  /\ host' = [host EXCEPT !.stage = "idle", !.ok = TRUE]
  /\ dev' = [dev EXCEPT !.rx = Packet(0, host.id, FALSE)]

\* The device's status is an empty packet; with SET_ADDRESS it is what makes the
\* host use the new address.
StatusIn ==
  /\ host.stage = "statusIn" /\ dev.tx # None /\ ~dev.stalled /\ InStep
  /\ host' = [host EXCEPT !.stage = "idle", !.ok = TRUE,
                !.alien = @ \/ dev.tx.id # host.id \/ dev.tx.len # 0,
                !.addr = IF host.req.kind = "address" THEN host.req.n ELSE @]
  /\ dev' = Sent(dev)

Stalled ==
  /\ host.stage \in {"dataIn", "statusIn"} /\ dev.stalled
  /\ host' = [host EXCEPT !.stage = "idle", !.ok = FALSE]
  /\ UNCHANGED dev

Host == SetupDone \/ DataIn \/ DataOut \/ StatusOut \/ StatusIn \/ Stalled
Next == RxTransfer \/ TxTransfer \/ BusReset \/ (\E r \in Request : StartTransfer(r)) \/ Host

MainLoop == RxTransfer \/ TxTransfer
=============================================================================
