--------------------------- MODULE EndpointProofs ---------------------------
(***************************************************************************)
(* The USB device.  Every bulk endpoint of the three controller drivers is a   *)
(* queue of packets, for every size of its ring: each step of At32Tx, At32Rx,  *)
(* Stm32Tx, Stm32Rx and DwcRx is a step of PacketPipe, or leaves what is under *)
(* way as it was (ImplementsPipe checks the same, and that packets do come     *)
(* out).  On endpoint 0 a transfer that succeeds is exact, for every size of   *)
(* packet and of data.                                                       *)
(***************************************************************************)
EXTENDS MCUsbDevice, Integers, TLAPS

(******************** the AT32F4's, towards the host *********************)

ATP == INSTANCE PacketPipe WITH queue <- AT!Queue(ep), Capacity <- NBUF + 2

\* What the endpoint is while it runs; slots are tx_hw_slots.
AtStates ==
  [up : BOOLEAN, ring : Seq(Nat), buf : [1 .. 2 -> Nat], dtog : 0 .. 1, sw : 0 .. 1, slots : 0 .. 2,
   kick : BOOLEAN, ctr : BOOLEAN, pc : {"idle", "test", "masked"}]

\* At rest, or with buffers the controller is to send, or has just sent.
AtQuiet(e)   == e.slots = 0 /\ ~e.ctr /\ e.dtog = e.sw
AtSending(e) == e.slots # 0 /\ ~e.ctr /\ e.dtog # e.sw
AtSent(e)    == e.slots # 0 /\ e.ctr /\ e.dtog = e.sw

\* stuff_dblbuf_tx_packet() moves the oldest packet of the ring into a buffer.
LEMMA StuffFields ==
  ASSUME NEW e \in AtStates, e.ring # <<>>, e.slots \in {0, 1}
  PROVE  /\ AT!Stuff(e) \in AtStates
         /\ AT!Stuff(e).ring = Tail(e.ring) /\ AT!Stuff(e).slots = e.slots + 1
         /\ AT!Stuff(e).buf = [e.buf EXCEPT ![e.sw + 1] = Head(e.ring)]
         /\ AT!Stuff(e).up = e.up /\ AT!Stuff(e).dtog = e.dtog /\ AT!Stuff(e).sw = e.sw
         /\ AT!Stuff(e).kick = e.kick /\ AT!Stuff(e).ctr = e.ctr /\ AT!Stuff(e).pc = e.pc
<1> DEFINE s == AT!Stuff(e)
<1>1. Tail(e.ring) \in Seq(Nat) /\ Head(e.ring) \in Nat /\ e.slots + 1 \in 0 .. 2 /\ e.sw + 1 \in 1 .. 2
  BY DEF AtStates
<1>2. [e.buf EXCEPT ![e.sw + 1] = Head(e.ring)] \in [1 .. 2 -> Nat]
  BY <1>1 DEF AtStates
<1>3. s.ring = Tail(e.ring) /\ s.slots = e.slots + 1 /\ s.buf = [e.buf EXCEPT ![e.sw + 1] = Head(e.ring)]
  BY DEF AT!Stuff, AtStates
<1>4. /\ s.up = e.up /\ s.dtog = e.dtog /\ s.sw = e.sw
      /\ s.kick = e.kick /\ s.ctr = e.ctr /\ s.pc = e.pc
  BY DEF AT!Stuff, AtStates
<1>5. s \in AtStates
  BY <1>1, <1>2, <1>3, <1>4 DEF AT!Stuff, AtStates
<1> QED BY <1>3, <1>4, <1>5

\* What is under way, by how many buffers are the controller's to send.
LEMMA AtQueue ==
  ASSUME NEW e \in AtStates
  PROVE  /\ AT!Sending(e) = 0 => AT!Queue(e) = e.ring
         /\ AT!Sending(e) = 1 => AT!Queue(e) = <<e.buf[e.dtog + 1]>> \o e.ring
         /\ AT!Sending(e) = 2 => AT!Queue(e) = <<e.buf[e.dtog + 1], e.buf[2 - e.dtog]>> \o e.ring
<1>1. <<>> \o e.ring = e.ring
  BY DEF AtStates
<1>2. ASSUME AT!Sending(e) = 0 PROVE AT!Queue(e) = <<>> \o e.ring
  BY <1>2 DEF AT!Queue, AT!Held
<1>3. ASSUME AT!Sending(e) = 1 PROVE AT!Queue(e) = <<e.buf[e.dtog + 1]>> \o e.ring
  BY <1>3 DEF AT!Queue, AT!Held
<1>4. ASSUME AT!Sending(e) = 2 PROVE AT!Queue(e) = <<e.buf[e.dtog + 1], e.buf[2 - e.dtog]>> \o e.ring
  BY <1>4 DEF AT!Queue, AT!Held
<1> QED BY <1>1, <1>2, <1>3, <1>4

\* A buffer that was sent counts as a slot until the interrupt has seen it.
LEMMA AtSendingIs ==
  ASSUME NEW e \in AtStates
  PROVE  /\ ~e.ctr => AT!Sending(e) = e.slots
         /\ e.ctr => AT!Sending(e) = e.slots - 1
BY DEF AT!Sending, AtStates

\* The queue depends on the ring, the buffers, DTOG and how many are to be sent.
LEMMA AtSameQueue ==
  ASSUME NEW e \in AtStates, NEW f \in AtStates, AT!Sending(e) \in {0, 1, 2},
         AT!Sending(f) = AT!Sending(e), f.ring = e.ring, f.buf = e.buf, f.dtog = e.dtog
  PROVE  AT!Queue(f) = AT!Queue(e)
<1>1. CASE AT!Sending(e) = 0
  BY <1>1, AtQueue
<1>2. CASE AT!Sending(e) = 1
  BY <1>2, AtQueue
<1>3. CASE AT!Sending(e) = 2
  BY <1>3, AtQueue
<1> QED BY <1>1, <1>2, <1>3

\* Both buffers are packets.
LEMMA AtBuffers ==
  ASSUME NEW e \in AtStates
  PROVE  e.buf[e.dtog + 1] \in Nat /\ e.buf[2 - e.dtog] \in Nat /\ e.ring \in Seq(Nat)
<1>1. e.dtog + 1 \in 1 .. 2 /\ 2 - e.dtog \in 1 .. 2
  BY DEF AtStates
<1> QED BY <1>1 DEF AtStates

\* handle_dblbuf_tx_transfer() moves packets from the ring to the buffers, in order,
\* and asks to be kicked only when nothing is left.
LEMMA AtAdvance ==
  ASSUME NEW e \in AtStates, ~e.ctr, e.dtog = e.sw, e.slots \in {0, 1}
  PROVE  /\ AT!Advance(e) \in AtStates
         /\ AtQuiet(AT!Advance(e)) \/ AtSending(AT!Advance(e))
         /\ AT!Advance(e).kick => AtQuiet(AT!Advance(e))
         /\ AT!Queue(AT!Advance(e)) = AT!Queue(e)
         /\ Len(AT!Advance(e).ring) <= Len(e.ring) /\ AT!Advance(e).up = e.up /\ AT!Advance(e).pc = e.pc
<1>1. CASE e.ring = <<>> /\ e.slots = 0
  <2>1. AT!Advance(e) = [e EXCEPT !.kick = TRUE]
    BY <1>1 DEF AT!Advance
  <2>2. AT!Advance(e) \in AtStates
    BY <2>1 DEF AtStates
  <2>3. AT!Advance(e).slots = 0 /\ ~AT!Advance(e).ctr /\ AT!Advance(e).dtog = AT!Advance(e).sw
        /\ AT!Advance(e).ring = e.ring /\ AT!Advance(e).up = e.up /\ AT!Advance(e).pc = e.pc
    BY <1>1, <2>1 DEF AtStates
  <2>4. AT!Sending(AT!Advance(e)) = 0 /\ AT!Sending(e) = 0
    BY <1>1, <2>2, <2>3, AtSendingIs
  <2>5. AT!Queue(AT!Advance(e)) = e.ring /\ AT!Queue(e) = e.ring
    BY <2>2, <2>3, <2>4, AtQueue
  <2>6. Len(e.ring) \in Nat
    BY DEF AtStates
  <2> QED BY <2>2, <2>3, <2>5, <2>6 DEF AtQuiet
<1>2. CASE ~(e.ring = <<>> /\ e.slots = 0)
  <2> DEFINE f == IF e.slots = 0 THEN AT!Stuff(e) ELSE e
             t == [f EXCEPT !.kick = FALSE, !.sw = 1 - @]
             g == IF t.slots = 1 /\ t.ring # <<>> THEN AT!Stuff(t) ELSE t
  <2>1. AT!Advance(e) = g
    BY <1>2 DEF AT!Advance
  <2>2. /\ f \in AtStates /\ f.slots = 1 /\ ~f.ctr /\ f.dtog = e.dtog /\ f.sw = e.sw /\ f.up = e.up
        /\ f.pc = e.pc
        /\ AT!Queue(e) = <<f.buf[f.dtog + 1]>> \o f.ring
        /\ Len(f.ring) <= Len(e.ring) /\ f.buf[f.dtog + 1] \in Nat /\ f.ring \in Seq(Nat)
    <3>1. CASE e.slots = 0
      <4>1. f = AT!Stuff(e) /\ e.ring # <<>>
        BY <1>2, <3>1
      <4>2. /\ f \in AtStates /\ f.ring = Tail(e.ring) /\ f.slots = 1
            /\ f.buf = [e.buf EXCEPT ![e.sw + 1] = Head(e.ring)]
            /\ f.up = e.up /\ f.dtog = e.dtog /\ f.sw = e.sw /\ f.ctr = e.ctr /\ f.pc = e.pc
        BY <3>1, <4>1, StuffFields
      <4>3. f.buf[f.dtog + 1] = Head(e.ring)
        BY <4>2 DEF AtStates
      <4>4. /\ e.ring = <<Head(e.ring)>> \o Tail(e.ring) /\ Len(Tail(e.ring)) <= Len(e.ring)
            /\ Head(e.ring) \in Nat /\ Tail(e.ring) \in Seq(Nat)
        BY <4>1 DEF AtStates
      <4>5. AT!Queue(e) = e.ring
        <5>1. AT!Sending(e) = 0
          BY <3>1, AtSendingIs
        <5> QED BY <5>1, AtQueue
      <4> HIDE DEF f
      <4> QED BY <4>2, <4>3, <4>4, <4>5
    <3>2. CASE e.slots # 0
      <4>1. f = e /\ e.slots = 1
        BY <3>2 DEF AtStates
      <4>2. AT!Sending(e) = 1
        BY <4>1, AtSendingIs
      <4>3. AT!Queue(e) = <<e.buf[e.dtog + 1]>> \o e.ring /\ e.buf[e.dtog + 1] \in Nat
        BY <4>2, AtQueue, AtBuffers
      <4> QED BY <4>1, <4>3 DEF AtStates
    <3> QED BY <3>1, <3>2
  <2> HIDE DEF f
  <2>3. /\ t \in AtStates /\ t.slots = 1 /\ ~t.ctr /\ t.dtog = f.dtog /\ t.sw = 1 - f.sw /\ t.up = f.up
        /\ t.pc = f.pc /\ t.buf = f.buf /\ t.ring = f.ring /\ ~t.kick
    <3>1. 1 - f.sw \in 0 .. 1
      BY <2>2 DEF AtStates
    <3>2. t.kick = FALSE /\ t.sw = 1 - f.sw /\ t.slots = f.slots /\ t.ctr = f.ctr
      BY <2>2 DEF AtStates
    <3>3. t.dtog = f.dtog /\ t.up = f.up /\ t.pc = f.pc /\ t.buf = f.buf /\ t.ring = f.ring
      BY <2>2 DEF AtStates
    <3>4. t \in AtStates
      BY <2>2, <3>1, <3>2, <3>3 DEF AtStates
    <3> HIDE DEF t
    <3> QED BY <2>2, <3>2, <3>3, <3>4
  <2>4. t.dtog # t.sw
    BY <2>2, <2>3 DEF AtStates
  <2> HIDE DEF t
  <2>5. CASE t.ring = <<>>
    <3>1. g = t
      BY <2>5
    <3>2. AT!Queue(t) = <<t.buf[t.dtog + 1]>> \o t.ring
      <4>1. AT!Sending(t) = 1
        BY <2>3, AtSendingIs
      <4> QED BY <2>3, <4>1, AtQueue
    <3> QED BY <2>1, <2>2, <2>3, <2>4, <3>1, <3>2 DEF AtSending
  <2>6. CASE t.ring # <<>>
    <3>1. g = AT!Stuff(t)
      BY <2>3, <2>6
    <3> HIDE DEF g
    <3>2. /\ g \in AtStates /\ g.ring = Tail(t.ring) /\ g.slots = 2
          /\ g.buf = [t.buf EXCEPT ![t.sw + 1] = Head(t.ring)]
          /\ g.up = t.up /\ g.dtog = t.dtog /\ g.sw = t.sw /\ g.ctr = t.ctr /\ g.pc = t.pc
          /\ g.kick = t.kick
      <4>1. t \in AtStates /\ t.ring # <<>> /\ t.slots \in {0, 1} /\ t.slots + 1 = 2
        BY <2>3, <2>6
      <4> QED BY <3>1, <4>1, StuffFields
    <3>3. g.buf[g.dtog + 1] = t.buf[t.dtog + 1] /\ g.buf[2 - g.dtog] = Head(t.ring)
      BY <2>3, <2>4, <3>2 DEF AtStates
    <3>4. AT!Queue(g) = <<g.buf[g.dtog + 1], g.buf[2 - g.dtog]>> \o g.ring
      <4>1. AT!Sending(g) = 2
        BY <2>3, <3>2, AtSendingIs
      <4> QED BY <3>2, <4>1, AtQueue
    <3>5. /\ <<t.buf[t.dtog + 1], Head(t.ring)>> \o Tail(t.ring) = <<t.buf[t.dtog + 1]>> \o t.ring
          /\ Len(Tail(t.ring)) <= Len(t.ring)
      BY <2>2, <2>3, <2>6
    <3>6. AT!Queue(g) = AT!Queue(e)
      BY <2>2, <2>3, <3>2, <3>3, <3>4, <3>5
    <3>7. Len(g.ring) <= Len(e.ring)
      <4>1. Len(Tail(t.ring)) \in Nat /\ Len(t.ring) \in Nat /\ Len(e.ring) \in Nat
        BY <2>2, <2>3, <2>6 DEF AtStates
      <4> QED BY <2>2, <2>3, <3>2, <3>5, <4>1
    <3>8. AtSending(g)
      BY <2>3, <2>4, <3>2 DEF AtSending
    <3> QED BY <2>1, <2>2, <2>3, <3>2, <3>6, <3>7, <3>8
  <2> QED BY <2>5, <2>6
<1> QED BY <1>1, <1>2

\* The inductive invariant.  The main loop kicks only an endpoint at rest, so that
\* its kick and the interrupt's chain never meet.
AtInv ==
  /\ ep \in AtStates /\ next \in Nat /\ Len(ep.ring) <= NBUF
  /\ AtQuiet(ep) \/ AtSending(ep) \/ AtSent(ep)
  /\ ep.kick => AtQuiet(ep)
  /\ ~ep.up => AtQuiet(ep) /\ ep.ring = <<>> /\ ep.pc = "idle"

\* usbd_configure_ep() and handle_reset() leave empty buffers and an empty ring.
LEMMA AtBlank ==
  /\ AT!Configured \in AtStates /\ AtQuiet(AT!Configured) /\ AT!Queue(AT!Configured) = <<>>
  /\ AT!Configured.ring = <<>> /\ AT!Configured.pc = "idle" /\ AT!Configured.up
  /\ AT!Down \in AtStates /\ AtQuiet(AT!Down) /\ AT!Queue(AT!Down) = <<>>
  /\ AT!Down.ring = <<>> /\ AT!Down.pc = "idle" /\ ~AT!Down.kick
<1>1. /\ AT!Configured \in AtStates /\ AtQuiet(AT!Configured)
      /\ AT!Configured.ring = <<>> /\ AT!Configured.pc = "idle" /\ AT!Configured.up
      /\ AT!Configured.slots = 0 /\ ~AT!Configured.ctr
  BY DEF AT!Configured, AtStates, AtQuiet
<1>2. /\ AT!Down \in AtStates /\ AtQuiet(AT!Down)
      /\ AT!Down.ring = <<>> /\ AT!Down.pc = "idle" /\ ~AT!Down.kick
      /\ AT!Down.slots = 0 /\ ~AT!Down.ctr
  <2>1. /\ AT!Down.ring = <<>> /\ AT!Down.pc = "idle" /\ AT!Down.kick = FALSE /\ AT!Down.up = FALSE
        /\ AT!Down.slots = 0 /\ AT!Down.ctr = FALSE /\ AT!Down.dtog = 0 /\ AT!Down.sw = 0
    BY DEF AT!Down, AT!Configured
  <2>2. AT!Down \in AtStates
    BY <1>1 DEF AT!Down, AtStates
  <2> QED BY <2>1, <2>2 DEF AtQuiet
<1>3. AT!Sending(AT!Configured) = 0 /\ AT!Sending(AT!Down) = 0
  BY <1>1, <1>2, AtSendingIs
<1> QED BY <1>1, <1>2, <1>3, AtQueue

\* The ring and two buffers are all there is to hold.
LEMMA AtLength ==
  ASSUME AtInv
  PROVE  /\ AT!Queue(ep) \in Seq(Nat) /\ Len(AT!Queue(ep)) <= Len(ep.ring) + 2
<1> DEFINE a == ep.buf[ep.dtog + 1]
           b == ep.buf[2 - ep.dtog]
<1>1. a \in Nat /\ b \in Nat /\ ep.ring \in Seq(Nat)
  BY AtBuffers DEF AtInv
<1> HIDE DEF a, b
<1>2. /\ ep.ring \in Seq(Nat) /\ Len(ep.ring) <= Len(ep.ring) + 2
      /\ <<a>> \o ep.ring \in Seq(Nat) /\ Len(<<a>> \o ep.ring) <= Len(ep.ring) + 2
      /\ <<a, b>> \o ep.ring \in Seq(Nat) /\ Len(<<a, b>> \o ep.ring) <= Len(ep.ring) + 2
  BY <1>1
<1>3. AT!Sending(ep) \in {0, 1, 2}
  BY AtSendingIs DEF AtInv, AtQuiet, AtSending, AtSent, AtStates
<1> QED BY <1>2, <1>3, AtQueue DEF AtInv, a, b

\* Every step keeps the invariant, and puts a packet, gets one, empties the queue or
\* leaves it.
LEMMA AtStep ==
  ASSUME AtInv, [AT!Next]_(AT!vars)
  PROVE  AtInv' /\ [ATP!Next]_(ATP!vars)
<1>1. CASE AT!Write
  <2> DEFINE r == Append(ep.ring, next)
  <2>1. /\ ep.up /\ Len(ep.ring) < NBUF /\ ep' = [ep EXCEPT !.ring = r, !.pc = "test"]
        /\ next' = (next + 1) % Numbers /\ last' = last
    BY <1>1 DEF AT!Write
  <2>2. /\ r \in Seq(Nat) /\ Len(r) <= NBUF
    BY <2>1, RingAssumption DEF AtInv, AtStates
  <2>3. next' \in Nat
    BY <2>1, NumbersAssumption DEF AtInv
  <2> HIDE DEF r
  <2>4. /\ ep' \in AtStates /\ ep'.ring = r /\ ep'.buf = ep.buf /\ ep'.dtog = ep.dtog
        /\ ep'.sw = ep.sw /\ ep'.slots = ep.slots /\ ep'.ctr = ep.ctr /\ ep'.kick = ep.kick /\ ep'.up = ep.up
    BY <2>1, <2>2 DEF AtInv, AtStates
  <2>5. AT!Sending(ep') = AT!Sending(ep)
    BY <2>4, AtSendingIs DEF AtInv
  <2>6. AT!Queue(ep') = Append(AT!Queue(ep), next)
    <3>1. AT!Sending(ep) \in {0, 1, 2}
      BY AtSendingIs DEF AtInv, AtQuiet, AtSending, AtSent, AtStates
    <3> DEFINE a == ep.buf[ep.dtog + 1]
               b == ep.buf[2 - ep.dtog]
    <3>2. a \in Nat /\ b \in Nat /\ ep.ring \in Seq(Nat) /\ next \in Nat
      BY AtBuffers DEF AtInv
    <3>3. ep'.buf[ep'.dtog + 1] = a /\ ep'.buf[2 - ep'.dtog] = b
      BY <2>4
    <3> HIDE DEF a, b
    <3>4. /\ <<a>> \o r = Append(<<a>> \o ep.ring, next)
          /\ <<a, b>> \o r = Append(<<a, b>> \o ep.ring, next)
      <4>1. <<a>> \o r = Append(<<a>> \o ep.ring, next)
        BY <3>2 DEF r
      <4>2. <<a, b>> \o r = Append(<<a, b>> \o ep.ring, next)
        <5>1. <<a, b>> \in Seq(Nat)
          BY <3>2
        <5> DEFINE w == <<a, b>>
        <5>2. w \in Seq(Nat)
          BY <5>1
        <5> HIDE DEF w
        <5>3. w \o Append(ep.ring, next) = Append(w \o ep.ring, next)
          BY <3>2, <5>2
        <5> QED BY <5>3 DEF r, w
      <4> QED BY <4>1, <4>2
    <3>5. CASE AT!Sending(ep) = 0
      BY <2>4, <2>5, <3>5, AtQueue DEF AtInv, r
    <3>6. CASE AT!Sending(ep) = 1
      <4>1. AT!Queue(ep') = <<a>> \o r
        BY <2>4, <2>5, <3>3, <3>6, AtQueue
      <4>2. AT!Queue(ep) = <<a>> \o ep.ring
        BY <3>6, AtQueue DEF AtInv, a
      <4> QED BY <3>4, <4>1, <4>2
    <3>7. CASE AT!Sending(ep) = 2
      <4>1. AT!Queue(ep') = <<a, b>> \o r
        BY <2>4, <2>5, <3>3, <3>7, AtQueue
      <4>2. AT!Queue(ep) = <<a, b>> \o ep.ring
        BY <3>7, AtQueue DEF AtInv, a, b
      <4> QED BY <3>4, <4>1, <4>2
    <3> QED BY <3>1, <3>5, <3>6, <3>7
  <2>7. ATP!Put
    <3>1. Len(AT!Queue(ep)) < NBUF + 2
      BY <2>1, AtLength, RingAssumption DEF AtInv, AtStates
    <3> QED BY <2>1, <2>6, <3>1 DEF ATP!Put
  <2>8. AtInv'
    BY <2>1, <2>2, <2>3, <2>4 DEF AtInv, AtQuiet, AtSending, AtSent
  <2> QED BY <2>7, <2>8 DEF ATP!Next
<1>2. CASE AT!TestKick
  <2>1. /\ ep' \in AtStates /\ ep'.ring = ep.ring /\ ep'.buf = ep.buf /\ ep'.dtog = ep.dtog
        /\ ep'.sw = ep.sw /\ ep'.slots = ep.slots /\ ep'.ctr = ep.ctr /\ ep'.kick = ep.kick /\ ep'.up = ep.up
        /\ next' = next /\ last' = last /\ ep.up
    BY <1>2 DEF AT!TestKick, AtInv, AtStates
  <2>2. AtInv'
    BY <2>1 DEF AtInv, AtQuiet, AtSending, AtSent
  <2>3. AT!Sending(ep') = AT!Sending(ep)
    BY <2>1, AtSendingIs DEF AtInv
  <2>4. AT!Queue(ep') = AT!Queue(ep)
    <3>1. AT!Sending(ep) \in {0, 1, 2}
      BY AtSendingIs DEF AtInv, AtQuiet, AtSending, AtSent, AtStates
    <3> QED BY <2>1, <2>3, <3>1, AtSameQueue DEF AtInv
  <2> QED BY <2>1, <2>2, <2>4 DEF ATP!vars
<1>3. CASE AT!Kick
  <2> DEFINE f == IF ep.kick THEN AT!Advance(ep) ELSE ep
  <2>1. ep' = [f EXCEPT !.pc = "idle"] /\ next' = next /\ last' = last /\ ep.up
    BY <1>3 DEF AT!Kick, AtInv
  <2>2. /\ f \in AtStates /\ (AtQuiet(f) \/ AtSending(f) \/ AtSent(f)) /\ (f.kick => AtQuiet(f))
        /\ AT!Queue(f) = AT!Queue(ep) /\ Len(f.ring) <= NBUF /\ f.up
    <3>1. CASE ep.kick
      <4>1. ~ep.ctr /\ ep.dtog = ep.sw /\ ep.slots \in {0, 1} /\ ep \in AtStates
        BY <3>1 DEF AtInv, AtQuiet
      <4>2. Len(AT!Advance(ep).ring) \in Nat /\ Len(ep.ring) \in Nat /\ Len(ep.ring) <= NBUF
        BY <4>1, AtAdvance DEF AtInv, AtStates
      <4> QED BY <2>1, <3>1, <4>1, <4>2, AtAdvance, RingAssumption
    <3>2. CASE ~ep.kick
      BY <2>1, <3>2 DEF AtInv
    <3> QED BY <3>1, <3>2
  <2> HIDE DEF f
  <2>3. /\ ep' \in AtStates /\ ep'.ring = f.ring /\ ep'.buf = f.buf /\ ep'.dtog = f.dtog
        /\ ep'.sw = f.sw /\ ep'.slots = f.slots /\ ep'.ctr = f.ctr /\ ep'.kick = f.kick /\ ep'.up = f.up
    BY <2>1, <2>2 DEF AtStates
  <2>4. AtInv'
    BY <2>1, <2>2, <2>3 DEF AtInv, AtQuiet, AtSending, AtSent
  <2>5. AT!Queue(ep') = AT!Queue(f)
    <3>1. AT!Sending(f) \in {0, 1, 2} /\ AT!Sending(ep') = AT!Sending(f)
      BY <2>2, <2>3, AtSendingIs DEF AtQuiet, AtSending, AtSent, AtStates
    <3> QED BY <2>2, <2>3, <3>1, AtSameQueue
  <2> QED BY <2>1, <2>2, <2>4, <2>5 DEF ATP!vars
<1>4. CASE AT!Irq
  <2> DEFINE e == [ep EXCEPT !.ctr = FALSE, !.slots = @ - 1]
  <2>1. ep.ctr /\ ep' = AT!Advance(e) /\ next' = next /\ last' = last
    BY <1>4 DEF AT!Irq
  <2>2. AtSent(ep) /\ ep \in AtStates /\ ep.slots - 1 \in {0, 1} /\ ep.up
    BY <2>1 DEF AtInv, AtQuiet, AtSending, AtSent, AtStates
  <2>3. e.slots = ep.slots - 1 /\ e.ctr = FALSE
    BY <2>2 DEF AtStates
  <2>4. /\ e.ring = ep.ring /\ e.buf = ep.buf /\ e.dtog = ep.dtog /\ e.sw = ep.sw
        /\ e.kick = ep.kick /\ e.up = ep.up /\ e.pc = ep.pc
    BY <2>2 DEF AtStates
  <2>5. e \in AtStates
    <3>1. ep.slots - 1 \in 0 .. 2
      BY <2>2
    <3> QED BY <2>2, <3>1 DEF AtStates
  <2> HIDE DEF e
  <2>6. ~e.ctr /\ e.dtog = e.sw /\ e.slots \in {0, 1}
    BY <2>2, <2>3, <2>4 DEF AtSent
  <2>7. AT!Queue(e) = AT!Queue(ep)
    <3>1. AT!Sending(ep) \in {0, 1, 2} /\ AT!Sending(e) = AT!Sending(ep)
      BY <2>1, <2>2, <2>3, <2>5, AtSendingIs
    <3> QED BY <2>2, <2>4, <2>5, <3>1, AtSameQueue
  <2>8. /\ ep' \in AtStates /\ (AtQuiet(ep') \/ AtSending(ep')) /\ (ep'.kick => AtQuiet(ep'))
        /\ AT!Queue(ep') = AT!Queue(e) /\ Len(ep'.ring) <= Len(e.ring) /\ ep'.up
    BY <2>1, <2>2, <2>4, <2>5, <2>6, AtAdvance
  <2>9. Len(ep'.ring) <= NBUF
    <3>1. Len(ep'.ring) \in Nat /\ Len(ep.ring) \in Nat
      BY <2>2, <2>8 DEF AtStates
    <3> QED BY <2>4, <2>8, <3>1, RingAssumption DEF AtInv
  <2>10. AtInv'
    BY <2>1, <2>8, <2>9 DEF AtInv, AtQuiet, AtSending, AtSent
  <2> QED BY <2>1, <2>7, <2>8, <2>10 DEF ATP!vars
<1>5. CASE AT!Sent
  <2>1. /\ ep.up /\ ep.dtog # ep.sw /\ last' = ep.buf[ep.dtog + 1] /\ next' = next
        /\ ep' = [ep EXCEPT !.dtog = 1 - @, !.ctr = TRUE]
    BY <1>5 DEF AT!Sent
  <2>2. AtSending(ep) /\ ep \in AtStates
    BY <2>1 DEF AtInv, AtQuiet, AtSent
  <2>3. ep'.dtog = 1 - ep.dtog /\ ep'.ctr = TRUE
    BY <2>1, <2>2 DEF AtStates
  <2>4. /\ ep'.ring = ep.ring /\ ep'.buf = ep.buf /\ ep'.sw = ep.sw
        /\ ep'.kick = ep.kick /\ ep'.up = ep.up /\ ep'.pc = ep.pc /\ ep'.slots = ep.slots
    BY <2>1, <2>2 DEF AtStates
  <2>5. ep' \in AtStates
    <3>1. 1 - ep.dtog \in 0 .. 1
      BY <2>2 DEF AtStates
    <3> QED BY <2>1, <2>2, <3>1 DEF AtStates
  <2>6. AtInv'
    <3>1. AtSent(ep')
      BY <2>1, <2>2, <2>3, <2>4 DEF AtSending, AtSent, AtStates
    <3> QED BY <2>1, <2>2, <2>4, <2>5, <3>1 DEF AtInv, AtQuiet, AtSending, AtSent
  <2> DEFINE a == ep.buf[ep.dtog + 1]
             b == ep.buf[2 - ep.dtog]
  <2>7. ep'.buf[ep'.dtog + 1] = b
    BY <2>2, <2>3, <2>4 DEF AtStates
  <2>8. a \in Nat /\ b \in Nat /\ ep.ring \in Seq(Nat)
    BY <2>2, AtBuffers
  <2> HIDE DEF a, b
  <2>9. /\ <<a>> \o ep.ring # <<>> /\ Head(<<a>> \o ep.ring) = a /\ Tail(<<a>> \o ep.ring) = ep.ring
        /\ <<a, b>> \o ep.ring # <<>> /\ Head(<<a, b>> \o ep.ring) = a
        /\ Tail(<<a, b>> \o ep.ring) = <<b>> \o ep.ring
    BY <2>8, SMTT(60)
  <2>10. ep.slots \in {1, 2} /\ AT!Sending(ep) = ep.slots /\ AT!Sending(ep') = ep.slots - 1
    BY <2>2, <2>3, <2>4, <2>5, AtSendingIs DEF AtSending, AtStates
  <2>11. CASE ep.slots = 1
    <3>1. AT!Queue(ep) = <<a>> \o ep.ring
      BY <2>2, <2>10, <2>11, AtQueue DEF a
    <3>2. AT!Queue(ep') = ep.ring
      <4>1. AT!Sending(ep') = 0
        BY <2>10, <2>11
      <4> QED BY <2>4, <2>5, <4>1, AtQueue
    <3> QED BY <2>1, <2>6, <2>9, <3>1, <3>2 DEF ATP!Next, ATP!Get, a
  <2>12. CASE ep.slots = 2
    <3>1. AT!Queue(ep) = <<a, b>> \o ep.ring
      BY <2>2, <2>10, <2>12, AtQueue DEF a, b
    <3>2. AT!Queue(ep') = <<b>> \o ep.ring
      <4>1. AT!Sending(ep') = 1
        BY <2>10, <2>12
      <4> QED BY <2>4, <2>5, <2>7, <4>1, AtQueue
    <3> QED BY <2>1, <2>6, <2>9, <3>1, <3>2 DEF ATP!Next, ATP!Get, a
  <2> QED BY <2>10, <2>11, <2>12
<1>6. CASE AT!BusReset
  <2>1. ep' = AT!Down /\ next' = next /\ last' = last
    BY <1>6 DEF AT!BusReset
  <2>2. Len(ep'.ring) = 0
    BY <2>1, AtBlank
  <2> QED BY <2>1, <2>2, AtBlank, RingAssumption DEF AtInv, AtQuiet, ATP!Next, ATP!Reset
<1>7. CASE AT!Configure
  <2>1. ep' = AT!Configured /\ next' = next /\ last' = last
    BY <1>7 DEF AT!Configure
  <2>2. Len(ep'.ring) = 0
    BY <2>1, AtBlank
  <2> QED BY <2>1, <2>2, AtBlank, RingAssumption DEF AtInv, AtQuiet, ATP!Next, ATP!Reset
<1>8. CASE UNCHANGED AT!vars
  BY <1>8 DEF AT!vars, AtInv, AtQuiet, AtSending, AtSent, ATP!vars, AT!Queue, AT!Held, AT!Sending
<1> QED BY <1>1, <1>2, <1>3, <1>4, <1>5, <1>6, <1>7, <1>8 DEF AT!Next

\* usbd_write() and the interrupt of hw_usbd_at32f4.c: no order of main loop, kick,
\* interrupt, controller and bus reset loses, repeats or swaps a packet.
THEOREM At32TxIsAQueue ==
  AT!Init /\ [][AT!Next]_(AT!vars) => ATP!Init /\ [][ATP!Next]_(ATP!vars)
<1>1. AT!Init => AtInv /\ ATP!Init
  <2> SUFFICES ASSUME AT!Init PROVE AtInv /\ ATP!Init
    OBVIOUS
  <2>1. ep = AT!Configured /\ next = 0 /\ last = Numbers - 1
    BY DEF AT!Init
  <2>2. Len(ep.ring) = 0
    BY <2>1, AtBlank
  <2> QED BY <2>1, <2>2, AtBlank, RingAssumption DEF AtInv, AtQuiet, ATP!Init
<1>2. AtInv /\ [AT!Next]_(AT!vars) => AtInv' /\ [ATP!Next]_(ATP!vars)
  BY AtStep
<1> QED BY <1>1, <1>2, PTL

(********************* the AT32F4's, from the host ***********************)

ARP == INSTANCE PacketPipe WITH queue <- AR!Queue(ep), Capacity <- NBUF + 1

ArStates ==
  [up : BOOLEAN, ring : Seq(Nat), buf : [1 .. 2 -> Nat], dtog : 0 .. 1, sw : 0 .. 1,
   kick : BOOLEAN, ctr : BOOLEAN, pc : {"idle", "test", "masked"}]

\* A packet waits in the controller exactly while the interrupt or the kick is
\* to move it.
ArHolds(e) == (e.ctr \/ e.kick <=> e.dtog = e.sw) /\ ~(e.ctr /\ e.kick)
\* The inductive invariant: either the interrupt or the kick is owed for it, not both.
ArInv ==
  /\ ep \in ArStates /\ next \in Nat /\ Len(ep.ring) <= NBUF
  /\ ArHolds(ep)
  /\ ~ep.up => ep.dtog # ep.sw /\ ep.ring = <<>> /\ ep.pc = "idle"

\* The queue is the ring, and the packet that waits.
LEMMA ArQueue ==
  ASSUME NEW e \in ArStates
  PROVE  /\ e.dtog # e.sw => AR!Queue(e) = e.ring
         /\ e.up /\ e.dtog = e.sw => AR!Queue(e) = Append(e.ring, e.buf[2 - e.sw])
<1>1. 2 - e.sw \in 1 .. 2
  BY DEF ArStates
<1>2. e.buf[2 - e.sw] \in Nat /\ e.ring \in Seq(Nat)
  BY <1>1 DEF ArStates
<1> DEFINE b == e.buf[2 - e.sw]
<1> HIDE DEF b
<1>3. e.ring \o <<>> = e.ring /\ e.ring \o <<b>> = Append(e.ring, b)
  BY <1>2 DEF b
<1>4. ASSUME e.dtog # e.sw PROVE AR!Queue(e) = e.ring \o <<>>
  BY <1>4 DEF AR!Queue, AR!Waiting
<1>5. ASSUME e.up, e.dtog = e.sw PROVE AR!Queue(e) = e.ring \o <<b>>
  BY <1>5 DEF AR!Queue, AR!Waiting, b
<1> QED BY <1>3, <1>4, <1>5 DEF b

\* Moving the packet that waits into the ring, or leaving it to the kick, keeps the
\* queue.
LEMMA ArAdvance ==
  ASSUME NEW e \in ArStates, e.up, e.dtog = e.sw, Len(e.ring) <= NBUF
  PROVE  /\ AR!Advance(e) \in ArStates /\ ArHolds(AR!Advance(e)) /\ AR!Advance(e).up
         /\ AR!Advance(e).pc = e.pc
         /\ Len(AR!Advance(e).ring) <= NBUF /\ AR!Queue(AR!Advance(e)) = AR!Queue(e)
<1> DEFINE f == AR!Advance(e)
           b == e.buf[2 - e.sw]
           r == Append(e.ring, b)
<1>1. 2 - e.sw \in 1 .. 2 /\ 1 - e.sw \in 0 .. 1 /\ 1 - e.sw # e.sw
  BY DEF ArStates
<1>2. b \in Nat /\ e.ring \in Seq(Nat)
  BY <1>1 DEF ArStates
<1> HIDE DEF b
<1>3. r \in Seq(Nat) /\ Len(r) = Len(e.ring) + 1 /\ Len(e.ring) \in Nat
  BY <1>2
<1>4. CASE Len(e.ring) = NBUF
  <2>1. f = [e EXCEPT !.ctr = FALSE, !.kick = TRUE]
    BY <1>4 DEF AR!Advance
  <2>2. f.ctr = FALSE /\ f.kick = TRUE /\ f \in ArStates
    BY <2>1 DEF ArStates
  <2>3. f.ring = e.ring /\ f.buf = e.buf /\ f.dtog = e.dtog /\ f.sw = e.sw /\ f.up = e.up /\ f.pc = e.pc
    BY <2>1 DEF ArStates
  <2> HIDE DEF f
  <2>4. AR!Queue(f) = r /\ AR!Queue(e) = r
    BY <2>2, <2>3, ArQueue DEF b
  <2> QED BY <2>2, <2>3, <2>4 DEF ArHolds, f
<1>5. CASE Len(e.ring) # NBUF
  <2> HIDE DEF r
  <2>1. f = [e EXCEPT !.ctr = FALSE, !.kick = FALSE, !.sw = 1 - @, !.ring = r]
    BY <1>5 DEF AR!Advance, b, r
  <2>2. f.ctr = FALSE /\ f.kick = FALSE /\ f.sw = 1 - e.sw /\ f.ring = r
    BY <2>1 DEF ArStates
  <2>3. f.buf = e.buf /\ f.dtog = e.dtog /\ f.up = e.up /\ f.pc = e.pc
    BY <2>1 DEF ArStates
  <2>4. f \in ArStates
    BY <1>1, <1>3, <2>1 DEF ArStates
  <2> HIDE DEF f
  <2>5. f.dtog # f.sw
    BY <1>1, <2>2, <2>3
  <2>6. AR!Queue(f) = r
    BY <2>2, <2>4, <2>5, ArQueue
  <2>7. AR!Queue(e) = r
    BY ArQueue DEF b, r
  <2>8. Len(f.ring) <= NBUF
    BY <1>3, <1>5, <2>2, RingAssumption
  <2> QED BY <2>2, <2>3, <2>4, <2>5, <2>6, <2>7, <2>8 DEF ArHolds, f
<1> QED BY <1>4, <1>5

\* usbd_configure_ep() and handle_reset().
LEMMA ArBlank ==
  /\ AR!Configured \in ArStates /\ ArHolds(AR!Configured) /\ AR!Queue(AR!Configured) = <<>>
  /\ AR!Configured.ring = <<>> /\ AR!Configured.up
  /\ AR!Down \in ArStates /\ ArHolds(AR!Down) /\ AR!Queue(AR!Down) = <<>>
  /\ AR!Down.ring = <<>> /\ AR!Down.pc = "idle" /\ AR!Down.dtog # AR!Down.sw
<1>1. /\ AR!Configured \in ArStates /\ ArHolds(AR!Configured)
      /\ AR!Configured.ring = <<>> /\ AR!Configured.up /\ AR!Configured.dtog # AR!Configured.sw
  BY DEF AR!Configured, ArStates, ArHolds
<1>2. /\ AR!Down.ring = <<>> /\ AR!Down.pc = "idle" /\ AR!Down.dtog = 0 /\ AR!Down.sw = 1
      /\ AR!Down.ctr = FALSE /\ AR!Down.kick = FALSE
  BY DEF AR!Down, AR!Configured
<1>3. AR!Down \in ArStates
  BY <1>1 DEF AR!Down, ArStates
<1>4. ArHolds(AR!Down)
  BY <1>2 DEF ArHolds
<1> QED BY <1>1, <1>2, <1>3, <1>4, ArQueue

\* Every step keeps the invariant, and puts a packet, gets one, empties the queue or
\* leaves it.
LEMMA ArStep ==
  ASSUME ArInv, [AR!Next]_(AR!vars)
  PROVE  ArInv' /\ [ARP!Next]_(ARP!vars)
<1>1. CASE AR!Received
  <2> DEFINE b == [ep.buf EXCEPT ![ep.dtog + 1] = next]
  <2>1. /\ ep.up /\ ep.dtog # ep.sw /\ next' = (next + 1) % Numbers /\ last' = last
        /\ ep' = [ep EXCEPT !.buf = b, !.dtog = 1 - @, !.ctr = TRUE]
    BY <1>1 DEF AR!Received
  <2>2. /\ ep.dtog + 1 \in 1 .. 2 /\ 1 - ep.dtog = ep.sw /\ ep.dtog + 1 = 2 - ep.sw
        /\ 1 - ep.dtog \in 0 .. 1
    BY <2>1 DEF ArInv, ArStates
  <2>3. b \in [1 .. 2 -> Nat] /\ b[2 - ep.sw] = next
    BY <2>2 DEF ArInv, ArStates
  <2>4. next' \in Nat
    BY <2>1, NumbersAssumption DEF ArInv
  <2> HIDE DEF b
  <2>5. ep'.buf = b /\ ep'.dtog = ep.sw /\ ep'.ctr = TRUE
    BY <2>1, <2>2 DEF ArInv, ArStates
  <2>6. ep'.ring = ep.ring /\ ep'.sw = ep.sw /\ ep'.kick = ep.kick /\ ep'.up = ep.up /\ ep'.pc = ep.pc
    BY <2>1 DEF ArInv, ArStates
  <2>7. ep' \in ArStates
    BY <2>1, <2>2, <2>3 DEF ArInv, ArStates
  <2>8. ArInv'
    BY <2>1, <2>4, <2>5, <2>6, <2>7 DEF ArInv, ArHolds
  <2>9. AR!Queue(ep) = ep.ring /\ AR!Queue(ep') = Append(ep.ring, next)
    BY <2>1, <2>3, <2>5, <2>6, <2>7, ArQueue DEF ArInv
  <2>10. Len(AR!Queue(ep)) < NBUF + 1
    <3>1. Len(ep.ring) \in Nat
      BY DEF ArInv, ArStates
    <3> QED BY <2>9, <3>1, RingAssumption DEF ArInv
  <2> QED BY <2>1, <2>8, <2>9, <2>10 DEF ARP!Next, ARP!Put
<1>2. CASE AR!Irq
  <2>1. ep.ctr /\ ep' = AR!Advance(ep) /\ next' = next /\ last' = last
    BY <1>2 DEF AR!Irq
  <2>2. ep \in ArStates /\ ep.dtog = ep.sw /\ ep.up /\ Len(ep.ring) <= NBUF
    BY <2>1 DEF ArInv, ArHolds
  <2>3. /\ ep' \in ArStates /\ ArHolds(ep') /\ ep'.up /\ Len(ep'.ring) <= NBUF
        /\ AR!Queue(ep') = AR!Queue(ep)
    BY <2>1, <2>2, ArAdvance
  <2> QED BY <2>1, <2>3 DEF ArInv, ArHolds, ARP!vars
<1>3. CASE AR!Read
  <2>1. /\ ep.up /\ ep.ring # <<>> /\ last' = Head(ep.ring) /\ next' = next
        /\ ep' = [ep EXCEPT !.ring = Tail(@), !.pc = "test"]
    BY <1>3 DEF AR!Read
  <2>2. /\ ep.ring \in Seq(Nat) /\ Tail(ep.ring) \in Seq(Nat) /\ Len(Tail(ep.ring)) <= NBUF
        /\ ep \in ArStates
    <3>1. ep.ring \in Seq(Nat)
      BY DEF ArInv, ArStates
    <3>2. Tail(ep.ring) \in Seq(Nat) /\ Len(Tail(ep.ring)) = Len(ep.ring) - 1 /\ Len(ep.ring) \in Nat
      BY <2>1, <3>1
    <3> QED BY <3>1, <3>2, RingAssumption DEF ArInv
  <2>3. ep'.ring = Tail(ep.ring) /\ ep' \in ArStates
    BY <2>1, <2>2 DEF ArStates
  <2>4. /\ ep'.buf = ep.buf /\ ep'.dtog = ep.dtog /\ ep'.sw = ep.sw
        /\ ep'.kick = ep.kick /\ ep'.ctr = ep.ctr /\ ep'.up = ep.up
    BY <2>1, <2>2 DEF ArStates
  <2>5. ArInv'
    BY <2>1, <2>2, <2>3, <2>4 DEF ArInv, ArHolds
  <2>6. CASE ep.dtog # ep.sw
    <3>1. AR!Queue(ep) = ep.ring /\ AR!Queue(ep') = Tail(ep.ring)
      BY <2>2, <2>3, <2>4, <2>6, ArQueue
    <3> QED BY <2>1, <2>5, <3>1 DEF ARP!Next, ARP!Get
  <2>7. CASE ep.dtog = ep.sw
    <3> DEFINE b == ep.buf[2 - ep.sw]
    <3>1. 2 - ep.sw \in 1 .. 2
      BY <2>2 DEF ArStates
    <3>2. b \in Nat
      BY <2>2, <3>1 DEF ArStates
    <3>3. AR!Queue(ep) = Append(ep.ring, b) /\ AR!Queue(ep') = Append(Tail(ep.ring), b)
      BY <2>1, <2>2, <2>3, <2>4, <2>7, ArQueue
    <3> HIDE DEF b
    <3>4. /\ Append(ep.ring, b) # <<>> /\ Head(Append(ep.ring, b)) = Head(ep.ring)
          /\ Tail(Append(ep.ring, b)) = Append(Tail(ep.ring), b)
      <4> DEFINE r == ep.ring
      <4>1. r \in Seq(Nat) /\ r # <<>>
        BY <2>1, <2>2
      <4> HIDE DEF r
      <4>2. Append(r, b) # <<>> /\ Head(Append(r, b)) = Head(r)
        BY <4>1, <3>2
      <4>3. Tail(Append(r, b)) = Append(Tail(r), b)
        BY <4>1, <3>2, SMTT(30)
      <4> QED BY <4>2, <4>3 DEF r
    <3> QED BY <2>1, <2>5, <3>3, <3>4 DEF ARP!Next, ARP!Get
  <2> QED BY <2>6, <2>7
<1>4. CASE AR!TestKick \/ AR!Kick
  <2> DEFINE f == IF AR!Kick /\ ep.kick THEN AR!Advance(ep) ELSE ep
  <2>1. PICK p \in {"idle", "masked"} : ep' = [f EXCEPT !.pc = p]
    <3>1. CASE AR!TestKick
      BY <3>1 DEF AR!TestKick, AR!Kick
    <3>2. CASE AR!Kick
      BY <3>2 DEF AR!Kick
    <3> QED BY <1>4, <3>1, <3>2
  <2>2. next' = next /\ last' = last /\ ep.up
    BY <1>4 DEF AR!TestKick, AR!Kick, ArInv
  <2>3. f \in ArStates /\ ArHolds(f) /\ f.up /\ Len(f.ring) <= NBUF /\ AR!Queue(f) = AR!Queue(ep)
    <3>1. CASE AR!Kick /\ ep.kick
      <4>1. ep \in ArStates /\ ep.dtog = ep.sw /\ Len(ep.ring) <= NBUF
        BY <3>1 DEF ArInv, ArHolds
      <4> QED BY <2>2, <3>1, <4>1, ArAdvance
    <3>2. CASE ~(AR!Kick /\ ep.kick)
      BY <2>2, <3>2 DEF ArInv
    <3> QED BY <3>1, <3>2
  <2> HIDE DEF f
  <2>4. ep' \in ArStates /\ ep'.ring = f.ring
    BY <2>1, <2>3 DEF ArStates
  <2>5. /\ ep'.buf = f.buf /\ ep'.dtog = f.dtog /\ ep'.sw = f.sw
        /\ ep'.kick = f.kick /\ ep'.ctr = f.ctr /\ ep'.up = f.up
    BY <2>1, <2>3 DEF ArStates
  <2>6. ArInv'
    BY <2>2, <2>3, <2>4, <2>5 DEF ArInv, ArHolds
  <2>7. AR!Queue(ep') = AR!Queue(f)
    BY <2>3, <2>4, <2>5, ArQueue
  <2> QED BY <2>2, <2>3, <2>6, <2>7 DEF ARP!vars
<1>5. CASE AR!BusReset
  <2>1. ep' = AR!Down /\ next' = next /\ last' = last
    BY <1>5 DEF AR!BusReset
  <2>2. Len(ep'.ring) = 0
    BY <2>1, ArBlank
  <2> QED BY <2>1, <2>2, ArBlank, RingAssumption DEF ArInv, ARP!Next, ARP!Reset
<1>6. CASE AR!Configure
  <2>1. ep' = AR!Configured /\ next' = next /\ last' = last
    BY <1>6 DEF AR!Configure
  <2>2. Len(ep'.ring) = 0
    BY <2>1, ArBlank
  <2> QED BY <2>1, <2>2, ArBlank, RingAssumption DEF ArInv, ARP!Next, ARP!Reset
<1>7. CASE UNCHANGED AR!vars
  BY <1>7 DEF AR!vars, ArInv, ArHolds, ARP!vars, AR!Queue, AR!Waiting
<1> QED BY <1>1, <1>2, <1>3, <1>4, <1>5, <1>6, <1>7 DEF AR!Next

\* usbd_read() and the interrupt of hw_usbd_at32f4.c: what the host's packets come out as
\* is their order, each once, for every size of the ring.
THEOREM At32RxIsAQueue ==
  AR!Init /\ [][AR!Next]_(AR!vars) => ARP!Init /\ [][ARP!Next]_(ARP!vars)
<1>1. AR!Init => ArInv /\ ARP!Init
  <2> SUFFICES ASSUME AR!Init PROVE ArInv /\ ARP!Init
    OBVIOUS
  <2>1. ep = AR!Configured /\ next = 0 /\ last = Numbers - 1
    BY DEF AR!Init
  <2>2. Len(ep.ring) = 0
    BY <2>1, ArBlank
  <2> QED BY <2>1, <2>2, ArBlank, RingAssumption DEF ArInv, ARP!Init
<1>2. ArInv /\ [AR!Next]_(AR!vars) => ArInv' /\ [ARP!Next]_(ARP!vars)
  BY ArStep
<1> QED BY <1>1, <1>2, PTL

(******************* the STM32F1's, towards the host *********************)

STP == INSTANCE PacketPipe WITH queue <- ST!Queue(ep), Capacity <- 2

\* Buffers hold packets, or the empty one that the endpoint starts with.
StStates ==
  [up : BOOLEAN, buf : [1 .. 2 -> 0 .. Numbers], dtog : 0 .. 1, sw : 0 .. 1, stopped : BOOLEAN,
   ready : BOOLEAN, ctr : BOOLEAN, pc : {"idle", "copy"}, seen : BOOLEAN]

\* How many buffers are the controller's to send.
StHeld(e) == IF e.stopped THEN 0 ELSE IF e.dtog # e.sw THEN 1 ELSE 2

\* The inductive invariant.  tx_ready is set only while a buffer is free; a completion is
\* still to be seen only when tx_ready is clear, or when both buffers are free, and then
\* usbd_write() takes it as seen.
StInv ==
  /\ ep \in StStates /\ next \in 0 .. Numbers - 1
  /\ ep.stopped => ep.dtog = ep.sw
  /\ ep.pc = "idle" /\ StHeld(ep) = 2 => ~ep.ready /\ ~ep.ctr
  /\ ep.pc = "idle" /\ StHeld(ep) = 1 /\ ep.ready => ~ep.ctr
  /\ ep.pc = "copy" /\ ep.ready => StHeld(ep) = 0
  /\ ep.pc = "copy" /\ ~ep.ready =>
       (StHeld(ep) = 1 /\ ~ep.ctr) \/ (StHeld(ep) = 0 /\ ep.ctr)
  /\ ~ep.up => ep.stopped /\ ep.pc = "idle" /\ ~ep.ready /\ ~ep.ctr

LEMMA StPacket ==
  ASSUME NEW p \in 0 .. Numbers
  PROVE  /\ p = Numbers => ST!Packet(p) = <<>>
         /\ p # Numbers => ST!Packet(p) = <<p>>
BY DEF ST!Packet, ST!Empty

\* What is under way, by how many buffers are the controller's to send.
LEMMA StQueue ==
  ASSUME NEW e \in StStates
  PROVE  LET first == ST!Packet(e.buf[e.dtog + 1])
             other == ST!Packet(e.buf[2 - e.dtog])
         IN  /\ StHeld(e) = 0 => ST!Queue(e) = <<>>
             /\ StHeld(e) = 1 => ST!Queue(e) = first
             /\ StHeld(e) = 2 => ST!Queue(e) = first \o other
             /\ StHeld(e) \in 0 .. 2
BY DEF ST!Queue, StHeld

LEMMA StSame ==
  ASSUME NEW e \in StStates, NEW f \in StStates, f.stopped = e.stopped, f.dtog = e.dtog,
         f.sw = e.sw, f.buf = e.buf
  PROVE  ST!Queue(f) = ST!Queue(e) /\ StHeld(f) = StHeld(e)
BY DEF ST!Queue, StHeld

LEMMA StNext ==
  ASSUME next \in 0 .. Numbers - 1
  PROVE  (next + 1) % Numbers \in 0 .. Numbers - 1
BY NumbersAssumption

LEMMA StBlank ==
  /\ ST!Configured \in StStates /\ ST!Configured.up /\ ST!Configured.pc = "idle"
  /\ ST!Configured.ready /\ ~ST!Configured.ctr /\ StHeld(ST!Configured) = 1
  /\ ~ST!Configured.stopped /\ ST!Queue(ST!Configured) = <<>>
  /\ ST!Down \in StStates /\ ~ST!Down.up /\ ST!Down.pc = "idle" /\ ~ST!Down.ready
  /\ ~ST!Down.ctr /\ ST!Down.stopped /\ ST!Down.dtog = ST!Down.sw /\ StHeld(ST!Down) = 0
  /\ ST!Queue(ST!Down) = <<>>
<1> DEFINE c == ST!Configured
           d == ST!Down
<1>0. <<ST!Empty, ST!Empty>> \in [1 .. 2 -> 0 .. Numbers] /\ ST!Empty = Numbers
  BY NumbersAssumption DEF ST!Empty
<1>1. /\ c.up = TRUE /\ c.pc = "idle" /\ c.ready = TRUE /\ c.ctr = FALSE /\ c.stopped = FALSE
      /\ c.dtog = 0 /\ c.sw = 1 /\ c.buf = <<ST!Empty, ST!Empty>>
  BY DEF ST!Configured
<1>2. c \in StStates
  BY <1>0 DEF ST!Configured, StStates
<1>3. /\ d.up = FALSE /\ d.pc = "idle" /\ d.ready = FALSE /\ d.ctr = FALSE /\ d.stopped = TRUE /\ d.dtog = 0 /\ d.sw = 0
  BY DEF ST!Down, ST!Configured
<1>4. d \in StStates
  <2> DEFINE b == <<ST!Empty, ST!Empty>>
  <2>1. d = [[up |-> TRUE, buf |-> b, dtog |-> 0, sw |-> 1, stopped |-> FALSE, ready |-> TRUE,
              ctr |-> FALSE, pc |-> "idle", seen |-> FALSE]
               EXCEPT !.up = FALSE, !.ready = FALSE, !.stopped = TRUE, !.sw = 0]
    BY DEF ST!Down, ST!Configured
  <2>2. b \in [1 .. 2 -> 0 .. Numbers]
    BY <1>0
  <2> HIDE DEF b, d
  <2>3. d = [up |-> FALSE, buf |-> b, dtog |-> 0, sw |-> 0, stopped |-> TRUE, ready |-> FALSE,
             ctr |-> FALSE, pc |-> "idle", seen |-> FALSE]
    BY <2>1
  <2> QED BY <2>2, <2>3 DEF StStates
<1>5. StHeld(c) = 1 /\ StHeld(d) = 0
  BY <1>1, <1>3 DEF StHeld
<1>6. c.buf[c.dtog + 1] = Numbers
  BY <1>0, <1>1
<1>7. ST!Packet(c.buf[c.dtog + 1]) = <<>>
  BY <1>6 DEF ST!Packet, ST!Empty
<1>8. ST!Queue(c) = <<>> /\ ST!Queue(d) = <<>>
  BY <1>2, <1>4, <1>5, <1>7, StQueue
<1> QED BY <1>1, <1>2, <1>3, <1>4, <1>5, <1>8

\* usbd_write()'s first half decides on room, its second toggles.
LEMMA StToggle ==
  ASSUME StInv, ST!Toggle
  PROVE  StInv' /\ [STP!Next]_(STP!vars)
<1> DEFINE b == [ep.buf EXCEPT ![ep.sw + 1] = next]
           c == ST!ClearSpotted(ep)
<1>1. /\ ep.pc = "copy" /\ next' = (next + 1) % Numbers /\ last' = last
      /\ ep' = [ep EXCEPT !.pc = "idle", !.buf = b, !.sw = 1 - @, !.stopped = FALSE, !.ctr = c]
  BY DEF ST!Toggle, StInv, StStates
<1>2. c = IF ep.ready THEN FALSE ELSE ep.ctr
  BY DEF ST!ClearSpotted
<1>3. b \in [1 .. 2 -> 0 .. Numbers] /\ 1 - ep.sw \in 0 .. 1 /\ ep.sw + 1 \in 1 .. 2 /\ c \in BOOLEAN
      /\ b[ep.sw + 1] = next /\ \A i \in 1 .. 2 : i # ep.sw + 1 => b[i] = ep.buf[i]
  <2>1. ep.buf \in [1 .. 2 -> 0 .. Numbers] /\ ep.sw \in 0 .. 1 /\ next \in 0 .. Numbers
    BY NumbersAssumption DEF StInv, StStates
  <2>2. 1 - ep.sw \in 0 .. 1 /\ ep.sw + 1 \in 1 .. 2
    BY <2>1
  <2>3. c \in BOOLEAN
    <3>1. ep.ctr \in BOOLEAN
      BY DEF StInv, StStates
    <3> QED BY <1>2, <3>1, Zenon
  <2> HIDE DEF c
  <2> QED BY <2>1, <2>2, <2>3
<1> HIDE DEF b, c
<1>4. /\ ep'.pc = "idle" /\ ep'.buf = b /\ ep'.sw = 1 - ep.sw /\ ep'.stopped = FALSE /\ ep'.ctr = c
      /\ ep'.dtog = ep.dtog /\ ep'.ready = ep.ready /\ ep'.up = ep.up
  BY <1>1 DEF StInv, StStates
<1>5. ep' \in StStates
  BY <1>1, <1>3 DEF StInv, StStates
<1>6. StHeld(ep) \in {0, 1} /\ StHeld(ep') = StHeld(ep) + 1 /\ ep.up
  BY <1>1, <1>4 DEF StInv, StStates, StHeld
<1>7. StInv'
  <2>1. next' \in 0 .. Numbers - 1
    BY <1>1, StNext DEF StInv
  <2>2. /\ StHeld(ep') = 2 => ~ep'.ready /\ ~ep'.ctr
        /\ StHeld(ep') = 1 /\ ep'.ready => ~ep'.ctr
    BY <1>1, <1>2, <1>4, <1>6 DEF StInv
  <2> QED BY <1>4, <1>5, <1>6, <2>1, <2>2 DEF StInv
<1>8. ST!Packet(next) = <<next>> /\ next \in 0 .. Numbers /\ next # Numbers
  BY StPacket, NumbersAssumption DEF StInv
<1>9. ST!Queue(ep') = Append(ST!Queue(ep), next) /\ Len(ST!Queue(ep)) < 2
  <2>1. CASE StHeld(ep) = 0
    <3>1. ep.dtog + 1 = ep.sw + 1
      BY <2>1 DEF StInv, StStates, StHeld
    <3>2. ep'.buf[ep'.dtog + 1] = next
      BY <1>3, <1>4, <3>1
    <3>3. ST!Packet(ep'.buf[ep'.dtog + 1]) = <<next>>
      BY <1>8, <3>2
    <3>4. ST!Queue(ep) = <<>> /\ ST!Queue(ep') = <<next>>
      BY <1>5, <1>6, <2>1, <3>3, StQueue DEF StInv
    <3> QED BY <3>4
  <2>2. CASE StHeld(ep) = 1
    <3> DEFINE p == ep.buf[ep.dtog + 1]
    <3>1. ep.sw + 1 = 2 - ep.dtog /\ ep.dtog + 1 # ep.sw + 1 /\ ep.dtog + 1 \in 1 .. 2
      BY <2>2 DEF StInv, StStates, StHeld
    <3>2. ep'.buf[ep'.dtog + 1] = p
      BY <1>3, <1>4, <3>1
    <3>3. ep'.buf[2 - ep'.dtog] = next
      BY <1>3, <1>4, <3>1
    <3>4. p \in 0 .. Numbers
      <4>1. ep.buf \in [1 .. 2 -> 0 .. Numbers]
        BY DEF StInv, StStates
      <4> QED BY <3>1, <4>1
    <3>5. ST!Queue(ep) = ST!Packet(p) /\ ST!Queue(ep') = ST!Packet(p) \o <<next>>
      <4>1. ST!Queue(ep) = ST!Packet(p)
        BY <2>2, StQueue DEF StInv
      <4>2. ST!Queue(ep') = ST!Packet(ep'.buf[ep'.dtog + 1]) \o ST!Packet(ep'.buf[2 - ep'.dtog])
        BY <1>5, <1>6, <2>2, StQueue
      <4>3. ST!Packet(ep'.buf[2 - ep'.dtog]) = <<next>>
        BY <1>8, <3>3
      <4>4. ST!Packet(ep'.buf[ep'.dtog + 1]) = ST!Packet(p)
        BY <3>2, Zenon
      <4> QED BY <4>1, <4>2, <4>3, <4>4
    <3>6. ST!Packet(p) = <<>> \/ ST!Packet(p) = <<p>>
      BY <3>4, StPacket
    <3> HIDE DEF p
    <3> QED BY <1>8, <3>4, <3>5, <3>6
  <2> QED BY <1>6, <2>1, <2>2
<1> QED BY <1>1, <1>7, <1>9 DEF STP!Next, STP!Put

LEMMA StSent ==
  ASSUME StInv, ST!Sent
  PROVE  StInv' /\ [STP!Next]_(STP!vars)
<1> DEFINE p == ep.buf[ep.dtog + 1]
           q == ep.buf[2 - ep.dtog]
           s == (1 - ep.dtog = ep.sw)
<1>1. /\ ep.up /\ ~ep.stopped /\ last' = (IF p = Numbers THEN last ELSE p) /\ next' = next
      /\ ep' = [ep EXCEPT !.dtog = 1 - @, !.ctr = TRUE, !.stopped = s]
  BY DEF ST!Sent, ST!Empty
<1>2. /\ s \in BOOLEAN /\ 1 - ep.dtog \in 0 .. 1 /\ p \in 0 .. Numbers /\ q \in 0 .. Numbers
  <2>1. ep.dtog + 1 \in 1 .. 2 /\ 2 - ep.dtog \in 1 .. 2
    BY DEF StInv, StStates
  <2> QED BY <2>1 DEF StInv, StStates
<1>3. /\ ep'.dtog = 1 - ep.dtog /\ ep'.ctr = TRUE /\ ep'.sw = ep.sw /\ ep'.buf = ep.buf /\ ep'.ready = ep.ready
      /\ ep'.pc = ep.pc /\ ep'.up = ep.up
  BY <1>1 DEF StInv, StStates
<1>4. ep'.stopped = s
  BY <1>1 DEF StInv, StStates
<1>5. ep' \in StStates
  BY <1>1, <1>2 DEF StInv, StStates
<1>6. StHeld(ep) \in {1, 2} /\ StHeld(ep') = StHeld(ep) - 1
  <2>1. ep.dtog \in 0 .. 1 /\ ep.sw \in 0 .. 1
    BY DEF StInv, StStates
  <2>2. CASE s
    <3>1. StHeld(ep) = 1
      BY <1>1, <2>1, <2>2 DEF StHeld
    <3>2. StHeld(ep') = 0
      BY <1>4, <2>2 DEF StHeld
    <3> QED BY <3>1, <3>2
  <2>3. CASE ~s
    <3>1. StHeld(ep) = 2
      BY <1>1, <2>1, <2>3 DEF StHeld
    <3>2. ~ep'.stopped
      BY <1>4, <2>3
    <3>3. ep'.dtog # ep'.sw
      BY <1>3, <2>3
    <3>4. StHeld(ep') = 1
      BY <3>2, <3>3 DEF StHeld
    <3> QED BY <3>1, <3>4
  <2> QED BY <2>2, <2>3
<1>7. StInv'
  <2>1. ep'.stopped => ep'.dtog = ep'.sw
    BY <1>3, <1>4
  <2>2. /\ ep'.pc = "idle" /\ StHeld(ep') = 1 /\ ep'.ready => FALSE
        /\ StHeld(ep') # 2
        /\ ep'.pc = "copy" => ~ep'.ready /\ StHeld(ep') = 0
    BY <1>1, <1>3, <1>6 DEF StInv
  <2> QED BY <1>1, <1>3, <1>5, <2>1, <2>2 DEF StInv
<1>8. ST!Queue(ep) = ST!Packet(p) \o ST!Queue(ep')
  <2>0. ep'.buf[ep'.dtog + 1] = q
    BY <1>3 DEF StInv, StStates
  <2>1. CASE StHeld(ep) = 1
    <3>1. ST!Queue(ep) = ST!Packet(p) /\ ST!Queue(ep') = <<>>
      BY <1>5, <1>6, <2>1, StQueue DEF StInv
    <3>2. ST!Packet(p) = <<>> \/ ST!Packet(p) = <<p>>
      BY <1>2, StPacket
    <3> HIDE DEF p
    <3> QED BY <3>1, <3>2
  <2>2. CASE StHeld(ep) = 2
    <3>1. ST!Queue(ep) = ST!Packet(p) \o ST!Packet(q)
      BY <2>2, StQueue DEF StInv
    <3>2. ST!Queue(ep') = ST!Packet(q)
      BY <1>5, <1>6, <2>0, <2>2, StQueue
    <3> QED BY <3>1, <3>2
  <2> QED BY <1>6, <2>1, <2>2
<1>9. ST!Queue(ep') \in Seq(0 .. Numbers)
  <2>1. StHeld(ep') \in {0, 1}
    BY <1>6
  <2>2. ep'.buf[ep'.dtog + 1] = q
    BY <1>3 DEF StInv, StStates
  <2>3. ST!Packet(q) \in Seq(0 .. Numbers)
    <3>1. ST!Packet(q) = <<>> \/ ST!Packet(q) = <<q>>
      BY <1>2, StPacket
    <3>2. q \in 0 .. Numbers
      BY <1>2
    <3> HIDE DEF q
    <3>3. <<>> \in Seq(0 .. Numbers) /\ <<q>> \in Seq(0 .. Numbers)
      BY <3>2
    <3> QED BY <3>1, <3>3
  <2>4. CASE StHeld(ep') = 0
    <3>1. ST!Queue(ep') = <<>>
      BY <1>5, <2>4, StQueue
    <3> QED BY <3>1
  <2>5. CASE StHeld(ep') = 1
    <3>1. ST!Queue(ep') = ST!Packet(ep'.buf[ep'.dtog + 1])
      BY <1>5, <2>5, StQueue
    <3> QED BY <2>2, <2>3, <3>1
  <2> QED BY <2>1, <2>4, <2>5
<1> HIDE DEF p
<1>10. CASE p = Numbers
  <2>1. ST!Packet(p) = <<>>
    BY <1>2, <1>10, StPacket
  <2>2. ST!Queue(ep) = ST!Queue(ep')
    BY <1>8, <1>9, <2>1
  <2> QED BY <1>1, <1>7, <1>10, <2>2 DEF STP!vars
<1>11. CASE p # Numbers
  <2>1. ST!Packet(p) = <<p>>
    BY <1>2, <1>11, StPacket
  <2>2. ST!Queue(ep) # <<>> /\ Head(ST!Queue(ep)) = p /\ Tail(ST!Queue(ep)) = ST!Queue(ep')
    BY <1>2, <1>8, <1>9, <2>1
  <2> QED BY <1>1, <1>7, <1>11, <2>2 DEF STP!Next, STP!Get
<1> QED BY <1>10, <1>11

LEMMA StStep ==
  ASSUME StInv, [ST!Next]_(ST!vars)
  PROVE  StInv' /\ [STP!Next]_(STP!vars)
<1>1. CASE ST!Write
  <2> DEFINE r == (ep.dtog = ep.sw)
  <2>1. /\ ep.up /\ ep.pc = "idle" /\ ep.ready /\ next' = next /\ last' = last
        /\ ep' = [ep EXCEPT !.pc = "copy", !.ready = r]
    BY <1>1 DEF ST!Write
  <2>2. /\ ep'.pc = "copy" /\ ep'.ctr = ep.ctr /\ ep'.dtog = ep.dtog /\ ep'.sw = ep.sw
        /\ ep'.stopped = ep.stopped /\ ep'.buf = ep.buf /\ ep'.up = ep.up
    BY <2>1 DEF StInv, StStates
  <2>3. ep'.ready = r
    BY <2>1 DEF StInv, StStates
  <2>4. ep' \in StStates
    BY <2>1 DEF StInv, StStates
  <2>5. ST!Queue(ep') = ST!Queue(ep) /\ StHeld(ep') = StHeld(ep)
    BY <2>2, <2>4, StSame DEF StInv
  <2>6. StInv'
    BY <2>1, <2>2, <2>3, <2>4, <2>5 DEF StInv, StHeld
  <2> QED BY <2>1, <2>5, <2>6 DEF STP!vars
<1>2. CASE ST!Process
  <2>1. /\ ep.ctr /\ ep.pc = "idle" /\ next' = next /\ last' = last
        /\ ep' = [ep EXCEPT !.ctr = FALSE, !.ready = TRUE]
    BY <1>2 DEF ST!Process
  <2>2. /\ ep'.pc = ep.pc /\ ep'.ctr = FALSE /\ ep'.dtog = ep.dtog /\ ep'.sw = ep.sw
        /\ ep'.stopped = ep.stopped /\ ep'.buf = ep.buf /\ ep'.up = ep.up /\ ep'.ready = TRUE
    BY <2>1 DEF StInv, StStates
  <2>3. ep' \in StStates
    BY <2>1 DEF StInv, StStates
  <2>4. ST!Queue(ep') = ST!Queue(ep) /\ StHeld(ep') = StHeld(ep)
    BY <2>2, <2>3, StSame DEF StInv
  <2>5. StHeld(ep) # 2 /\ StHeld(ep) \in 0 .. 2 /\ (StHeld(ep) = 1 => ~ep.ready)
    BY <2>1, StQueue DEF StInv
  <2>6. /\ ~ep'.ctr /\ StHeld(ep') # 2 /\ ep'.pc = "idle"
    BY <2>1, <2>2, <2>4, <2>5
  <2>7. ep'.up
    BY <2>1, <2>2 DEF StInv
  <2>8. next' \in 0 .. Numbers - 1
    BY <2>1 DEF StInv
  <2>9. ep'.stopped => ep'.dtog = ep'.sw
    BY <2>2 DEF StInv
  <2>10. StInv'
    BY <2>3, <2>6, <2>7, <2>8, <2>9 DEF StInv
  <2> QED BY <2>1, <2>4, <2>10 DEF STP!vars
<1>3. CASE ST!BusReset \/ ST!Configure
  <2>1. ep' \in {ST!Down, ST!Configured} /\ next' = next /\ last' = last
    BY <1>3 DEF ST!BusReset, ST!Configure
  <2>2. StInv' /\ ST!Queue(ep') = <<>>
    BY <2>1, StBlank DEF StInv
  <2> QED BY <2>1, <2>2 DEF STP!Next, STP!Reset
<1>4. CASE UNCHANGED ST!vars
  BY <1>4 DEF ST!vars, StInv, StHeld, STP!vars, ST!Queue
<1> QED BY <1>1, <1>2, <1>3, <1>4, StToggle, StSent DEF ST!Next

\* usbd_write() and handle_tx_transfer() of hw_usbd.c: DTOG, SW_BUF and one flag are enough
\* to lose, repeat or swap no packet in two buffers.
THEOREM Stm32TxIsAQueue ==
  ST!Init /\ [][ST!Next]_(ST!vars) => STP!Init /\ [][STP!Next]_(STP!vars)
<1>1. ST!Init => StInv /\ STP!Init
  BY StBlank, NumbersAssumption DEF ST!Init, StInv, STP!Init
<1>2. StInv /\ [ST!Next]_(ST!vars) => StInv' /\ [STP!Next]_(STP!vars)
  BY StStep
<1> QED BY <1>1, <1>2, PTL

(******************* the STM32F1's, from the host ************************)

SRP == INSTANCE PacketPipe WITH queue <- SR!Queue(ep), Capacity <- 2

SrStates ==
  [up : BOOLEAN, buf : [1 .. 2 -> 0 .. Numbers - 1], dtog : 0 .. 1, sw : 0 .. 1, stopped : BOOLEAN,
   ready : BOOLEAN, ctr : BOOLEAN, pc : {"idle", "copied"}]

\* How many buffers hold a packet that is not given back.
SrFull(e) == IF e.dtog # e.sw THEN 1 ELSE IF e.stopped THEN 2 ELSE 0

\* The inductive invariant.  rx_ready and a completion each stand for a packet, and for two
\* different ones: what rx_ready says after a read is still so when SW_BUF is toggled.
SrInv ==
  /\ ep \in SrStates /\ next \in 0 .. Numbers - 1
  /\ ep.stopped => ep.dtog = ep.sw
  /\ ep.pc = "idle" /\ (ep.ready \/ ep.ctr) => SrFull(ep) # 0
  /\ ep.pc = "idle" /\ SrFull(ep) = 1 /\ ep.ready => ~ep.ctr
  /\ ep.pc = "copied" /\ ep.ready => SrFull(ep) = 2
  /\ ep.pc = "copied" /\ ~ep.ready =>
       (SrFull(ep) = 1 /\ ~ep.ctr) \/ (SrFull(ep) = 2 /\ ep.ctr)

\* What is under way, by how many buffers are full.
LEMMA SrQueue ==
  ASSUME NEW e \in SrStates
  PROVE  LET first == e.buf[e.sw + 1]
             second == e.buf[2 - e.sw]
         IN  /\ SrFull(e) = 0 => SR!Full(e) = <<>>
             /\ SrFull(e) = 1 => SR!Full(e) = <<first>>
             /\ SrFull(e) = 2 => SR!Full(e) = <<first, second>>
             /\ SrFull(e) \in 0 .. 2
             /\ first \in 0 .. Numbers - 1 /\ second \in 0 .. Numbers - 1
             /\ e.sw + 1 \in 1 .. 2 /\ 2 - e.sw \in 1 .. 2 /\ e.dtog + 1 \in 1 .. 2
<1>1. e.sw + 1 \in 1 .. 2 /\ 2 - e.sw \in 1 .. 2 /\ e.dtog + 1 \in 1 .. 2
  BY DEF SrStates
<1>2. e.buf[e.sw + 1] \in 0 .. Numbers - 1 /\ e.buf[2 - e.sw] \in 0 .. Numbers - 1
  BY <1>1 DEF SrStates
<1> QED BY <1>1, <1>2 DEF SR!Full, SrFull

LEMMA SrSame ==
  ASSUME NEW e, NEW f, f.stopped = e.stopped, f.dtog = e.dtog, f.sw = e.sw, f.buf = e.buf
  PROVE  SR!Full(f) = SR!Full(e) /\ SrFull(f) = SrFull(e)
BY DEF SR!Full, SrFull

LEMMA SrBlank ==
  ASSUME NEW e \in {SR!Configured, SR!Down}
  PROVE  /\ e \in SrStates /\ e.pc = "idle" /\ ~e.ready /\ ~e.ctr /\ ~e.stopped
         /\ SrFull(e) = 0 /\ SR!Queue(e) = <<>>
<1>1. <<0, 0>> \in [1 .. 2 -> 0 .. Numbers - 1]
  BY NumbersAssumption
<1>2. \E u \in BOOLEAN :
        e = [up |-> u, buf |-> <<0, 0>>, dtog |-> 0, sw |-> 0, stopped |-> FALSE, ready |-> FALSE,
             ctr |-> FALSE, pc |-> "idle"]
  BY DEF SR!Configured, SR!Down
<1>3. e \in SrStates
  BY <1>1, <1>2 DEF SrStates
<1>4. /\ e.pc = "idle" /\ ~e.ready /\ ~e.ctr /\ ~e.stopped /\ e.dtog = 0 /\ e.sw = 0
  BY <1>2
<1>5. SrFull(e) = 0 /\ SR!Queue(e) = <<>>
  BY <1>4 DEF SrFull, SR!Queue, SR!Full
<1> QED BY <1>3, <1>4, <1>5

LEMMA SrReceived ==
  ASSUME SrInv, SR!Received
  PROVE  SrInv' /\ [SRP!Next]_(SRP!vars)
<1> DEFINE b == [ep.buf EXCEPT ![ep.dtog + 1] = next]
           s == (1 - ep.dtog = ep.sw)
<1>1. /\ ~ep.stopped /\ next' = (next + 1) % Numbers /\ last' = last
      /\ ep' = [ep EXCEPT !.buf = b, !.dtog = 1 - @, !.ctr = TRUE, !.stopped = s]
  BY DEF SR!Received, SrInv, SrStates
<1>2. /\ ep.buf \in [1 .. 2 -> 0 .. Numbers - 1] /\ ep.sw \in 0 .. 1 /\ ep.dtog \in 0 .. 1
      /\ next \in 0 .. Numbers - 1
  BY DEF SrInv, SrStates
<1>3. ep.dtog + 1 \in 1 .. 2 /\ 1 - ep.dtog \in 0 .. 1 /\ s \in BOOLEAN
  BY <1>2
<1>4. /\ b \in [1 .. 2 -> 0 .. Numbers - 1] /\ b[ep.dtog + 1] = next
      /\ \A i \in 1 .. 2 : i # ep.dtog + 1 => b[i] = ep.buf[i]
  BY <1>2, <1>3
<1> HIDE DEF b
<1>5. /\ ep'.buf = b /\ ep'.dtog = 1 - ep.dtog /\ ep'.ctr = TRUE /\ ep'.sw = ep.sw
      /\ ep'.ready = ep.ready /\ ep'.pc = ep.pc
  BY <1>1 DEF SrInv, SrStates
<1>6. ep'.stopped = s
  BY <1>1 DEF SrInv, SrStates
<1>7. ep' \in SrStates
  BY <1>1, <1>3, <1>4 DEF SrInv, SrStates
<1>8. SrFull(ep) \in {0, 1} /\ SrFull(ep') = SrFull(ep) + 1
  <2>1. CASE s
    <3>1. SrFull(ep) = 1
      BY <1>2, <2>1 DEF SrFull
    <3>2. ep'.dtog = ep'.sw /\ ep'.stopped
      BY <1>5, <1>6, <2>1
    <3>3. SrFull(ep') = 2
      BY <3>2 DEF SrFull
    <3> QED BY <3>1, <3>3
  <2>2. CASE ~s
    BY <1>1, <1>2, <1>5, <1>6, <2>2 DEF SrFull
  <2> QED BY <2>1, <2>2
<1>9. next' \in 0 .. Numbers - 1
  BY <1>1, <1>2, NumbersAssumption
<1>10. ep'.stopped => ep'.dtog = ep'.sw
  BY <1>5, <1>6
<1>11. SrInv'
  <2>1. ep.pc = "idle" /\ SrFull(ep) = 0 => ~ep.ready
    BY DEF SrInv
  <2>2. ep.pc = "copied" => ~ep.ready /\ SrFull(ep) = 1
    BY <1>8 DEF SrInv
  <2>3. /\ ep'.pc = "idle" => SrFull(ep') # 0
        /\ ep'.pc = "idle" /\ SrFull(ep') = 1 => ~ep'.ready
        /\ ep'.pc = "copied" => ~ep'.ready /\ SrFull(ep') = 2 /\ ep'.ctr
    BY <1>5, <1>8, <2>1, <2>2
  <2> QED BY <1>7, <1>9, <1>10, <2>3 DEF SrInv
<1>12. SR!Full(ep') = Append(SR!Full(ep), next) /\ Len(SR!Full(ep)) < 2
  <2>1. CASE SrFull(ep) = 0
    <3>1. ep.dtog + 1 = ep.sw + 1
      BY <1>2, <2>1 DEF SrFull
    <3>2. ep'.buf[ep'.sw + 1] = next
      BY <1>4, <1>5, <3>1
    <3>3. SR!Full(ep) = <<>> /\ SR!Full(ep') = <<next>>
      BY <1>7, <1>8, <2>1, <3>2, SrQueue DEF SrInv
    <3> QED BY <3>3
  <2>2. CASE SrFull(ep) = 1
    <3> DEFINE p == ep.buf[ep.sw + 1]
    <3>1. ep.dtog + 1 = 2 - ep.sw /\ ep.sw + 1 # ep.dtog + 1 /\ ep.sw + 1 \in 1 .. 2
      BY <1>2, <2>2 DEF SrFull
    <3>2. ep'.buf[ep'.sw + 1] = p
      BY <1>4, <1>5, <3>1
    <3>3. ep'.buf[2 - ep'.sw] = next
      BY <1>4, <1>5, <3>1
    <3>4. SR!Full(ep) = <<p>>
      BY <2>2, SrQueue DEF SrInv
    <3>5. SR!Full(ep') = <<p, next>>
      <4>1. SrFull(ep') = 2
        BY <1>8, <2>2
      <4> QED BY <1>7, <1>10, <3>2, <3>3, <4>1, SrQueue
    <3> QED BY <3>4, <3>5
  <2> QED BY <1>8, <2>1, <2>2
<1>13. SR!Queue(ep') = Append(SR!Queue(ep), next) /\ Len(SR!Queue(ep)) < 2
  <2>1. CASE ep.pc = "idle"
    BY <1>5, <1>12, <2>1 DEF SR!Queue
  <2>2. CASE ep.pc = "copied"
    <3>1. SrFull(ep) = 1
      BY <1>8, <2>2 DEF SrInv
    <3> DEFINE p == ep.buf[ep.sw + 1]
    <3>2. SR!Full(ep) = <<p>>
      BY <3>1, SrQueue DEF SrInv
    <3>3. p \in 0 .. Numbers - 1
      BY SrQueue DEF SrInv
    <3> HIDE DEF p
    <3>4. Tail(SR!Full(ep')) = <<next>> /\ Tail(SR!Full(ep)) = <<>>
      <4>1. <<p, next>> = Append(<<p>>, next)
        BY <1>2, <3>3
      <4>2. SR!Full(ep') = <<p, next>>
        BY <1>12, <3>2, <4>1
      <4> QED BY <3>2, <4>2
    <3>5. SR!Queue(ep') = <<next>> /\ SR!Queue(ep) = <<>>
      BY <1>5, <2>2, <3>4 DEF SR!Queue
    <3> QED BY <3>5
  <2> QED BY <2>1, <2>2 DEF SrInv, SrStates
<1> QED BY <1>1, <1>11, <1>13 DEF SRP!Next, SRP!Put

LEMMA SrRead ==
  ASSUME SrInv, SR!Read
  PROVE  SrInv' /\ [SRP!Next]_(SRP!vars)
<1> DEFINE r == (ep.dtog = ep.sw)
<1>1. /\ ep.pc = "idle" /\ ep.ready /\ next' = next /\ last' = ep.buf[ep.sw + 1]
      /\ ep' = [ep EXCEPT !.pc = "copied", !.ready = r]
  BY DEF SR!Read
<1>2. /\ ep'.pc = "copied" /\ ep'.ctr = ep.ctr /\ ep'.dtog = ep.dtog /\ ep'.sw = ep.sw
      /\ ep'.stopped = ep.stopped /\ ep'.buf = ep.buf
  BY <1>1 DEF SrInv, SrStates
<1>3. ep'.ready = r
  BY <1>1 DEF SrInv, SrStates
<1>4. ep' \in SrStates
  BY <1>1 DEF SrInv, SrStates
<1>5. SR!Full(ep') = SR!Full(ep) /\ SrFull(ep') = SrFull(ep)
  BY <1>2, SrSame
<1>6. SrFull(ep) \in {1, 2} /\ (SrFull(ep) = 2 <=> r)
  BY <1>1, SrQueue DEF SrInv, SrFull
<1>7. SrInv'
  <2>1. SrFull(ep) = 1 => ~ep.ctr
    BY <1>1 DEF SrInv
  <2>2. (ep'.ready => SrFull(ep') = 2) /\ (~ep'.ready => SrFull(ep') = 1 /\ ~ep'.ctr)
    BY <1>2, <1>3, <1>5, <1>6, <2>1
  <2>3. next' \in 0 .. Numbers - 1 /\ (ep'.stopped => ep'.dtog = ep'.sw)
    BY <1>1, <1>2 DEF SrInv
  <2> QED BY <1>2, <1>4, <2>2, <2>3 DEF SrInv
<1>8. SR!Queue(ep) = SR!Full(ep) /\ SR!Queue(ep') = Tail(SR!Full(ep))
  BY <1>1, <1>2, <1>5 DEF SR!Queue
<1>9. SR!Full(ep) # <<>> /\ Head(SR!Full(ep)) = ep.buf[ep.sw + 1]
  <2> DEFINE p == ep.buf[ep.sw + 1]
             q == ep.buf[2 - ep.sw]
  <2>1. SR!Full(ep) = <<p>> \/ SR!Full(ep) = <<p, q>>
    BY <1>6, SrQueue DEF SrInv
  <2> HIDE DEF p, q
  <2>2. SR!Full(ep) # <<>> /\ Head(SR!Full(ep)) = p
    BY <2>1
  <2> QED BY <2>2 DEF p
<1> QED BY <1>1, <1>7, <1>8, <1>9 DEF SRP!Next, SRP!Get

LEMMA SrToggle ==
  ASSUME SrInv, SR!Toggle
  PROVE  SrInv' /\ [SRP!Next]_(SRP!vars)
<1> DEFINE c == IF ep.ready THEN FALSE ELSE ep.ctr
<1>1. /\ ep.pc = "copied" /\ next' = next /\ last' = last
      /\ ep' = [ep EXCEPT !.pc = "idle", !.sw = 1 - @, !.stopped = FALSE, !.ctr = c]
  BY DEF SR!Toggle
<1>2. c \in BOOLEAN
  <2>1. ep.ctr \in BOOLEAN
    BY DEF SrInv, SrStates
  <2> QED BY <2>1, Zenon
<1>3. ep.dtog \in 0 .. 1 /\ ep.sw \in 0 .. 1 /\ 1 - ep.sw \in 0 .. 1
  BY DEF SrInv, SrStates
<1>4. (ep.ready => ~c) /\ (~ep.ready => (c <=> ep.ctr))
  OBVIOUS
<1> HIDE DEF c
<1>5. /\ ep'.pc = "idle" /\ ep'.sw = 1 - ep.sw /\ ep'.stopped = FALSE
      /\ ep'.dtog = ep.dtog /\ ep'.buf = ep.buf /\ ep'.ready = ep.ready
  BY <1>1 DEF SrInv, SrStates
<1>6. ep'.ctr = c
  BY <1>1 DEF SrInv, SrStates
<1>7. ep' \in SrStates
  BY <1>1, <1>2, <1>3 DEF SrInv, SrStates
<1>8. SrFull(ep) \in {1, 2} /\ SrFull(ep') = SrFull(ep) - 1
  <2>1. SrFull(ep) \in {1, 2}
    BY <1>1 DEF SrInv
  <2>2. SrFull(ep') = SrFull(ep) - 1
    BY <1>3, <1>5, <2>1 DEF SrFull
  <2> QED BY <2>1, <2>2
<1>9. SrInv'
  <2>1. /\ ep.ready => SrFull(ep) = 2
        /\ ~ep.ready => (SrFull(ep) = 1 /\ ~ep.ctr) \/ (SrFull(ep) = 2 /\ ep.ctr)
    BY <1>1 DEF SrInv
  <2>2. (ep'.ready \/ ep'.ctr => SrFull(ep') # 0) /\ (ep'.ready => ~ep'.ctr)
    BY <1>4, <1>5, <1>6, <1>8, <2>1
  <2>3. next' \in 0 .. Numbers - 1
    BY <1>1 DEF SrInv
  <2> QED BY <1>5, <1>7, <2>2, <2>3 DEF SrInv
<1>10. SR!Queue(ep') = SR!Queue(ep)
  <2> DEFINE p == ep.buf[ep.sw + 1]
             q == ep.buf[2 - ep.sw]
  <2>1. SR!Queue(ep') = SR!Full(ep') /\ SR!Queue(ep) = Tail(SR!Full(ep))
    BY <1>1, <1>5 DEF SR!Queue
  <2>2. CASE SrFull(ep) = 1
    <3>1. SR!Full(ep') = <<>>
      BY <1>7, <1>8, <2>2, SrQueue
    <3>2. SR!Full(ep) = <<p>>
      BY <2>2, SrQueue DEF SrInv
    <3> HIDE DEF p
    <3> QED BY <2>1, <3>1, <3>2
  <2>3. CASE SrFull(ep) = 2
    <3>1. ep'.buf[ep'.sw + 1] = q
      BY <1>3, <1>5
    <3>2. SR!Full(ep') = <<q>>
      BY <1>7, <1>8, <2>3, <3>1, SrQueue
    <3>3. SR!Full(ep) = <<p, q>>
      BY <2>3, SrQueue DEF SrInv
    <3> HIDE DEF p, q
    <3> QED BY <2>1, <3>2, <3>3
  <2> QED BY <1>8, <2>2, <2>3
<1> QED BY <1>1, <1>9, <1>10 DEF SRP!vars

LEMMA SrStep ==
  ASSUME SrInv, [SR!Next]_(SR!vars)
  PROVE  SrInv' /\ [SRP!Next]_(SRP!vars)
<1>1. CASE SR!Process
  <2>1. /\ ep.ctr /\ ep.pc = "idle" /\ next' = next /\ last' = last
        /\ ep' = [ep EXCEPT !.ctr = FALSE, !.ready = TRUE]
    BY <1>1 DEF SR!Process
  <2>2. /\ ep'.pc = ep.pc /\ ep'.dtog = ep.dtog /\ ep'.sw = ep.sw
        /\ ep'.stopped = ep.stopped /\ ep'.buf = ep.buf
    BY <2>1 DEF SrInv, SrStates
  <2>3. ~ep'.ctr
    BY <2>1 DEF SrInv, SrStates
  <2>4. ep' \in SrStates
    BY <2>1 DEF SrInv, SrStates
  <2>5. SR!Full(ep') = SR!Full(ep) /\ SrFull(ep') = SrFull(ep)
    BY <2>2, SrSame
  <2>6. SR!Queue(ep') = SR!Queue(ep)
    BY <2>2, <2>5 DEF SR!Queue
  <2>7. ep'.pc = "idle" /\ SrFull(ep') # 0
    BY <2>1, <2>2, <2>5 DEF SrInv
  <2>8. next' \in 0 .. Numbers - 1 /\ (ep'.stopped => ep'.dtog = ep'.sw)
    BY <2>1, <2>2 DEF SrInv
  <2>9. SrInv'
    BY <2>3, <2>4, <2>7, <2>8 DEF SrInv
  <2> QED BY <2>1, <2>6, <2>9 DEF SRP!vars
<1>2. CASE SR!BusReset \/ SR!Configure
  <2>1. ep' \in {SR!Down, SR!Configured} /\ next' = next /\ last' = last
    BY <1>2 DEF SR!BusReset, SR!Configure
  <2>2. SrInv' /\ SR!Queue(ep') = <<>>
    BY <2>1, SrBlank DEF SrInv
  <2> QED BY <2>1, <2>2 DEF SRP!Next, SRP!Reset
<1>3. CASE UNCHANGED SR!vars
  BY <1>3 DEF SR!vars, SrInv, SrFull, SRP!vars, SR!Queue, SR!Full
<1> QED BY <1>1, <1>2, <1>3, SrReceived, SrRead, SrToggle DEF SR!Next

\* usbd_read() and handle_rx_transfer() of hw_usbd.c: the counterpart, with the packets the
\* host sends while one is being copied.
THEOREM Stm32RxIsAQueue ==
  SR!Init /\ [][SR!Next]_(SR!vars) => SRP!Init /\ [][SRP!Next]_(SRP!vars)
<1>1. SR!Init => SrInv /\ SRP!Init
  BY SrBlank, NumbersAssumption DEF SR!Init, SrInv, SRP!Init
<1>2. SrInv /\ [SR!Next]_(SR!vars) => SrInv' /\ [SRP!Next]_(SRP!vars)
  BY SrStep
<1> QED BY <1>1, <1>2, PTL

(******************* the DWC's, from the host ****************************)

DWP == INSTANCE PacketPipe WITH queue <- DW!Queue(ep), Capacity <- RxNr

\* Facts about sequences that the queue of ring and FIFO needs.
LEMMA SeqLast ==
  ASSUME NEW S, NEW q \in Seq(S), q # <<>>
  PROVE  q[Len(q)] \in S
<1>1. Len(q) \in 1 .. Len(q) /\ q \in [1 .. Len(q) -> S]
  OBVIOUS
<1> QED BY <1>1

LEMMA SeqAppend ==
  ASSUME NEW S, NEW q \in Seq(S), NEW r \in Seq(S), NEW x \in S
  PROVE  r \o Append(q, x) = Append(r \o q, x) /\ Len(r \o q) = Len(r) + Len(q)
OBVIOUS

LEMMA SeqTakes ==
  ASSUME NEW S, NEW q \in Seq(S), q # <<>>
  PROVE  Head(q) \in S /\ Tail(q) \in Seq(S) /\ Len(Tail(q)) = Len(q) - 1
OBVIOUS

LEMMA SeqMoves ==
  ASSUME NEW S, NEW q \in Seq(S), NEW r \in Seq(S), q # <<>>
  PROVE  r \o q = Append(r, Head(q)) \o Tail(q)
OBVIOUS

LEMMA SeqFirst ==
  ASSUME NEW S, NEW q \in Seq(S), NEW r \in Seq(S), r # <<>>
  PROVE  r \o q # <<>> /\ Head(r \o q) = Head(r) /\ Tail(r \o q) = Tail(r) \o q
OBVIOUS

\* Counters c and p that wrap at m, h apart: one more is put, or one taken.
Distance(c, p, m) == IF c <= p THEN p - c ELSE p + m - c
Successor(c, m) == IF c + 1 = m THEN 0 ELSE c + 1

LEMMA DistanceUp ==
  ASSUME NEW m \in Nat, NEW c \in 0 .. m - 1, NEW p \in 0 .. m - 1, Distance(c, p, m) < m - 1
  PROVE  /\ Distance(c, Successor(p, m), m) = Distance(c, p, m) + 1
         /\ p = c + Distance(c, p, m) \/ p + m = c + Distance(c, p, m)
BY DEF Distance, Successor

LEMMA DistanceDown ==
  ASSUME NEW m \in Nat, NEW c \in 0 .. m - 1, NEW p \in 0 .. m - 1, Distance(c, p, m) # 0
  PROVE  Distance(Successor(c, m), p, m) = Distance(c, p, m) - 1
BY DEF Distance, Successor

LEMMA DwMod ==
  ASSUME NEW n \in Nat \ {0}, NEW q \in Int, NEW r \in 0 .. n - 1
  PROVE  (n * q + r) % n = r
OBVIOUS

LEMMA DwDiv ==
  ASSUME NEW n \in Nat \ {0}, NEW a \in Int
  PROVE  a = n * (a \div n) + (a % n) /\ a % n \in 0 .. n - 1 /\ a \div n \in Int
OBVIOUS

LEMMA DwNoMultiple ==
  ASSUME NEW n \in Nat \ {0}, NEW q \in Int, NEW d \in 1 .. n - 1
  PROVE  n * q # d
<1>1. CASE q <= 0
  <2>1. n * q <= 0
    BY <1>1
  <2> QED BY <2>1
<1>2. CASE q >= 1
  <2>1. n * q >= n
    BY <1>2
  <2> QED BY <2>1
<1> QED BY <1>1, <1>2

\* The counters wrap at a multiple of the ring, so that a wrap leaves the slot unchanged.
LEMMA DwWrap ==
  ASSUME NEW a \in Nat
  PROVE  DW!Masked(a + CounterMod) = DW!Masked(a) /\ DW!Masked(a) \in 1 .. RxNr
<1>1. RxNr \in Nat \ {0} /\ CounterMod \in Nat /\ CounterMod % RxNr = 0
  BY RingAssumption
<1> DEFINE k == CounterMod \div RxNr
           q == a \div RxNr
           r == a % RxNr
<1>2. CounterMod = RxNr * k /\ k \in Int
  BY <1>1, DwDiv
<1>3. a = RxNr * q + r /\ r \in 0 .. RxNr - 1 /\ q \in Int
  BY <1>1, DwDiv
<1>4. DW!Masked(a) = r + 1
  BY DEF DW!Masked
<1> HIDE DEF k, q, r
<1>5. a + CounterMod = RxNr * (q + k) + r /\ q + k \in Int
  BY <1>1, <1>2, <1>3
<1>6. (RxNr * (q + k) + r) % RxNr = r
  BY <1>1, <1>3, <1>5, DwMod
<1> QED BY <1>1, <1>3, <1>4, <1>5, <1>6 DEF DW!Masked

\* Fewer packets than the ring has slots lie in different slots.
LEMMA DwApart ==
  ASSUME NEW a \in Nat, NEW d \in 1 .. RxNr - 1
  PROVE  DW!Masked(a) # DW!Masked(a + d)
<1>1. RxNr \in Nat \ {0} /\ a + d \in Int
  BY RingAssumption
<1> DEFINE q == a \div RxNr
           r == a % RxNr
           u == (a + d) \div RxNr
           s == (a + d) % RxNr
<1>2. a = RxNr * q + r /\ r \in Int /\ q \in Int
  BY <1>1, DwDiv
<1>3. a + d = RxNr * u + s /\ s \in Int /\ u \in Int
  BY <1>1, DwDiv
<1>4. DW!Masked(a) = r + 1 /\ DW!Masked(a + d) = s + 1
  BY DEF DW!Masked
<1> HIDE DEF q, r, u, s
<1>5. ASSUME r = s PROVE FALSE
  <2>1. RxNr * (u - q) = d /\ u - q \in Int
    BY <1>1, <1>2, <1>3, <1>5
  <2> QED BY <1>1, <2>1, DwNoMultiple
<1> QED BY <1>2, <1>3, <1>4, <1>5

DwStates ==
  [up : BOOLEAN, rx : [1 .. RxNr -> 0 .. Numbers - 1], rxc : 0 .. CounterMod - 1,
   rxp : 0 .. CounterMod - 1, active : BOOLEAN, posted : 0 .. RxNr, fifo : Seq(0 .. Numbers),
   done : BOOLEAN, dead : BOOLEAN]

\* A counter's successor, and how many packets the ring holds.
LEMMA DwCount ==
  ASSUME NEW c \in 0 .. CounterMod - 1
  PROVE  /\ (c + 1) % CounterMod = Successor(c, CounterMod)
         /\ (c + 1) % CounterMod \in 0 .. CounterMod - 1
<1>1. CounterMod \in Nat \ {0}
  BY RingAssumption
<1>2. CASE c + 1 = CounterMod
  <2>1. (c + 1) % CounterMod = 0
    BY <1>1, <1>2
  <2> QED BY <1>1, <1>2, <2>1 DEF Successor
<1>3. CASE c + 1 # CounterMod
  <2>1. (c + 1) % CounterMod = c + 1
    BY <1>1, <1>3
  <2> QED BY <1>1, <1>3, <2>1 DEF Successor
<1> QED BY <1>2, <1>3

LEMMA DwHeld ==
  ASSUME NEW e, e.rxc \in 0 .. CounterMod - 1, e.rxp \in 0 .. CounterMod - 1
  PROVE  /\ DW!Held(e) = Distance(e.rxc, e.rxp, CounterMod)
         /\ DW!Held(e) \in Nat
<1> DEFINE c == e.rxc
           p == e.rxp
<1>1. CounterMod \in Nat \ {0} /\ DW!Held(e) = (p + CounterMod - c) % CounterMod
  BY RingAssumption DEF DW!Held
<1>2. c \in 0 .. CounterMod - 1 /\ p \in 0 .. CounterMod - 1
  OBVIOUS
<1> HIDE DEF c, p
<1>3. CASE c <= p
  <2> DEFINE x == p - c
  <2>1. x \in 0 .. CounterMod - 1 /\ p + CounterMod - c = CounterMod * 1 + x
    BY <1>1, <1>2, <1>3
  <2> HIDE DEF x
  <2>2. (CounterMod * 1 + x) % CounterMod = x
    BY <1>1, <2>1, DwMod
  <2> QED BY <1>1, <1>3, <2>1, <2>2 DEF x, c, p, Distance
<1>4. CASE ~(c <= p)
  <2> DEFINE x == p + CounterMod - c
  <2>1. x \in 0 .. CounterMod - 1
    BY <1>1, <1>2, <1>4
  <2>2. x % CounterMod = x
    BY <1>1, <2>1
  <2> QED BY <1>1, <1>4, <2>1, <2>2 DEF c, p, Distance
<1> QED BY <1>3, <1>4

DwRing(e) == [i \in 1 .. DW!Held(e) |-> e.rx[DW!Masked(e.rxc + i - 1)]]

\* A transfer that is posted, and the packets q of it that are in the FIFO: they find room in
\* the ring, and nothing comes after the transfer's end.
DwTransfer(e, q) ==
  /\ DW!Held(e) + e.posted + Len(q) <= RxNr
  /\ \/ ~e.active /\ e.posted = 0 /\ q = <<>> /\ e.fifo = <<>> /\ ~e.done
     \/ e.active /\ e.posted > 0 /\ e.fifo = q /\ ~e.done
     \/ e.active /\ e.posted = 0 /\ e.fifo = Append(q, Numbers) /\ ~e.done
     \/ e.active /\ e.posted = 0 /\ q = <<>> /\ e.fifo = <<>> /\ e.done

\* The inductive invariant.
DwInv ==
  /\ ep \in DwStates /\ next \in 0 .. Numbers - 1
  /\ ~ep.dead
  /\ \E q \in Seq(0 .. Numbers - 1) : DwTransfer(ep, q)

LEMMA DwPackets ==
  ASSUME NEW q \in Seq(0 .. Numbers - 1)
  PROVE  /\ DW!Packets(q) = q /\ DW!Packets(Append(q, Numbers)) = q
         /\ Append(q, Numbers) \in Seq(0 .. Numbers) /\ q \in Seq(0 .. Numbers)
<1>1. Numbers \in Nat \ {0}
  BY NumbersAssumption
<1>2. DW!Packets(q) = q
  <2>1. q # <<>> => q[Len(q)] \in 0 .. Numbers - 1
    BY SeqLast
  <2> QED BY <1>1, <2>1 DEF DW!Packets, DW!Done
<1> DEFINE f == Append(q, Numbers)
<1>3. f \in Seq(0 .. Numbers) /\ q \in Seq(0 .. Numbers)
  BY <1>1
<1>4. f # <<>> /\ f[Len(f)] = Numbers /\ Len(f) - 1 = Len(q) /\ SubSeq(f, 1, Len(q)) = q
  OBVIOUS
<1> HIDE DEF f
<1>5. DW!Packets(f) = q
  BY <1>4 DEF DW!Packets, DW!Done
<1> QED BY <1>2, <1>3, <1>5 DEF f

\* What is under way: the ring, then the FIFO.
LEMMA DwQueue ==
  ASSUME NEW e \in DwStates, NEW q \in Seq(0 .. Numbers - 1), DwTransfer(e, q)
  PROVE  /\ DW!Queue(e) = DwRing(e) \o q
         /\ DwRing(e) \in Seq(0 .. Numbers - 1) /\ Len(DwRing(e)) = DW!Held(e)
         /\ DW!Held(e) \in Nat
<1>1. e.rxc \in 0 .. CounterMod - 1 /\ e.rxp \in 0 .. CounterMod - 1
      /\ e.rx \in [1 .. RxNr -> 0 .. Numbers - 1] /\ CounterMod \in Nat
  BY RingAssumption DEF DwStates
<1>2. DW!Held(e) \in Nat
  BY <1>1, DwHeld
<1>3. DW!Packets(<<>>) = <<>>
  <2>1. <<>> \in Seq(0 .. Numbers - 1)
    OBVIOUS
  <2> QED BY <2>1, DwPackets
<1>4. DW!Packets(e.fifo) = q
  BY <1>3, DwPackets DEF DwTransfer
<1>5. \A i \in 1 .. DW!Held(e) : e.rx[DW!Masked(e.rxc + i - 1)] \in 0 .. Numbers - 1
  <2> TAKE i \in 1 .. DW!Held(e)
  <2>1. e.rxc + i - 1 \in Nat
    BY <1>1, <1>2
  <2>2. DW!Masked(e.rxc + i - 1) \in 1 .. RxNr
    BY <2>1, DwWrap
  <2> QED BY <1>1, <2>2
<1>6. DwRing(e) \in Seq(0 .. Numbers - 1) /\ Len(DwRing(e)) = DW!Held(e)
  <2> DEFINE h == DW!Held(e)
             Slot(i) == e.rx[DW!Masked(e.rxc + i - 1)]
  <2>1. DwRing(e) = [i \in 1 .. h |-> Slot(i)]
    BY DEF DwRing
  <2>2. h \in Nat /\ \A i \in 1 .. h : Slot(i) \in 0 .. Numbers - 1
    BY <1>2, <1>5
  <2> HIDE DEF h, Slot
  <2>3. DwRing(e) \in Seq(0 .. Numbers - 1) /\ Len(DwRing(e)) = h
    BY <2>1, <2>2
  <2> QED BY <2>3 DEF h
<1>7. DW!Queue(e) = DwRing(e) \o DW!Packets(e.fifo)
  BY DEF DW!Queue, DwRing
<1> QED BY <1>2, <1>4, <1>6, <1>7

\* prepare_rx() posts at most what there is room for.
LEMMA DwPrepare ==
  ASSUME NEW e \in DwStates, NEW q \in Seq(0 .. Numbers - 1), DwTransfer(e, q), ~e.dead
  PROVE  /\ DW!PrepareRx(e) \in DwStates /\ DwTransfer(DW!PrepareRx(e), q)
         /\ ~DW!PrepareRx(e).dead /\ DwRing(DW!PrepareRx(e)) = DwRing(e)
<1> DEFINE free == RxNr - DW!Held(e)
           f == [e EXCEPT !.posted = free, !.active = TRUE]
<1>1. CASE e.active \/ free <= RxNr \div 2
  BY <1>1 DEF DW!PrepareRx
<1>2. CASE ~e.active /\ ~(free <= RxNr \div 2)
  <2>1. DW!PrepareRx(e) = f
    BY <1>2 DEF DW!PrepareRx
  <2>2. DW!Held(e) \in Nat /\ Len(q) \in Nat /\ RxNr \in Nat \ {0} /\ RxNr \div 2 \in Nat
    BY DwQueue, RingAssumption
  <2>3. free \in 0 .. RxNr /\ free > 0
    BY <1>2, <2>2 DEF DwTransfer, DwStates
  <2> HIDE DEF free
  <2>4. f \in DwStates
    BY <2>3 DEF DwStates
  <2>5. /\ f.posted = free /\ f.rxc = e.rxc /\ f.rxp = e.rxp /\ f.rx = e.rx
        /\ f.fifo = e.fifo
    BY DEF DwStates
  <2>6. f.active /\ (f.done <=> e.done) /\ (f.dead <=> e.dead)
    BY DEF DwStates
  <2> HIDE DEF f
  <2>7. DW!Held(f) = DW!Held(e)
    BY <2>5 DEF DW!Held
  <2>8. DwRing(f) = DwRing(e)
    BY <2>5, <2>7 DEF DwRing
  <2>9. q = <<>> /\ e.fifo = <<>> /\ ~e.done
    BY <1>2 DEF DwTransfer
  <2>10. DW!Held(f) + f.posted + Len(q) <= RxNr
    BY <2>2, <2>5, <2>7, <2>9 DEF free
  <2>11. DwTransfer(f, q)
    BY <2>3, <2>5, <2>6, <2>9, <2>10 DEF DwTransfer
  <2> QED BY <2>1, <2>4, <2>6, <2>8, <2>11
<1> QED BY <1>1, <1>2

LEMMA DwBlank ==
  ASSUME NEW e \in {DW!Configured, DW!Blank}
  PROVE  /\ e \in DwStates /\ ~e.dead /\ \E q \in Seq(0 .. Numbers - 1) : DwTransfer(e, q)
         /\ DW!Queue(e) = <<>>
<1> DEFINE rx == [i \in 1 .. RxNr |-> 0]
           b == [DW!Blank EXCEPT !.up = TRUE]
           z == <<>>
<1>1. rx \in [1 .. RxNr -> 0 .. Numbers - 1] /\ 0 \in 0 .. CounterMod - 1 /\ 0 \in 0 .. RxNr
  BY NumbersAssumption, RingAssumption
<1>2. z \in Seq(0 .. Numbers) /\ z \in Seq(0 .. Numbers - 1) /\ Len(z) = 0
  OBVIOUS
<1>3. ASSUME NEW d \in {DW!Blank, b}
      PROVE  d \in DwStates /\ ~d.dead /\ DwTransfer(d, z) /\ DwRing(d) = <<>>
  <2>1. \E u \in BOOLEAN :
          d = [up |-> u, rx |-> rx, rxc |-> 0, rxp |-> 0, active |-> FALSE, posted |-> 0,
               fifo |-> z, done |-> FALSE, dead |-> FALSE]
    BY DEF DW!Blank
  <2> HIDE DEF rx, b
  <2>2. d \in DwStates
    <3> HIDE DEF z
    <3> QED BY <1>1, <1>2, <2>1 DEF DwStates
  <2>3. /\ d.rxc = 0 /\ d.rxp = 0 /\ ~d.active /\ d.posted = 0 /\ d.fifo = z /\ ~d.done /\ ~d.dead
    BY <2>1
  <2>4. DW!Held(d) = 0
    BY <1>1, <2>3, DwHeld DEF Distance
  <2>5. DwRing(d) = <<>>
    BY <2>4 DEF DwRing
  <2>6. DwTransfer(d, z)
    BY <1>2, <2>3, <2>4, RingAssumption DEF DwTransfer
  <2> QED BY <2>2, <2>3, <2>5, <2>6
<1>4. \E d \in {DW!Blank, b} : e = d \/ e = DW!PrepareRx(d)
  BY DEF DW!Configured
<1> HIDE DEF b, z
<1>5. e \in DwStates /\ ~e.dead /\ DwTransfer(e, z) /\ DwRing(e) = <<>>
  BY <1>2, <1>3, <1>4, DwPrepare
<1>6. DW!Queue(e) = <<>> \o z
  BY <1>2, <1>5, DwQueue
<1>7. DW!Queue(e) = <<>>
  BY <1>6 DEF z
<1> QED BY <1>2, <1>5, <1>7

\* A packet of the posted transfer is acknowledged.
LEMMA DwReceived ==
  ASSUME DwInv, NEW short \in BOOLEAN, DW!Received(short)
  PROVE  DwInv' /\ [DWP!Next]_(DWP!vars)
<1> PICK q \in Seq(0 .. Numbers - 1) : DwTransfer(ep, q)
  BY DEF DwInv
<1> DEFINE ends == short \/ ep.posted = 1
           left == IF ends THEN 0 ELSE ep.posted - 1
           f == ep.fifo \o (IF ends THEN <<next, DW!Done>> ELSE <<next>>)
           p == Append(q, next)
<1>1. /\ ep.posted > 0 /\ ep' = [ep EXCEPT !.posted = left, !.fifo = f]
      /\ next' = (next + 1) % Numbers /\ last' = last
  BY DEF DW!Received
<1>2. ep.active /\ ep.fifo = q /\ ~ep.done /\ DW!Held(ep) + ep.posted + Len(q) <= RxNr
  BY <1>1 DEF DwTransfer
<1>3. /\ Numbers \in Nat \ {0} /\ next \in 0 .. Numbers - 1 /\ ep.posted \in 1 .. RxNr /\ RxNr \in Nat
      /\ ep \in DwStates /\ ~ep.dead
  BY <1>1, NumbersAssumption, RingAssumption DEF DwInv, DwStates
<1>4. next' \in 0 .. Numbers - 1
  BY <1>1, <1>3
<1>5. left \in 0 .. RxNr /\ left < ep.posted /\ (ends <=> left = 0)
  BY <1>3
<1>6. p \in Seq(0 .. Numbers - 1) /\ Len(p) = Len(q) + 1 /\ Len(q) \in Nat
  BY <1>3
<1>7. f = IF ends THEN Append(p, Numbers) ELSE p
  <2>1. q \o <<next>> = Append(q, next)
    BY <1>3
  <2>2. q \o <<next, Numbers>> = Append(Append(q, next), Numbers)
    BY <1>3
  <2> QED BY <1>2, <2>1, <2>2 DEF DW!Done
<1>8. f \in Seq(0 .. Numbers)
  BY <1>6, <1>7, DwPackets
<1> HIDE DEF left, f, p
<1>9. ep' \in DwStates
  BY <1>1, <1>3, <1>5, <1>8 DEF DwStates
<1>10. /\ ep'.posted = left /\ ep'.fifo = f /\ ep'.rxc = ep.rxc /\ ep'.rxp = ep.rxp /\ ep'.rx = ep.rx
  BY <1>1, <1>3 DEF DwStates
<1>11. (ep'.active <=> ep.active) /\ (ep'.done <=> ep.done) /\ (ep'.dead <=> ep.dead)
  BY <1>1, <1>3 DEF DwStates
<1>12. DW!Held(ep') = DW!Held(ep) /\ DwRing(ep') = DwRing(ep)
  <2>1. DW!Held(ep') = DW!Held(ep)
    BY <1>10 DEF DW!Held
  <2> QED BY <1>10, <2>1 DEF DwRing
<1>13. DW!Held(ep) \in Nat /\ DW!Queue(ep) = DwRing(ep) \o q /\ Len(DwRing(ep)) = DW!Held(ep)
       /\ DwRing(ep) \in Seq(0 .. Numbers - 1)
  BY <1>3, DwQueue
<1>14. DwTransfer(ep', p)
  <2>1. DW!Held(ep') + ep'.posted + Len(p) <= RxNr
    BY <1>2, <1>3, <1>5, <1>6, <1>10, <1>12, <1>13
  <2>2. ends => ep'.posted = 0 /\ ep'.fifo = Append(p, Numbers)
    BY <1>5, <1>7, <1>10
  <2>3. ~ends => ep'.posted > 0 /\ ep'.fifo = p
    BY <1>5, <1>7, <1>10
  <2>4. ep'.active /\ ~ep'.done
    BY <1>2, <1>11
  <2> QED BY <2>1, <2>2, <2>3, <2>4 DEF DwTransfer
<1>15. DwInv'
  BY <1>3, <1>4, <1>6, <1>9, <1>11, <1>14 DEF DwInv
<1>16. DW!Queue(ep') = DwRing(ep) \o p
  BY <1>6, <1>9, <1>12, <1>14, DwQueue
<1>17. DW!Queue(ep') = Append(DW!Queue(ep), next) /\ Len(DW!Queue(ep)) < RxNr
  <2> DEFINE r == DwRing(ep)
  <2>1. r \in Seq(0 .. Numbers - 1) /\ Len(r) = DW!Held(ep)
    BY <1>13
  <2> HIDE DEF r
  <2>2. r \o Append(q, next) = Append(r \o q, next) /\ Len(r \o q) = Len(r) + Len(q)
    BY <1>3, <2>1, SeqAppend
  <2>3. Len(r \o q) < RxNr
    BY <1>2, <1>3, <1>6, <1>13, <2>1, <2>2
  <2> QED BY <1>13, <1>16, <2>2, <2>3 DEF r, p
<1> QED BY <1>1, <1>15, <1>17 DEF DWP!Next, DWP!Put

\* The main loop takes a packet, or the end of the transfer, out of the FIFO: its two ASSERTs
\* hold.
LEMMA DwPopFifo ==
  ASSUME DwInv, DW!PopFifo
  PROVE  DwInv' /\ [DWP!Next]_(DWP!vars)
<1> PICK q \in Seq(0 .. Numbers - 1) : DwTransfer(ep, q)
  BY DEF DwInv
<1>1. ep.fifo # <<>> /\ next' = next /\ last' = last /\ ep.active
  BY DEF DW!PopFifo, DwTransfer
<1>2. /\ ep \in DwStates /\ next \in 0 .. Numbers - 1 /\ ~ep.dead /\ Numbers \in Nat \ {0}
      /\ RxNr \in Nat \ {0} /\ Len(q) \in Nat
  BY NumbersAssumption, RingAssumption DEF DwInv
<1>3. DW!Held(ep) \in Nat /\ DW!Queue(ep) = DwRing(ep) \o q /\ Len(DwRing(ep)) = DW!Held(ep)
      /\ DwRing(ep) \in Seq(0 .. Numbers - 1)
  BY <1>2, DwQueue
<1>4. CASE q = <<>>
  <2>1. ep.fifo = <<Numbers>> /\ ep.posted = 0 /\ ~ep.done
    <3>1. Append(<<>>, Numbers) = <<Numbers>>
      OBVIOUS
    <3> QED BY <1>1, <1>4, <3>1 DEF DwTransfer
  <2>2. Head(ep.fifo) = DW!Done /\ Tail(ep.fifo) = <<>>
    BY <2>1 DEF DW!Done
  <2>3. ep' = [ep EXCEPT !.fifo = <<>>, !.done = TRUE]
    BY <2>2 DEF DW!PopFifo
  <2>4. <<>> \in Seq(0 .. Numbers)
    OBVIOUS
  <2>5. ep' \in DwStates
    BY <1>2, <2>3, <2>4 DEF DwStates
  <2>6. /\ ep'.fifo = <<>> /\ ep'.rxc = ep.rxc /\ ep'.rxp = ep.rxp /\ ep'.rx = ep.rx
        /\ ep'.posted = ep.posted
    BY <1>2, <2>3 DEF DwStates
  <2>7. ep'.done /\ ep'.active /\ ~ep'.dead
    BY <1>1, <1>2, <2>3 DEF DwStates
  <2>8. DW!Held(ep') = DW!Held(ep)
    BY <2>6 DEF DW!Held
  <2>9. DwRing(ep') = DwRing(ep)
    BY <2>6, <2>8 DEF DwRing
  <2>10. DwTransfer(ep', q)
    BY <1>4, <2>1, <2>6, <2>7, <2>8 DEF DwTransfer
  <2>11. DW!Queue(ep') = DW!Queue(ep)
    BY <1>3, <2>5, <2>9, <2>10, DwQueue
  <2>12. DwInv'
    BY <1>1, <1>2, <2>5, <2>7, <2>10 DEF DwInv
  <2> QED BY <1>1, <2>11, <2>12 DEF DWP!vars
<1>5. CASE q # <<>>
  <2> DEFINE p == Head(q)
             t == Tail(q)
             h == DW!Held(ep)
             g == Tail(ep.fifo)
             slot == DW!Masked(ep.rxp)
             rx == [ep.rx EXCEPT ![slot] = p]
             c == (ep.rxp + 1) % CounterMod
  <2>1. /\ p \in 0 .. Numbers - 1 /\ t \in Seq(0 .. Numbers - 1) /\ Len(t) = Len(q) - 1
    BY <1>2, <1>5, SeqTakes
  <2>2. /\ Head(ep.fifo) = p
        /\ \/ ep.fifo = q /\ g = t /\ ep.posted > 0
           \/ ep.fifo = Append(q, Numbers) /\ g = Append(t, Numbers) /\ ep.posted = 0
        /\ ~ep.done
    <3>1. Head(Append(q, Numbers)) = Head(q) /\ Tail(Append(q, Numbers)) = Append(Tail(q), Numbers)
      BY <1>2, <1>5
    <3> QED BY <1>1, <1>5, <3>1 DEF DwTransfer
  <2>3. h < RxNr
    BY <1>2, <1>3, <1>5, <2>1 DEF DwTransfer, DwStates
  <2>4. ep' = [ep EXCEPT !.fifo = g, !.rx = rx, !.rxp = c]
    <3>1. Head(ep.fifo) # DW!Done
      BY <1>2, <2>1, <2>2 DEF DW!Done
    <3>2. ~(~ep.active \/ DW!Held(ep) >= RxNr)
      BY <1>1, <1>2, <1>3, <2>3
    <3> QED BY <1>2, <2>2, <3>1, <3>2 DEF DW!PopFifo, DwStates
  <2>5. /\ ep.rxc \in 0 .. CounterMod - 1 /\ ep.rxp \in 0 .. CounterMod - 1 /\ CounterMod \in Nat
        /\ CounterMod > RxNr /\ ep.rx \in [1 .. RxNr -> 0 .. Numbers - 1]
    BY <1>2, RingAssumption DEF DwStates
  <2>6. c = Successor(ep.rxp, CounterMod) /\ c \in 0 .. CounterMod - 1
    BY <2>5, DwCount
  <2>7. slot \in 1 .. RxNr
    <3>1. ep.rxp \in Nat
      BY <2>5
    <3> QED BY <3>1, DwWrap
  <2>8. /\ rx \in [1 .. RxNr -> 0 .. Numbers - 1] /\ rx[slot] = p
        /\ \A i \in 1 .. RxNr : i # slot => rx[i] = ep.rx[i]
    BY <2>1, <2>5, <2>7
  <2>9. g \in Seq(0 .. Numbers)
    BY <2>1, <2>2, DwPackets
  <2> HIDE DEF c, g, rx, p, t
  <2>10. ep' \in DwStates
    BY <1>2, <2>4, <2>6, <2>8, <2>9 DEF DwStates
  <2>11. /\ ep'.fifo = g /\ ep'.rxc = ep.rxc /\ ep'.rxp = c /\ ep'.rx = rx /\ ep'.posted = ep.posted
    BY <1>2, <2>4 DEF DwStates
  <2>12. ep'.active /\ ~ep'.dead /\ ~ep'.done
    BY <1>1, <1>2, <2>2, <2>4 DEF DwStates
  <2>13. h = Distance(ep.rxc, ep.rxp, CounterMod) /\ DW!Held(ep') = Distance(ep.rxc, c, CounterMod)
    BY <2>5, <2>6, <2>11, DwHeld
  <2>14. DW!Held(ep') = h + 1 /\ (ep.rxp = ep.rxc + h \/ ep.rxp + CounterMod = ep.rxc + h)
    <3>1. h < CounterMod - 1
      BY <1>2, <1>3, <2>3, <2>5
    <3> HIDE DEF h
    <3> QED BY <2>5, <2>6, <2>13, <3>1, DistanceUp
  <2>15. DwTransfer(ep', t)
    <3>1. DW!Held(ep') + ep'.posted + Len(t) <= RxNr
      BY <1>2, <1>3, <2>1, <2>11, <2>14 DEF DwTransfer, DwStates
    <3>2. (ep'.fifo = t /\ ep'.posted > 0) \/ (ep'.fifo = Append(t, Numbers) /\ ep'.posted = 0)
      BY <2>2, <2>11
    <3> QED BY <2>12, <3>1, <3>2 DEF DwTransfer
  <2>16. slot = DW!Masked(ep.rxc + h)
    <3>1. ep.rxp \in Nat
      BY <2>5
    <3>2. DW!Masked(ep.rxp + CounterMod) = DW!Masked(ep.rxp)
      BY <3>1, DwWrap
    <3> QED BY <2>14, <3>2
  <2>17. \A i \in 1 .. h : rx[DW!Masked(ep.rxc + i - 1)] = ep.rx[DW!Masked(ep.rxc + i - 1)]
    <3> TAKE i \in 1 .. h
    <3> DEFINE a == ep.rxc + i - 1
               d == h - i + 1
    <3>1. a \in Nat /\ d \in 1 .. RxNr - 1 /\ a + d = ep.rxc + h
      <4>1. h \in Nat /\ h < RxNr /\ RxNr \in Nat /\ ep.rxc \in Nat
        BY <1>2, <1>3, <2>3, <2>5
      <4> HIDE DEF h
      <4> QED BY <4>1
    <3> HIDE DEF a, d
    <3>2. DW!Masked(a) # slot /\ DW!Masked(a) \in 1 .. RxNr
      BY <2>16, <3>1, DwApart, DwWrap
    <3>3. rx[DW!Masked(a)] = ep.rx[DW!Masked(a)]
      BY <2>8, <3>2
    <3> QED BY <3>3 DEF a
  <2>18. DwRing(ep') = Append(DwRing(ep), p)
    <3> DEFINE r == DwRing(ep)
               s == DwRing(ep')
    <3>1. s = [i \in 1 .. h + 1 |-> rx[DW!Masked(ep.rxc + i - 1)]]
      BY <2>11, <2>14 DEF DwRing
    <3>2. r = [i \in 1 .. h |-> ep.rx[DW!Masked(ep.rxc + i - 1)]]
      BY DEF DwRing
    <3>3. rx[DW!Masked(ep.rxc + (h + 1) - 1)] = p
      <4>1. ep.rxc + (h + 1) - 1 = ep.rxc + h
        BY <1>3, <2>5
      <4> QED BY <2>8, <2>16, <4>1
    <3>4. r \in Seq(0 .. Numbers - 1) /\ Len(r) = h /\ h \in Nat
      BY <1>3
    <3>5. s \in Seq(0 .. Numbers - 1) /\ Len(s) = h + 1
      BY <2>10, <2>14, <2>15, <2>1, DwQueue
    <3>6. \A i \in 1 .. h : s[i] = r[i]
      <4> TAKE i \in 1 .. h
      <4>1. i \in 1 .. h + 1
        BY <1>3
      <4> HIDE DEF r, s
      <4> QED BY <2>17, <3>1, <3>2, <4>1
    <3>7. s[h + 1] = p
      <4>1. h + 1 \in 1 .. h + 1
        BY <1>3
      <4> HIDE DEF s
      <4> QED BY <3>1, <3>3, <4>1
    <3> HIDE DEF r, s, h
    <3>8. s = Append(r, p)
      BY <2>1, <3>4, <3>5, <3>6, <3>7
    <3> QED BY <3>8 DEF r, s
  <2>19. DW!Queue(ep') = DW!Queue(ep)
    <3>1. DW!Queue(ep') = DwRing(ep') \o t
      BY <2>1, <2>10, <2>15, DwQueue
    <3>2. DwRing(ep) \o q = Append(DwRing(ep), p) \o t
      BY <1>2, <1>3, <1>5, SeqMoves DEF p, t
    <3> QED BY <1>3, <2>18, <3>1, <3>2
  <2>20. DwInv'
    BY <1>1, <1>2, <2>1, <2>10, <2>12, <2>15 DEF DwInv
  <2> QED BY <1>1, <2>19, <2>20 DEF DWP!vars
<1> QED BY <1>4, <1>5

LEMMA DwTransferEnds ==
  ASSUME DwInv, DW!TransferEnds
  PROVE  DwInv' /\ [DWP!Next]_(DWP!vars)
<1> PICK q \in Seq(0 .. Numbers - 1) : DwTransfer(ep, q)
  BY DEF DwInv
<1> DEFINE e == [ep EXCEPT !.done = FALSE, !.active = FALSE]
<1>1. /\ ep.active /\ q = <<>> /\ ep.fifo = <<>> /\ ep.posted = 0 /\ next' = next /\ last' = last
      /\ ep' = DW!PrepareRx(e)
  BY DEF DW!TransferEnds, DwTransfer
<1>2. ep \in DwStates /\ next \in 0 .. Numbers - 1 /\ ~ep.dead
  BY DEF DwInv
<1>3. e \in DwStates
  BY <1>2 DEF DwStates
<1>4. /\ e.fifo = ep.fifo /\ e.rxc = ep.rxc /\ e.rxp = ep.rxp /\ e.rx = ep.rx /\ e.posted = ep.posted
  BY <1>2 DEF DwStates
<1>5. ~e.active /\ ~e.done /\ ~e.dead
  BY <1>2 DEF DwStates
<1> HIDE DEF e
<1>6. DW!Held(e) = DW!Held(ep)
  BY <1>4 DEF DW!Held
<1>7. DwRing(e) = DwRing(ep)
  BY <1>4, <1>6 DEF DwRing
<1>8. DwTransfer(e, q)
  BY <1>1, <1>4, <1>5, <1>6 DEF DwTransfer
<1>9. ep' \in DwStates /\ DwTransfer(ep', q) /\ ~ep'.dead /\ DwRing(ep') = DwRing(ep)
  BY <1>1, <1>3, <1>5, <1>7, <1>8, DwPrepare
<1>10. DW!Queue(ep') = DW!Queue(ep)
  BY <1>2, <1>9, DwQueue
<1>11. DwInv'
  BY <1>1, <1>2, <1>9 DEF DwInv
<1> QED BY <1>1, <1>10, <1>11 DEF DWP!vars

LEMMA DwRead ==
  ASSUME DwInv, DW!Read
  PROVE  DwInv' /\ [DWP!Next]_(DWP!vars)
<1> PICK q \in Seq(0 .. Numbers - 1) : DwTransfer(ep, q)
  BY DEF DwInv
<1> DEFINE h == DW!Held(ep)
           c == (ep.rxc + 1) % CounterMod
           e == [ep EXCEPT !.rxc = c]
           r == DwRing(ep)
           s == DwRing(e)
<1>1. h # 0 /\ next' = next /\ last' = ep.rx[DW!Masked(ep.rxc)] /\ ep' = DW!PrepareRx(e)
  BY DEF DW!Read
<1>2. ep \in DwStates /\ next \in 0 .. Numbers - 1 /\ ~ep.dead
  BY DEF DwInv
<1>3. h \in Nat /\ DW!Queue(ep) = r \o q /\ Len(r) = h /\ r \in Seq(0 .. Numbers - 1)
  BY <1>2, DwQueue
<1>4. /\ ep.rxc \in 0 .. CounterMod - 1 /\ ep.rxp \in 0 .. CounterMod - 1 /\ CounterMod \in Nat
      /\ CounterMod > RxNr /\ RxNr \in Nat
  BY <1>2, RingAssumption DEF DwStates
<1>5. c = Successor(ep.rxc, CounterMod) /\ c \in 0 .. CounterMod - 1
  BY <1>4, DwCount
<1> HIDE DEF c
<1>6. e \in DwStates
  BY <1>2, <1>5 DEF DwStates
<1>7. /\ e.fifo = ep.fifo /\ e.rxc = c /\ e.rxp = ep.rxp /\ e.rx = ep.rx /\ e.posted = ep.posted
  BY <1>2 DEF DwStates
<1>8. (e.active <=> ep.active) /\ (e.done <=> ep.done) /\ ~e.dead
  BY <1>2 DEF DwStates
<1> HIDE DEF e
<1>9. DW!Held(e) = h - 1
  <2>1. h = Distance(ep.rxc, ep.rxp, CounterMod) /\ DW!Held(e) = Distance(c, ep.rxp, CounterMod)
    BY <1>4, <1>5, <1>7, DwHeld
  <2> HIDE DEF h
  <2> QED BY <1>1, <1>4, <1>5, <2>1, DistanceDown
<1>10. DwTransfer(e, q)
  <2>1. DW!Held(e) + e.posted + Len(q) <= RxNr
    BY <1>2, <1>3, <1>4, <1>7, <1>9 DEF DwTransfer, DwStates
  <2> QED BY <1>7, <1>8, <2>1 DEF DwTransfer
<1>11. s \in Seq(0 .. Numbers - 1) /\ Len(s) = h - 1
  BY <1>6, <1>9, <1>10, DwQueue
<1>12. r # <<>> /\ Head(r) = ep.rx[DW!Masked(ep.rxc)]
  <2> DEFINE Slot(i) == ep.rx[DW!Masked(ep.rxc + i - 1)]
  <2>1. r = [i \in 1 .. h |-> Slot(i)] /\ 1 \in 1 .. h
    BY <1>1, <1>3 DEF DwRing
  <2>2. Slot(1) = ep.rx[DW!Masked(ep.rxc)]
    <3>1. ep.rxc + 1 - 1 = ep.rxc
      BY <1>4
    <3> QED BY <3>1
  <2> HIDE DEF Slot, r, h
  <2>3. r[1] = Slot(1)
    BY <2>1
  <2>4. r # <<>> /\ Head(r) = r[1]
    BY <1>1, <1>3
  <2> QED BY <2>2, <2>3, <2>4
<1>13. s = Tail(r)
  <2>1. \A i \in 1 .. h - 1 : s[i] = r[i + 1]
    <3> TAKE i \in 1 .. h - 1
    <3>1. s[i] = ep.rx[DW!Masked(c + i - 1)]
      BY <1>7, <1>9 DEF DwRing
    <3>2. i + 1 \in 1 .. h /\ ep.rxc + (i + 1) - 1 = ep.rxc + i /\ c + i - 1 \in Nat
      BY <1>3, <1>4, <1>5
    <3>3. (c = 0 /\ ep.rxc + 1 = CounterMod) \/ c = ep.rxc + 1
      BY <1>5 DEF Successor
    <3>4. r[i + 1] = ep.rx[DW!Masked(ep.rxc + i)]
      <4>1. r[i + 1] = ep.rx[DW!Masked(ep.rxc + (i + 1) - 1)]
        BY <3>2 DEF DwRing
      <4> HIDE DEF r
      <4> QED BY <3>2, <4>1
    <3>5. DW!Masked(c + i - 1) = DW!Masked(ep.rxc + i)
      <4>1. ep.rxc + i = c + i - 1 \/ ep.rxc + i = (c + i - 1) + CounterMod
        BY <1>3, <1>4, <1>5, <3>3
      <4> QED BY <3>2, <4>1, DwWrap
    <3> HIDE DEF r, s
    <3> QED BY <3>1, <3>4, <3>5
  <2> HIDE DEF r, s, h
  <2> QED BY <1>1, <1>3, <1>11, <1>12, <2>1
<1>14. ep' \in DwStates /\ DwTransfer(ep', q) /\ ~ep'.dead /\ DwRing(ep') = s
  BY <1>1, <1>6, <1>8, <1>10, DwPrepare
<1>15. DW!Queue(ep') = s \o q
  BY <1>14, DwQueue
<1> HIDE DEF r, s, h
<1>16. /\ DW!Queue(ep) # <<>> /\ Head(DW!Queue(ep)) = last' /\ DW!Queue(ep') = Tail(DW!Queue(ep))
  <2>1. r \o q # <<>> /\ Head(r \o q) = Head(r) /\ Tail(r \o q) = Tail(r) \o q
    <3>1. r # <<>> /\ next \in 0 .. Numbers - 1 /\ r \in Seq(0 .. Numbers - 1)
      BY <1>2, <1>3, <1>12
    <3> QED BY <3>1, SeqFirst
  <2> QED BY <1>1, <1>3, <1>12, <1>13, <1>15, <2>1
<1>17. DwInv'
  BY <1>1, <1>2, <1>14 DEF DwInv
<1> QED BY <1>1, <1>16, <1>17 DEF DWP!Next, DWP!Get

LEMMA DwStep ==
  ASSUME DwInv, [DW!Next]_(DW!vars)
  PROVE  DwInv' /\ [DWP!Next]_(DWP!vars)
<1>1. CASE DW!BusReset \/ DW!Configure
  <2>1. ep' \in {DW!Configured, DW!Blank} /\ next' = next /\ last' = last
    BY <1>1 DEF DW!BusReset, DW!Configure
  <2>2. DwInv' /\ DW!Queue(ep') = <<>>
    BY <2>1, DwBlank DEF DwInv
  <2> QED BY <2>1, <2>2 DEF DWP!Next, DWP!Reset
<1>2. CASE UNCHANGED DW!vars
  <2>1. ep' = ep /\ next' = next /\ last' = last
    BY <1>2 DEF DW!vars
  <2>2. DwInv'
    BY <2>1 DEF DwInv
  <2> QED BY <2>1, <2>2 DEF DWP!vars
<1> QED BY <1>1, <1>2, DwReceived, DwPopFifo, DwTransferEnds, DwRead DEF DW!Next

\* handle_rx_transfer(), handle_oepint(), prepare_rx() and dwc_otg_read(): a transfer is posted
\* for no more packets than the ring has room for, so that neither ASSERT fails, and the
\* wrapping counters lose, repeat or swap no packet.
THEOREM DwcRxIsAQueue ==
  DW!Init /\ [][DW!Next]_(DW!vars) => DWP!Init /\ [][DWP!Next]_(DWP!vars) /\ [](~ep.dead)
<1>1. DW!Init => DwInv /\ DWP!Init
  BY DwBlank, NumbersAssumption DEF DW!Init, DwInv, DWP!Init
<1>2. DwInv /\ [DW!Next]_(DW!vars) => DwInv' /\ [DWP!Next]_(DWP!vars)
  BY DwStep
<1>3. DwInv => ~ep.dead
  BY DEF DwInv
<1> QED BY <1>1, <1>2, <1>3, PTL

(****************************** endpoint 0 *******************************)

CtPackets == [len : Int, id : 0 .. 1, setup : BOOLEAN]
CtDevs ==
  [req : CT!Request, dataLen : Int, todo : Int, trunc : BOOLEAN, for : 0 .. 1,
   rx : CtPackets, tx : CtPackets, txReady : BOOLEAN, ctrTx : BOOLEAN, stalled : BOOLEAN,
   addr : 0 .. 2, pending : 0 .. 2]
CtHosts ==
  [stage : {"idle", "setup", "dataIn", "dataOut", "statusIn", "statusOut"}, req : CT!Request,
   got : Nat, alien : BOOLEAN, ok : BOOLEAN, addr : 0 .. 2, id : 0 .. 1, fresh : BOOLEAN]
CtTypes(d, h) == d \in CtDevs /\ h \in CtHosts

\* What the host is to get: as much as there is, or as it asked for.
Asked(h) == CT!Smaller(h.req.n, h.req.wLength)

\* One packet at a time: one to be sent, or one sent and not yet seen by the device.
OneAtATime(d) ==
  /\ d.txReady => d.tx = CT!None
  /\ d.ctrTx => d.tx = CT!None /\ ~d.txReady

\* A SETUP that waits is the transfer's own, and what was written for the last one is
\* gone; once it is read the device works for this transfer.
OwnTransfer(d, h) ==
  /\ d.rx.setup => h.stage = "setup" /\ d.tx = CT!None /\ d.rx.id = h.id
  /\ ~d.rx.setup => d.req = h.req /\ d.for = h.id
  /\ d.tx # CT!None => d.tx.id = h.id
  /\ (d.rx # CT!None /\ ~d.rx.setup) => (h.stage = "idle" \/ ~h.req.in)

\* The device is at the data or the status it sends.
Sending(d, h) == ~d.rx.setup /\ h.stage \in {"setup", "dataIn", "statusIn"}

\* A request without data to the host is answered by an empty packet.
StatusIsEmpty(d, h) ==
  ~h.req.in /\ ~d.rx.setup =>
    d.todo \in {0 - 1, 0} /\ (d.tx # CT!None => d.tx.len = 0)

\* What came, is on its way, and is left to be sent add up to what was asked for; a packet
\* that is not the last is full, and leaves the host waiting for more.
AddsUp(d, h) ==
  h.req.kind = "get" /\ Sending(d, h) =>
    /\ d.trunc <=> Asked(h) < h.req.wLength
    /\ d.todo >= 0 /\ d.tx = CT!None => h.got + d.todo = Asked(h)
    /\ d.todo >= 0 /\ d.tx # CT!None =>
         h.got + d.tx.len + d.todo = Asked(h) /\ d.tx.len = EP0_MPS /\ (d.todo > 0 \/ d.trunc)
    /\ d.todo < 0 /\ d.tx # CT!None =>
         h.got + d.tx.len = Asked(h) /\ (d.tx.len < EP0_MPS \/ Asked(h) = h.req.wLength)

\* Nothing is sent for a request nobody handles.
NothingUnknown(d, h) ==
  h.req.kind = "unknownGet" /\ Sending(d, h) => d.todo < 0 /\ d.tx = CT!None

\* Where the host is.
Stages(h) ==
  /\ h.stage = "setup" => h.got = 0
  /\ h.stage = "dataIn" => h.req.in
  /\ h.stage = "dataOut" => ~h.req.in /\ h.got <= h.req.wLength
  /\ h.stage = "statusIn" /\ h.req.in => h.req.wLength = 0 /\ h.got = 0
  /\ h.stage = "statusOut" => h.req.in
  /\ h.req.in /\ (h.stage = "statusOut" \/ (h.stage = "idle" /\ h.ok)) => h.got = Asked(h)
  /\ ~h.alien

CtInv(d, h) ==
  /\ CtTypes(d, h) /\ OneAtATime(d) /\ OwnTransfer(d, h) /\ StatusIsEmpty(d, h)
  /\ AddsUp(d, h) /\ NothingUnknown(d, h) /\ Stages(h)

\* What the requests are.
LEMMA RequestIs ==
  ASSUME NEW r \in CT!Request
  PROVE  /\ r.wLength \in Nat /\ r.n \in Nat
         /\ r.kind = "address" => r.n \in 1 .. 2
         /\ r.kind = "unknownGet" => r.wLength # 0
         /\ r.in <=> r.kind \in {"get", "unknownGet"}
         /\ r.kind \in {"get", "unknownGet", "address", "simple", "unknownSet", "lineCoding"}
<1>1. CASE r \in [kind : {"get"}, in : {TRUE}, wLength : 0..MaxLength, n : 0..DataSize]
  <2>1. r.in = TRUE
    BY <1>1, Zenon
  <2>2. r.kind \in {"get"} /\ r.wLength \in 0..MaxLength /\ r.n \in 0..DataSize
    BY <1>1
  <2> QED BY <2>1, <2>2, ControlAssumption
<1>2. CASE r \in [kind : {"unknownGet"}, in : {TRUE}, wLength : 1..MaxLength, n : {0}]
  <2>1. r.in = TRUE
    BY <1>2, Zenon
  <2>2. r.kind \in {"unknownGet"} /\ r.wLength \in 1..MaxLength /\ r.n \in {0}
    BY <1>2
  <2> QED BY <2>1, <2>2, ControlAssumption
<1>3. CASE r \in [kind : {"address"}, in : {FALSE}, wLength : {0}, n : {1, 2}]
  <2>1. r.in = FALSE
    BY <1>3, Zenon
  <2>2. r.kind \in {"address"} /\ r.wLength \in {0} /\ r.n \in {1, 2}
    BY <1>3
  <2> QED BY <2>1, <2>2, ControlAssumption
<1>4. CASE r \in [kind : {"simple", "unknownSet"}, in : {FALSE}, wLength : {0}, n : {0}]
  <2>1. r.in = FALSE
    BY <1>4, Zenon
  <2>2. r.kind \in {"simple", "unknownSet"} /\ r.wLength \in {0} /\ r.n \in {0}
    BY <1>4
  <2> QED BY <2>1, <2>2, ControlAssumption
<1>5. CASE r \in [kind : {"lineCoding"}, in : {FALSE}, wLength : 1..MaxLength, n : {0}]
  <2>1. r.in = FALSE
    BY <1>5, Zenon
  <2>2. r.kind \in {"lineCoding"} /\ r.wLength \in 1..MaxLength /\ r.n \in {0}
    BY <1>5
  <2> QED BY <2>1, <2>2, ControlAssumption
<1> QED BY <1>1, <1>2, <1>3, <1>4, <1>5 DEF CT!Request

LEMMA SmallerIs ==
  ASSUME NEW a \in Nat, NEW b \in Nat
  PROVE  /\ CT!Smaller(a, b) \in Nat /\ CT!Smaller(a, b) <= a /\ CT!Smaller(a, b) <= b
         /\ CT!Smaller(a, b) \in {a, b}
BY DEF CT!Smaller

LEMMA PacketIs ==
  ASSUME NEW len \in Nat, NEW id \in 0 .. 1
  PROVE  LET p == CT!Packet(len, id, FALSE)
         IN  p \in CtPackets /\ p.len = len /\ p.id = id /\ ~p.setup /\ p # CT!None
<1> DEFINE p == CT!Packet(len, id, FALSE)
<1>1. p \in CtPackets /\ p.len = len /\ p.id = id /\ ~p.setup
  BY DEF CT!Packet, CtPackets
<1>2. CT!None.len = 0 - 1
  BY DEF CT!None
<1> HIDE DEF p
<1>3. p # CT!None
  <2>1. p.len = len
    BY <1>1
  <2> QED BY <1>2, <2>1
<1> QED BY <1>1, <1>3 DEF p

LEMMA NoneIs == CT!None \in CtPackets /\ ~CT!None.setup
BY DEF CT!None, CtPackets

\* usb_write_ep0() sends a packet of what is to be sent, if the last one is gone.
LEMMA WriteIs ==
  ASSUME NEW d \in CtDevs
  PROVE  LET w == CT!WriteEp0(d)
             len == CT!Smaller(d.todo, EP0_MPS)
         IN  /\ w \in CtDevs
             /\ w.req = d.req /\ w.for = d.for /\ w.rx = d.rx /\ w.dataLen = d.dataLen
             /\ w.trunc = d.trunc /\ w.ctrTx = d.ctrTx /\ w.addr = d.addr /\ w.pending = d.pending
             /\ (d.todo < 0 \/ ~d.txReady) => (w.todo = d.todo /\ w.tx = d.tx /\ w.txReady = d.txReady)
             /\ (d.todo >= 0 /\ d.txReady) =>
                  /\ w.tx = CT!Packet(len, d.for, FALSE) /\ ~w.txReady
                  /\ w.todo = IF d.todo = len /\ (~d.trunc \/ len < EP0_MPS) THEN 0 - 1 ELSE d.todo - len
<1> DEFINE w == CT!WriteEp0(d)
           len == CT!Smaller(d.todo, EP0_MPS)
<1>1. CASE d.todo < 0 \/ ~d.txReady
  <2>1. w = d
    BY <1>1 DEF CT!WriteEp0
  <2> HIDE DEF w, len
  <2>2. w \in CtDevs
    BY <2>1
  <2>3. (d.todo >= 0 /\ d.txReady) => FALSE
    BY <1>1 DEF CtDevs
  <2> QED BY <2>1, <2>2, <2>3 DEF w
<1>2. CASE ~(d.todo < 0 \/ ~d.txReady)
  <2> DEFINE p == CT!Packet(len, d.for, FALSE)
             left == IF d.todo - len = 0 /\ CT!StageOver(d, len) THEN 0 - 1 ELSE d.todo - len
  <2>1. d.todo \in Nat /\ d.for \in 0 .. 1
    BY <1>2 DEF CtDevs
  <2>2. len \in Nat
    BY <2>1, SmallerIs, ControlAssumption
  <2>3. p \in CtPackets
    BY <2>1, <2>2, PacketIs
  <2>4. left \in Int
    <3> HIDE DEF len
    <3> QED BY <2>1, <2>2
  <2>5. w = [d EXCEPT !.tx = p, !.txReady = FALSE, !.todo = left]
    BY <1>2 DEF CT!WriteEp0
  <2>6. left = IF d.todo = len /\ (~d.trunc \/ len < EP0_MPS) THEN 0 - 1 ELSE d.todo - len
    <3> HIDE DEF len
    <3> QED BY <2>1, <2>2 DEF CT!StageOver
  <2> HIDE DEF left, p, w
  <2>7. /\ w.req = d.req /\ w.for = d.for /\ w.rx = d.rx /\ w.dataLen = d.dataLen
        /\ w.trunc = d.trunc /\ w.ctrTx = d.ctrTx /\ w.addr = d.addr /\ w.pending = d.pending
        /\ w.tx = p /\ ~w.txReady /\ w.todo = left
    BY <2>5 DEF CtDevs
  <2>8. w \in CtDevs
    BY <2>3, <2>4, <2>5 DEF CtDevs
  <2> QED BY <1>2, <2>6, <2>7, <2>8 DEF p, w
<1> QED BY <1>1, <1>2

\* The invariant does not look at the length of what was received, stalls or addresses.
LEMMA OnlyCounts ==
  ASSUME NEW d, NEW e \in CtDevs, NEW h, CtInv(d, h),
         e.req = d.req, e.for = d.for, e.rx = d.rx, e.tx = d.tx, e.todo = d.todo,
         e.trunc = d.trunc, e.txReady = d.txReady, e.ctrTx = d.ctrTx
  PROVE  CtInv(e, h)
<1>1. CtTypes(e, h) /\ OneAtATime(e) /\ OwnTransfer(e, h)
  BY DEF CtInv, CtTypes, OneAtATime, OwnTransfer
<1>2. StatusIsEmpty(e, h)
  BY DEF CtInv, StatusIsEmpty
<1>3. AddsUp(e, h)
  BY DEF CtInv, AddsUp, Sending
<1>4. NothingUnknown(e, h)
  BY DEF CtInv, NothingUnknown, Sending
<1> QED BY <1>1, <1>2, <1>3, <1>4 DEF CtInv

\* What usb_write_ep0() cuts from the rest is a full packet or the last one.
LEMMA WriteKeeps ==
  ASSUME NEW d, NEW h, CtInv(d, h), ~d.rx.setup
  PROVE  CtInv(CT!WriteEp0(d), h)
<1> DEFINE w == CT!WriteEp0(d)
           len == CT!Smaller(d.todo, EP0_MPS)
<1>0. d \in CtDevs /\ h \in CtHosts
  BY DEF CtInv, CtTypes
<1>1. CASE d.todo < 0 \/ ~d.txReady
  <2>1. /\ w \in CtDevs
        /\ w.req = d.req /\ w.for = d.for /\ w.rx = d.rx
        /\ w.trunc = d.trunc /\ w.ctrTx = d.ctrTx
        /\ w.todo = d.todo /\ w.tx = d.tx /\ w.txReady = d.txReady
    BY <1>0, <1>1, WriteIs
  <2> HIDE DEF w
  <2>2. CtInv(w, h)
    BY <2>1, OnlyCounts
  <2> QED BY <2>2 DEF w
<1>2. CASE d.todo >= 0 /\ d.txReady
  <2>1. /\ w \in CtDevs
        /\ w.req = d.req /\ w.for = d.for /\ w.rx = d.rx
        /\ w.trunc = d.trunc /\ w.ctrTx = d.ctrTx
        /\ ~w.txReady
        /\ w.todo = IF d.todo = len /\ (~d.trunc \/ len < EP0_MPS) THEN 0 - 1 ELSE d.todo - len
    BY <1>0, <1>2, WriteIs
  <2>11. w.tx = CT!Packet(len, d.for, FALSE)
    BY <1>0, <1>2, WriteIs
  <2>2. d.todo \in Nat /\ d.for \in 0 .. 1 /\ d.tx = CT!None /\ ~d.ctrTx
    BY <1>0, <1>2 DEF CtDevs, CtInv, OneAtATime
  <2>3. len \in Nat /\ len <= d.todo
    BY <2>2, SmallerIs, ControlAssumption
  <2>5. h.req \in CT!Request /\ h.got \in Nat
    BY <1>0 DEF CtHosts
  <2> HIDE DEF w, len
  <2>4. w.tx # CT!None /\ w.tx.len = len /\ w.tx.id = d.for
    <3>1. d.for \in 0 .. 1
      BY <2>2
    <3> DEFINE p == CT!Packet(len, d.for, FALSE)
    <3>2. p.len = len /\ p.id = d.for /\ p # CT!None
      BY <2>3, <3>1, PacketIs
    <3> QED BY <2>11, <3>2
  <2>6. CtTypes(w, h) /\ OneAtATime(w)
    BY <1>0, <2>1, <2>2 DEF CtTypes, OneAtATime
  <2>7. OwnTransfer(w, h)
    BY <2>1, <2>4 DEF CtInv, OwnTransfer
  <2>8. StatusIsEmpty(w, h)
    <3> SUFFICES ASSUME ~h.req.in
                 PROVE  w.todo \in {0 - 1, 0} /\ w.tx.len = 0
      BY DEF StatusIsEmpty
    <3>1. d.todo = 0
      BY <2>2 DEF CtInv, StatusIsEmpty
    <3>2. len = 0
      BY <2>3, <3>1, 0 \in Nat
    <3>3. w.todo \in {0 - 1, 0}
      BY <2>1, <2>3, <3>1, <3>2
    <3> QED BY <2>4, <3>2, <3>3
  <2>9. NothingUnknown(w, h)
    BY <1>2, <2>1, <2>2 DEF CtInv, NothingUnknown, Sending
  <2>10. AddsUp(w, h)
    <3> SUFFICES ASSUME h.req.kind = "get", Sending(d, h)
                 PROVE  /\ w.trunc <=> Asked(h) < h.req.wLength
                        /\ w.todo >= 0 => h.got + w.tx.len + w.todo = Asked(h) /\ w.tx.len = EP0_MPS
                                          /\ (w.todo > 0 \/ w.trunc)
                        /\ w.todo < 0 => h.got + w.tx.len = Asked(h)
                                         /\ (w.tx.len < EP0_MPS \/ Asked(h) = h.req.wLength)
      BY <2>1, <2>4 DEF AddsUp, Sending
    <3>1. h.got + d.todo = Asked(h) /\ (d.trunc <=> Asked(h) < h.req.wLength)
      BY <1>2, <2>2 DEF CtInv, AddsUp
    <3>2. Asked(h) \in Nat /\ Asked(h) <= h.req.wLength /\ h.req.wLength \in Nat
      BY <2>5, RequestIs, SmallerIs DEF Asked
    <3>4. /\ w.todo >= 0 => h.got + len + w.todo = Asked(h) /\ len = EP0_MPS
                             /\ (w.todo > 0 \/ Asked(h) < h.req.wLength)
          /\ w.todo < 0 => h.got + len = Asked(h) /\ (len < EP0_MPS \/ Asked(h) = h.req.wLength)
      <4>1. w.todo = IF d.todo = len /\ (Asked(h) = h.req.wLength \/ len < EP0_MPS)
                     THEN 0 - 1 ELSE d.todo - len
        BY <2>1, <3>1, <3>2
      <4>2. len <= EP0_MPS /\ len \in {d.todo, EP0_MPS} /\ EP0_MPS \in Nat /\ d.todo \in Nat
        BY <2>2, SmallerIs, ControlAssumption DEF len
      <4>3. h.got + d.todo = Asked(h) /\ h.got \in Nat
        BY <2>5, <3>1
      <4> QED BY <2>3, <3>2, <4>1, <4>2, <4>3
    <3> QED BY <2>1, <2>4, <3>1, <3>4
  <2>12. CtInv(w, h)
    BY <2>6, <2>7, <2>8, <2>9, <2>10 DEF CtInv
  <2> QED BY <2>12 DEF w
<1> QED BY <1>0, <1>1, <1>2 DEF CtDevs

\* A request that is complete, and not yet answered.
Complete(d, h) ==
  /\ CtTypes(d, h) /\ OneAtATime(d) /\ OwnTransfer(d, h) /\ StatusIsEmpty(d, h)
  /\ NothingUnknown(d, h) /\ Stages(h) /\ ~d.rx.setup
  /\ h.req.in => d.tx = CT!None /\ h.got = 0

\* The end of handle_rx_ep0()
LEMMA RespondKeeps ==
  ASSUME NEW d, NEW h, Complete(d, h)
  PROVE  CtInv(CT!Respond(d), h)
<1>0. d \in CtDevs /\ h \in CtHosts /\ d.req = h.req /\ h.req \in CT!Request /\ h.got \in Nat
  BY DEF Complete, CtTypes, OwnTransfer, CtHosts
<1>1. CASE ~CT!Handled(d.req)
  <2> DEFINE e == [d EXCEPT !.stalled = TRUE, !.dataLen = 0 - 1]
  <2>7. e \in CtDevs
    <3>1. e = [d EXCEPT !.stalled = TRUE, !.dataLen = 0 - 1]
      OBVIOUS
    <3> HIDE DEF e
    <3>2. 0 - 1 \in Int
      OBVIOUS
    <3> QED BY <1>0, <3>1, <3>2 DEF CtDevs
  <2>1. e.req = d.req /\ e.for = d.for /\ e.rx = d.rx /\ e.tx = d.tx /\ e.todo = d.todo
    BY <1>0 DEF CtDevs
  <2>2. e.trunc = d.trunc /\ e.txReady = d.txReady /\ e.ctrTx = d.ctrTx
    BY <1>0 DEF CtDevs
  <2>3. h.req.kind # "get"
    BY <1>0, <1>1, RequestIs DEF CT!Handled
  <2>4. CtInv(d, h)
    BY <2>3 DEF CtInv, Complete, AddsUp
  <2>5. CT!Respond(d) = e
    BY <1>1 DEF CT!Respond
  <2> HIDE DEF e
  <2>6. CtInv(e, h)
    BY <2>1, <2>2, <2>4, <2>7, OnlyCounts
  <2> QED BY <2>5, <2>6
<1>2. CASE CT!Handled(d.req)
  <2> DEFINE k == CT!HandleRequest(d)
  <2>1. h.req.kind # "unknownGet" /\ (h.req.in <=> h.req.kind = "get")
    BY <1>0, <1>2, RequestIs DEF CT!Handled
  <2>2. /\ k \in CtDevs /\ k.req = d.req /\ k.for = d.for /\ k.rx = d.rx /\ k.tx = d.tx
        /\ k.dataLen = IF d.req.in THEN Asked(h) ELSE d.dataLen
    <3> DEFINE p == IF d.req.kind = "address" THEN d.req.n ELSE d.pending
               l == IF d.req.in THEN Asked(h) ELSE d.dataLen
    <3>1. p \in 0 .. 2
      BY <1>0, RequestIs DEF CtDevs
    <3>2. l \in Int
      BY <1>0, RequestIs, SmallerIs DEF CtDevs, Asked
    <3>3. k = [d EXCEPT !.pending = p, !.dataLen = l]
      BY <1>0 DEF CT!HandleRequest, CtDevs, Asked
    <3> HIDE DEF p, l, k
    <3>4. k \in CtDevs /\ k.req = d.req /\ k.for = d.for /\ k.rx = d.rx /\ k.tx = d.tx /\ k.dataLen = l
      BY <1>0, <3>1, <3>2, <3>3 DEF CtDevs
    <3> QED BY <3>4 DEF l
  <2>3. k.txReady = d.txReady /\ k.ctrTx = d.ctrTx
    BY <1>0 DEF CT!HandleRequest, CtDevs
  <2> HIDE DEF k
  <2>4. CASE h.req.in
    <3> DEFINE v == [k EXCEPT !.todo = k.dataLen, !.trunc = k.dataLen < k.req.wLength]
               b == k.dataLen < k.req.wLength
    <3>1. k.dataLen = Asked(h) /\ Asked(h) \in Nat /\ h.req.wLength \in Nat
      BY <1>0, <2>2, <2>4, RequestIs, SmallerIs DEF Asked
    <3>2. b \in BOOLEAN /\ (b <=> Asked(h) < h.req.wLength)
      BY <1>0, <2>2, <3>1
    <3> HIDE DEF b
    <3>3. v = [k EXCEPT !.todo = k.dataLen, !.trunc = b]
      BY DEF b
    <3> HIDE DEF v
    <3>4. v \in CtDevs
      BY <2>2, <3>1, <3>2, <3>3 DEF CtDevs
    <3>5. v.req = d.req /\ v.for = d.for /\ v.rx = d.rx /\ v.tx = CT!None /\ v.todo = Asked(h)
      BY <2>2, <2>4, <3>1, <3>3 DEF CtDevs, Complete
    <3>6. v.txReady = d.txReady /\ v.ctrTx = d.ctrTx /\ v.trunc = b
      BY <2>2, <2>3, <3>3 DEF CtDevs
    <3>7. CtTypes(v, h) /\ OneAtATime(v)
      BY <1>0, <3>4, <3>5, <3>6 DEF Complete, CtTypes, OneAtATime
    <3>8. OwnTransfer(v, h)
      BY <3>5 DEF Complete, OwnTransfer
    <3>9. StatusIsEmpty(v, h) /\ NothingUnknown(v, h)
      BY <2>1, <2>4 DEF StatusIsEmpty, NothingUnknown
    <3>10. AddsUp(v, h)
      <4>1. v.trunc <=> Asked(h) < h.req.wLength
        BY <3>2, <3>6
      <4>2. h.got + v.todo = Asked(h) /\ v.tx = CT!None
        BY <2>4, <3>1, <3>5 DEF Complete
      <4> QED BY <4>1, <4>2 DEF AddsUp
    <3>11. CtInv(v, h) /\ ~v.rx.setup
      BY <3>5, <3>7, <3>8, <3>9, <3>10 DEF CtInv, Complete
    <3>12. CtInv(CT!WriteEp0(v), h)
      BY <3>11, WriteKeeps
    <3>13. CT!Respond(d) = CT!WriteEp0(v)
      <4>1. k.req.in
        BY <1>0, <2>2, <2>4
      <4> QED BY <1>2, <4>1 DEF CT!Respond, k, v
    <3> QED BY <3>12, <3>13
  <2>5. CASE ~h.req.in
    <3> DEFINE v == [k EXCEPT !.todo = 0, !.trunc = FALSE]
               w == CT!WriteEp0(v)
               e == [w EXCEPT !.dataLen = 0 - 1]
    <3>12. k \in CtDevs
      BY <2>2
    <3>13. v \in CtDevs
      <4> DEFINE b == FALSE
                 z == 0
      <4>1. v = [k EXCEPT !.todo = z, !.trunc = b] /\ b \in BOOLEAN /\ z \in Int
        OBVIOUS
      <4> HIDE DEF v, b, z
      <4> QED BY <3>12, <4>1 DEF CtDevs
    <3>14. v.req = k.req /\ v.for = k.for /\ v.rx = k.rx /\ v.tx = k.tx /\ v.todo = 0
      BY <3>12 DEF CtDevs
    <3>1. v \in CtDevs /\ v.req = d.req /\ v.for = d.for /\ v.rx = d.rx /\ v.tx = d.tx /\ v.todo = 0
      BY <2>2, <3>13, <3>14
    <3>2. v.txReady = d.txReady /\ v.ctrTx = d.ctrTx
      BY <2>2, <2>3 DEF CtDevs
    <3>3. CT!Respond(d) = e
      <4>1. ~k.req.in
        BY <1>0, <2>2, <2>5
      <4> QED BY <1>2, <4>1 DEF CT!Respond, k
    <3> HIDE DEF v
    <3>4. CtTypes(v, h) /\ OneAtATime(v) /\ OwnTransfer(v, h) /\ StatusIsEmpty(v, h)
      BY <1>0, <3>1, <3>2 DEF Complete, CtTypes, OneAtATime, OwnTransfer, StatusIsEmpty
    <3>5. AddsUp(v, h) /\ NothingUnknown(v, h)
      BY <2>1, <2>5 DEF AddsUp, NothingUnknown
    <3>6. CtInv(v, h) /\ ~v.rx.setup
      BY <3>1, <3>4, <3>5 DEF CtInv, Complete
    <3>7. CtInv(w, h)
      BY <3>6, WriteKeeps
    <3> HIDE DEF w
    <3>8. w \in CtDevs
      BY <3>7 DEF CtInv, CtTypes
    <3>9. e \in CtDevs /\ e.req = w.req /\ e.for = w.for /\ e.rx = w.rx /\ e.tx = w.tx /\ e.todo = w.todo
      BY <3>8 DEF CtDevs
    <3>10. e.trunc = w.trunc /\ e.txReady = w.txReady /\ e.ctrTx = w.ctrTx
      BY <3>8 DEF CtDevs
    <3> HIDE DEF e
    <3>11. CtInv(e, h)
      BY <3>7, <3>9, <3>10, OnlyCounts
    <3> QED BY <3>3, <3>11
  <2> QED BY <2>4, <2>5
<1> QED BY <1>1, <1>2

\* handle_reset()
LEMMA InitKeeps == CtInv(CT!InitDev, CT!InitHost)
<1> DEFINE d == CT!InitDev
           h == CT!InitHost
           r == [kind |-> "simple", in |-> FALSE, wLength |-> 0, n |-> 0]
<1>1. r \in CT!Request /\ r.kind = "simple" /\ ~r.in
  BY DEF CT!Request
<1>2. d.req = r /\ d.todo = 0 - 1 /\ d.for = 0 /\ d.rx = CT!None /\ d.tx = CT!None
  BY DEF CT!InitDev
<1>3. ~d.ctrTx
  BY DEF CT!InitDev
<1>4. h.stage = "idle" /\ h.req = r /\ h.got = 0 /\ h.id = 0
  BY DEF CT!InitHost, CT!InitDev
<1>5. ~h.alien
  BY DEF CT!InitHost
<1>6. d \in CtDevs
  <2> HIDE DEF r
  <2>1. 0 - 1 \in Int /\ 0 \in Int /\ TRUE \in BOOLEAN /\ FALSE \in BOOLEAN
    OBVIOUS
  <2> QED BY <1>1, <2>1, NoneIs DEF CT!InitDev, CtDevs, r
<1>7. h \in CtHosts
  <2> HIDE DEF r
  <2>1. CT!InitDev.req = r
    BY <1>2
  <2>2. h = [stage |-> "idle", req |-> r, got |-> 0, alien |-> FALSE,
             ok |-> TRUE, addr |-> 0, id |-> 0, fresh |-> TRUE]
    BY <2>1 DEF CT!InitHost
  <2> HIDE DEF h
  <2> QED BY <1>1, <2>2 DEF CtHosts
<1> HIDE DEF d, h, r
<1>8. ~d.rx.setup
  BY <1>2, NoneIs
<1>9. CtTypes(d, h) /\ OneAtATime(d) /\ OwnTransfer(d, h)
  BY <1>2, <1>3, <1>4, <1>6, <1>7, <1>8 DEF CtTypes, OneAtATime, OwnTransfer
<1>10. StatusIsEmpty(d, h) /\ AddsUp(d, h) /\ NothingUnknown(d, h)
  BY <1>1, <1>2, <1>4, <1>8 DEF StatusIsEmpty, AddsUp, NothingUnknown, Sending
<1>11. Stages(h)
  BY <1>1, <1>4, <1>5 DEF Stages
<1> QED BY <1>9, <1>10, <1>11 DEF CtInv, d, h

\* handle_rx_ep0()
LEMMA RxTransferKeeps ==
  ASSUME CtInv(dev, host), CT!RxTransfer
  PROVE  CtInv(dev', host')
<1> DEFINE read == [dev EXCEPT !.rx = CT!None]
<1>0. /\ dev \in CtDevs /\ host \in CtHosts /\ host.req \in CT!Request /\ dev.rx # CT!None
      /\ host' = host /\ dev' = CT!HandleRx(dev, dev.rx) /\ dev.rx \in CtPackets
  BY DEF CtInv, CtTypes, CtHosts, CtDevs, CT!RxTransfer
<1>1. CASE dev.rx.setup
  <2> DEFINE s == [read EXCEPT !.req = host.req, !.for = dev.rx.id, !.dataLen = 0, !.todo = 0 - 1]
  <2>1. dev.rx.id = host.id /\ host.stage = "setup" /\ dev.tx = CT!None /\ host.id \in 0 .. 1
    BY <1>0, <1>1 DEF CtInv, OwnTransfer, CtHosts
  <2>2. s.req = host.req /\ s.for = host.id /\ s.rx = CT!None /\ s.tx = CT!None /\ s.todo = 0 - 1
    BY <1>0, <2>1 DEF CtDevs
  <2>3. s.txReady = dev.txReady /\ s.ctrTx = dev.ctrTx
    BY <1>0 DEF CtDevs
  <2>4. s \in CtDevs
    <3>1. 0 - 1 \in Int /\ 0 \in Int /\ CT!None \in CtPackets
      BY NoneIs
    <3> QED BY <1>0, <2>1, <3>1 DEF CtDevs
  <2>5. dev' = IF host.req.in \/ host.req.wLength = 0 THEN CT!Respond(s) ELSE s
    BY <1>0, <1>1, <2>2 DEF CT!HandleRx
  <2> HIDE DEF s
  <2>6. ~s.rx.setup
    BY <2>2, NoneIs
  <2>7. CtTypes(s, host) /\ OneAtATime(s) /\ OwnTransfer(s, host)
    BY <1>0, <2>2, <2>3, <2>4, <2>6 DEF CtInv, CtTypes, OneAtATime, OwnTransfer
  <2>8. StatusIsEmpty(s, host) /\ NothingUnknown(s, host)
    BY <2>2 DEF StatusIsEmpty, NothingUnknown
  <2>9. CASE host.req.in \/ host.req.wLength = 0
    <3>1. Stages(host) /\ host.got = 0
      BY <2>1 DEF CtInv, Stages
    <3>2. Complete(s, host)
      BY <2>2, <2>6, <2>7, <2>8, <3>1 DEF Complete
    <3>3. CtInv(CT!Respond(s), host)
      BY <3>2, RespondKeeps
    <3> QED BY <1>0, <2>5, <2>9, <3>3
  <2>10. CASE ~(host.req.in \/ host.req.wLength = 0)
    <3>1. AddsUp(s, host)
      BY <1>0, <2>10, RequestIs DEF AddsUp
    <3>2. CtInv(s, host)
      BY <2>7, <2>8, <3>1 DEF CtInv
    <3> QED BY <1>0, <2>5, <2>10, <3>2
  <2> QED BY <2>9, <2>10
<1>2. CASE ~dev.rx.setup
  <2>1. read \in CtDevs
    BY <1>0, NoneIs DEF CtDevs
  <2>2. read.req = dev.req /\ read.for = dev.for /\ read.tx = dev.tx /\ read.todo = dev.todo /\ read.rx = CT!None
    BY <1>0 DEF CtDevs
  <2>3. read.trunc = dev.trunc /\ read.txReady = dev.txReady /\ read.ctrTx = dev.ctrTx
    BY <1>0 DEF CtDevs
  <2>4. dev' = IF dev.dataLen < 0 THEN [read EXCEPT !.stalled = TRUE]
               ELSE IF ~dev.req.in
               THEN IF dev.dataLen + dev.rx.len >= dev.req.wLength
                    THEN CT!Respond([read EXCEPT !.dataLen = dev.req.wLength])
                    ELSE [read EXCEPT !.dataLen = dev.dataLen + dev.rx.len]
               ELSE [read EXCEPT !.todo = 0 - 1, !.dataLen = 0 - 1]
    BY <1>0, <1>2 DEF CT!HandleRx
  <2> HIDE DEF read
  <2>5. ~read.rx.setup /\ dev.req = host.req
    BY <1>2, <2>2, NoneIs DEF CtInv, OwnTransfer
  <2>6. CtTypes(read, host) /\ OneAtATime(read) /\ OwnTransfer(read, host) /\ Stages(host)
    BY <1>0, <1>2, <2>1, <2>2, <2>3, <2>5 DEF CtInv, CtTypes, OneAtATime, OwnTransfer
  <2>7. StatusIsEmpty(read, host) /\ NothingUnknown(read, host)
    BY <1>2, <2>2, <2>5 DEF CtInv, StatusIsEmpty, NothingUnknown, Sending
  <2>8. AddsUp(read, host)
    BY <1>2, <2>2, <2>3, <2>5 DEF CtInv, AddsUp, Sending
  <2>9. CtInv(read, host)
    BY <2>6, <2>7, <2>8 DEF CtInv
  <2>10. CASE dev.dataLen < 0
    <3> DEFINE e == [read EXCEPT !.stalled = TRUE]
    <3>1. e \in CtDevs
      BY <2>1 DEF CtDevs
    <3>2. e.req = read.req /\ e.for = read.for /\ e.rx = read.rx /\ e.tx = read.tx /\ e.todo = read.todo
      BY <2>1 DEF CtDevs
    <3>3. e.trunc = read.trunc /\ e.txReady = read.txReady /\ e.ctrTx = read.ctrTx
      BY <2>1 DEF CtDevs
    <3>4. dev' = e
      BY <2>4, <2>10
    <3> HIDE DEF e
    <3> QED BY <1>0, <2>9, <3>1, <3>2, <3>3, <3>4, OnlyCounts
  <2>11. CASE ~(dev.dataLen < 0) /\ ~dev.req.in
    <3> DEFINE n == IF dev.dataLen + dev.rx.len >= dev.req.wLength THEN dev.req.wLength
                    ELSE dev.dataLen + dev.rx.len
               e == [read EXCEPT !.dataLen = n]
    <3>1. n \in Int
      BY <1>0, <2>5, RequestIs DEF CtDevs, CtPackets
    <3>2. dev' = IF dev.dataLen + dev.rx.len >= dev.req.wLength THEN CT!Respond(e) ELSE e
      BY <2>4, <2>11
    <3> HIDE DEF n
    <3>3. e \in CtDevs
      BY <2>1, <3>1 DEF CtDevs
    <3>4. e.req = read.req /\ e.for = read.for /\ e.rx = read.rx /\ e.tx = read.tx /\ e.todo = read.todo
      BY <2>1 DEF CtDevs
    <3>5. e.trunc = read.trunc /\ e.txReady = read.txReady /\ e.ctrTx = read.ctrTx
      BY <2>1 DEF CtDevs
    <3> HIDE DEF e
    <3>6. CtInv(e, host)
      BY <2>9, <3>3, <3>4, <3>5, OnlyCounts
    <3>7. Complete(e, host)
      BY <2>5, <2>11, <3>4, <3>6 DEF CtInv, Complete
    <3>8. CtInv(CT!Respond(e), host)
      BY <3>7, RespondKeeps
    <3> QED BY <1>0, <3>2, <3>6, <3>8
  <2>12. CASE ~(dev.dataLen < 0) /\ dev.req.in
    <3> DEFINE e == [read EXCEPT !.todo = 0 - 1, !.dataLen = 0 - 1]
    <3>1. e \in CtDevs
      <4> DEFINE z == 0 - 1
      <4>1. e = [read EXCEPT !.todo = z, !.dataLen = z] /\ z \in Int
        OBVIOUS
      <4> HIDE DEF e, z
      <4> QED BY <2>1, <4>1 DEF CtDevs
    <3>2. e.req = read.req /\ e.for = read.for /\ e.rx = read.rx /\ e.tx = read.tx
      BY <2>1 DEF CtDevs
    <3>3. e.trunc = read.trunc /\ e.txReady = read.txReady /\ e.ctrTx = read.ctrTx
      BY <2>1 DEF CtDevs
    <3>4. dev' = e
      BY <2>4, <2>12
    <3> HIDE DEF e
    <3>5. host.stage = "idle" /\ host.req.in
      BY <1>0, <1>2, <2>5, <2>12 DEF CtInv, OwnTransfer
    <3>6. CtTypes(e, host) /\ OneAtATime(e) /\ OwnTransfer(e, host)
      BY <2>6, <3>1, <3>2, <3>3 DEF CtTypes, OneAtATime, OwnTransfer
    <3>7. StatusIsEmpty(e, host) /\ AddsUp(e, host) /\ NothingUnknown(e, host)
      BY <3>5 DEF StatusIsEmpty, AddsUp, NothingUnknown, Sending
    <3> QED BY <1>0, <2>6, <3>4, <3>6, <3>7 DEF CtInv
  <2> QED BY <2>10, <2>11, <2>12
<1> QED BY <1>1, <1>2

\* handle_tx_transfer()
LEMMA TxTransferKeeps ==
  ASSUME CtInv(dev, host), CT!TxTransfer
  PROVE  CtInv(dev', host')
<1> DEFINE e == [dev EXCEPT !.ctrTx = FALSE, !.txReady = TRUE]
           w == CT!WriteEp0(e)
<1>0. /\ dev \in CtDevs /\ dev.rx = CT!None /\ host' = host /\ dev' = CT!ApplyAddress(w)
  BY DEF CtInv, CtTypes, CT!TxTransfer
<1>1. dev.tx = CT!None
  BY DEF CtInv, OneAtATime, CT!TxTransfer
<1>2. e \in CtDevs
  BY <1>0 DEF CtDevs
<1>3. e.req = dev.req /\ e.for = dev.for /\ e.rx = dev.rx /\ e.tx = dev.tx /\ e.todo = dev.todo
  BY <1>0 DEF CtDevs
<1>4. e.trunc = dev.trunc /\ ~e.ctrTx
  BY <1>0 DEF CtDevs
<1> HIDE DEF e
<1>5. CtTypes(e, host) /\ OneAtATime(e) /\ OwnTransfer(e, host) /\ Stages(host)
  BY <1>1, <1>2, <1>3, <1>4 DEF CtInv, CtTypes, OneAtATime, OwnTransfer
<1>6. StatusIsEmpty(e, host) /\ NothingUnknown(e, host)
  BY <1>3 DEF CtInv, StatusIsEmpty, NothingUnknown, Sending
<1>7. AddsUp(e, host)
  BY <1>3, <1>4 DEF CtInv, AddsUp, Sending
<1>8. ~e.rx.setup
  BY <1>0, <1>3, NoneIs
<1>9. CtInv(e, host)
  BY <1>5, <1>6, <1>7 DEF CtInv
<1>10. CtInv(w, host)
  BY <1>8, <1>9, WriteKeeps
<1> HIDE DEF w
<1>11. CASE CT!AddressDue(w)
  <2> DEFINE a == [w EXCEPT !.addr = w.pending, !.pending = 0]
  <2>1. w \in CtDevs
    BY <1>10 DEF CtInv, CtTypes
  <2>2. a \in CtDevs
    <3> DEFINE p == w.pending
               z == 0
    <3>1. a = [w EXCEPT !.addr = p, !.pending = z] /\ p \in 0 .. 2 /\ z \in 0 .. 2
      BY <2>1 DEF CtDevs
    <3> HIDE DEF a, p, z
    <3> QED BY <2>1, <3>1 DEF CtDevs
  <2>3. a.req = w.req /\ a.for = w.for /\ a.rx = w.rx /\ a.tx = w.tx /\ a.todo = w.todo
    BY <2>1 DEF CtDevs
  <2>4. a.trunc = w.trunc /\ a.txReady = w.txReady /\ a.ctrTx = w.ctrTx
    BY <2>1 DEF CtDevs
  <2>5. dev' = a
    BY <1>0, <1>11 DEF CT!ApplyAddress
  <2> HIDE DEF a
  <2> QED BY <1>0, <1>10, <2>2, <2>3, <2>4, <2>5, OnlyCounts
<1>12. CASE ~CT!AddressDue(w)
  BY <1>0, <1>10, <1>12 DEF CT!ApplyAddress
<1> QED BY <1>11, <1>12

\* The controller has sent the packet.
LEMMA SentIs ==
  ASSUME NEW d \in CtDevs
  PROVE  LET e == CT!Sent(d)
         IN  /\ e \in CtDevs /\ e.req = d.req /\ e.for = d.for /\ e.rx = d.rx /\ e.tx = CT!None
             /\ e.todo = d.todo
             /\ e.trunc = d.trunc /\ e.txReady = d.txReady
             /\ e.ctrTx
<1> DEFINE e == CT!Sent(d)
           b == TRUE
<1>1. e = [d EXCEPT !.tx = CT!None, !.ctrTx = b] /\ b \in BOOLEAN
  BY DEF CT!Sent
<1>2. e.req = d.req /\ e.for = d.for /\ e.rx = d.rx /\ e.tx = CT!None /\ e.todo = d.todo
  BY DEF CT!Sent, CtDevs
<1>3. e.trunc = d.trunc /\ e.txReady = d.txReady /\ e.ctrTx
  BY DEF CT!Sent, CtDevs
<1> HIDE DEF e, b
<1>4. e \in CtDevs
  BY <1>1, NoneIs DEF CtDevs
<1> QED BY <1>2, <1>3, <1>4 DEF e

\* A new transfer: whatever was still to be sent for the last one is dropped.
LEMMA StartTransferKeeps ==
  ASSUME CtInv(dev, host), NEW r \in CT!Request, CT!StartTransfer(r)
  PROVE  CtInv(dev', host')
<1> DEFINE id == 1 - host.id
           p == CT!Packet(8, id, TRUE)
<1>0. dev \in CtDevs /\ host \in CtHosts /\ id \in 0 .. 1
  BY DEF CtInv, CtTypes, CtHosts
<1>1. /\ host' = [host EXCEPT !.stage = "setup", !.req = r, !.got = 0, !.alien = FALSE,
                              !.id = id, !.fresh = FALSE]
      /\ dev' = [dev EXCEPT !.rx = p, !.stalled = FALSE, !.tx = CT!None]
  BY DEF CT!StartTransfer
<1> HIDE DEF id
<1>2. p \in CtPackets /\ p.id = id /\ p.setup
  BY <1>0 DEF CT!Packet, CtPackets
<1> HIDE DEF p
<1>3. dev' \in CtDevs
  <2> DEFINE b == FALSE
  <2>1. b \in BOOLEAN /\ dev' = [dev EXCEPT !.rx = p, !.stalled = b, !.tx = CT!None]
    BY <1>1
  <2> HIDE DEF b
  <2> QED BY <1>0, <1>2, <2>1, NoneIs DEF CtDevs
<1>4. dev'.rx = p /\ dev'.tx = CT!None
  BY <1>0, <1>1 DEF CtDevs
<1>5. dev'.txReady = dev.txReady /\ dev'.ctrTx = dev.ctrTx
  BY <1>0, <1>1 DEF CtDevs
<1>6. host' \in CtHosts
  <2> DEFINE b == FALSE
             z == 0
             s == "setup"
  <2>1. /\ b \in BOOLEAN /\ z \in Nat /\ s \in {"idle", "setup", "dataIn", "dataOut", "statusIn", "statusOut"}
        /\ host' = [host EXCEPT !.stage = s, !.req = r, !.got = z, !.alien = b, !.id = id, !.fresh = b]
    BY <1>1
  <2> HIDE DEF b, z, s
  <2> QED BY <1>0, <2>1 DEF CtHosts
<1>7. host'.stage = "setup" /\ host'.got = 0 /\ host'.id = id /\ host'.req = r
  BY <1>0, <1>1 DEF CtHosts
<1>8. ~host'.alien
  BY <1>0, <1>1 DEF CtHosts
<1>9. CtTypes(dev', host') /\ OneAtATime(dev') /\ OwnTransfer(dev', host')
  BY <1>2, <1>3, <1>4, <1>5, <1>6, <1>7 DEF CtInv, CtTypes, OneAtATime, OwnTransfer
<1>10. StatusIsEmpty(dev', host') /\ AddsUp(dev', host') /\ NothingUnknown(dev', host')
  BY <1>2, <1>4 DEF StatusIsEmpty, AddsUp, NothingUnknown, Sending
<1>11. Stages(host')
  BY <1>7, <1>8 DEF Stages
<1> QED BY <1>9, <1>10, <1>11 DEF CtInv

LEMMA SetupDoneKeeps ==
  ASSUME CtInv(dev, host), CT!SetupDone
  PROVE  CtInv(dev', host')
<1> DEFINE s == IF host.req.wLength = 0 THEN "statusIn" ELSE IF host.req.in THEN "dataIn" ELSE "dataOut"
<1>0. /\ dev \in CtDevs /\ host \in CtHosts /\ host.stage = "setup" /\ ~dev.rx.setup /\ dev' = dev
      /\ host.req \in CT!Request /\ host.req.wLength \in Nat
  BY RequestIs DEF CtInv, CtTypes, CtHosts, CT!SetupDone
<1>1. host' = [host EXCEPT !.stage = s]
  BY DEF CT!SetupDone
<1>2. s \in {"statusIn", "dataIn", "dataOut"}
  OBVIOUS
<1>3. /\ s = "statusIn" => host.req.wLength = 0
      /\ s = "dataIn" => host.req.in
      /\ s = "dataOut" => ~host.req.in
  OBVIOUS
<1> HIDE DEF s
<1>4. host' \in CtHosts
  BY <1>0, <1>1, <1>2 DEF CtHosts
<1>5. host'.stage = s /\ host'.req = host.req /\ host'.got = host.got /\ host'.id = host.id
  BY <1>0, <1>1 DEF CtHosts
<1>6. host'.alien = host.alien
  BY <1>0, <1>1 DEF CtHosts
<1>7. CtTypes(dev', host') /\ OneAtATime(dev') /\ OwnTransfer(dev', host')
  BY <1>0, <1>4, <1>5 DEF CtInv, CtTypes, OneAtATime, OwnTransfer
<1>8. StatusIsEmpty(dev', host')
  BY <1>0, <1>5 DEF CtInv, StatusIsEmpty
<1>9. AddsUp(dev', host')
  BY <1>0, <1>5 DEF CtInv, AddsUp, Sending, Asked
<1>10. NothingUnknown(dev', host')
  BY <1>0, <1>5 DEF CtInv, NothingUnknown, Sending
<1>11. Stages(host')
  <2>1. host.got = 0 /\ ~host.alien
    BY <1>0 DEF CtInv, Stages
  <2> QED BY <1>0, <1>2, <1>3, <1>5, <1>6, <2>1 DEF Stages
<1> QED BY <1>7, <1>8, <1>9, <1>10, <1>11 DEF CtInv

\* The host takes a packet of data: only the last one ends its data stage.
LEMMA DataInKeeps ==
  ASSUME CtInv(dev, host), CT!DataIn
  PROVE  CtInv(dev', host')
<1> DEFINE got == host.got + dev.tx.len
           alien == host.alien \/ dev.tx.id # host.id
           s == IF got >= host.req.wLength \/ dev.tx.len < EP0_MPS THEN "statusOut" ELSE host.stage
<1>0. /\ dev \in CtDevs /\ host \in CtHosts /\ host.stage = "dataIn" /\ dev.tx # CT!None
      /\ host.req \in CT!Request /\ host.req.wLength \in Nat /\ host.req.n \in Nat /\ EP0_MPS \in Nat \ {0}
      /\ host.got \in Nat
  BY RequestIs, ControlAssumption DEF CtInv, CtTypes, CtHosts, CT!DataIn
<1>1. host' = [host EXCEPT !.got = got, !.alien = alien, !.stage = s] /\ dev' = CT!Sent(dev)
  BY <1>0 DEF CT!DataIn, CtHosts
<1>2. host.req.in /\ ~dev.rx.setup /\ Sending(dev, host) /\ host.req.kind = "get"
  <2>1. host.req.in /\ ~dev.rx.setup
    BY <1>0 DEF CtInv, Stages, OwnTransfer
  <2>2. Sending(dev, host)
    BY <1>0, <2>1 DEF Sending
  <2>3. host.req.kind # "unknownGet"
    BY <1>0, <2>2 DEF CtInv, NothingUnknown
  <2> QED BY <1>0, <2>1, <2>2, <2>3, RequestIs
<1>3. ~alien
  BY <1>0 DEF CtInv, Stages, OwnTransfer
<1>4. /\ dev.todo >= 0 => got + dev.todo = Asked(host) /\ dev.tx.len = EP0_MPS
                          /\ (dev.todo > 0 \/ Asked(host) < host.req.wLength)
      /\ dev.todo < 0 => got = Asked(host) /\ (dev.tx.len < EP0_MPS \/ Asked(host) = host.req.wLength)
  BY <1>0, <1>2 DEF CtInv, AddsUp
<1>5. Asked(host) \in Nat /\ Asked(host) <= host.req.wLength /\ dev.todo \in Int
  BY <1>0, SmallerIs DEF Asked, CtDevs
<1>6. got \in Nat
  <2>1. CASE dev.todo >= 0
    BY <1>0, <1>4, <2>1
  <2>2. CASE dev.todo < 0
    BY <1>4, <1>5, <2>2
  <2> QED BY <1>5, <2>1, <2>2
<1>7. /\ s = "dataIn" \/ (s = "statusOut" /\ got = Asked(host))
      /\ s = "dataIn" => dev.todo >= 0
  <2> HIDE DEF got
  <2>1. CASE dev.todo >= 0
    <3>1. got < host.req.wLength /\ dev.tx.len = EP0_MPS
      BY <1>4, <1>5, <1>6, <2>1, <1>0
    <3> QED BY <1>0, <1>6, <2>1, <3>1
  <2>2. CASE dev.todo < 0
    BY <1>0, <1>4, <1>5, <1>6, <2>2
  <2> QED BY <1>5, <2>1, <2>2
<1>20. alien \in BOOLEAN
  OBVIOUS
<1> HIDE DEF s, alien, got
<1>8. host' \in CtHosts
  BY <1>0, <1>1, <1>6, <1>7, <1>20 DEF CtHosts
<1>9. host'.stage = s /\ host'.req = host.req /\ host'.got = got /\ host'.id = host.id
  BY <1>0, <1>1 DEF CtHosts
<1>10. ~host'.alien
  BY <1>0, <1>1, <1>3 DEF CtHosts
<1>11. /\ dev' \in CtDevs /\ dev'.req = dev.req /\ dev'.for = dev.for /\ dev'.rx = dev.rx
       /\ dev'.tx = CT!None /\ dev'.todo = dev.todo
  BY <1>0, <1>1, SentIs
<1>12. dev'.trunc = dev.trunc /\ dev'.txReady = dev.txReady
  BY <1>0, <1>1, SentIs
<1>13. ~dev.txReady
  BY <1>0 DEF CtInv, OneAtATime
<1>14. dev.rx = CT!None
  BY <1>0, <1>2 DEF CtInv, OwnTransfer
<1>15. CtTypes(dev', host') /\ OneAtATime(dev')
  BY <1>8, <1>11, <1>12, <1>13 DEF CtTypes, OneAtATime
<1>16. OwnTransfer(dev', host')
  BY <1>2, <1>9, <1>11, <1>14 DEF CtInv, OwnTransfer
<1>17. StatusIsEmpty(dev', host') /\ NothingUnknown(dev', host')
  BY <1>2, <1>9 DEF StatusIsEmpty, NothingUnknown
<1>18. AddsUp(dev', host')
  <2> SUFFICES ASSUME Sending(dev', host')
               PROVE  (dev'.trunc <=> Asked(host) < host.req.wLength) /\ got + dev'.todo = Asked(host)
    BY <1>9, <1>11 DEF AddsUp, Asked
  <2>1. s = "dataIn"
    BY <1>7, <1>9 DEF Sending
  <2>2. dev.trunc <=> Asked(host) < host.req.wLength
    BY <1>2 DEF CtInv, AddsUp
  <2> QED BY <1>4, <1>7, <1>11, <1>12, <2>1, <2>2
<1>19. Stages(host')
  <2>1. Asked(host') = Asked(host)
    BY <1>9 DEF Asked
  <2> QED BY <1>2, <1>7, <1>9, <1>10, <2>1 DEF Stages
<1> QED BY <1>15, <1>16, <1>17, <1>18, <1>19 DEF CtInv

LEMMA DataOutKeeps ==
  ASSUME CtInv(dev, host), CT!DataOut
  PROVE  CtInv(dev', host')
<1> DEFINE len == CT!Smaller(host.req.wLength - host.got, EP0_MPS)
           got == host.got + len
           s == IF got = host.req.wLength THEN "statusIn" ELSE host.stage
           p == CT!Packet(len, host.id, FALSE)
<1>0. /\ dev \in CtDevs /\ host \in CtHosts /\ host.stage = "dataOut" /\ dev.rx = CT!None
      /\ host.req \in CT!Request /\ host.req.wLength \in Nat /\ host.got \in Nat /\ host.id \in 0 .. 1
  BY RequestIs DEF CtInv, CtTypes, CtHosts, CT!DataOut
<1>1. /\ host' = [host EXCEPT !.got = got, !.stage = s]
      /\ dev' = [dev EXCEPT !.rx = p]
  BY <1>0 DEF CT!DataOut, CtHosts
<1>2. ~host.req.in /\ host.got <= host.req.wLength /\ ~dev.rx.setup
  BY <1>0, NoneIs DEF CtInv, Stages
<1>3. len \in Nat /\ len <= host.req.wLength - host.got
  <2>1. host.req.wLength - host.got \in Nat
    BY <1>0, <1>2
  <2> QED BY <2>1, SmallerIs, ControlAssumption
<1>4. got \in Nat /\ got <= host.req.wLength
  <2> HIDE DEF len
  <2> QED BY <1>0, <1>2, <1>3
<1>5. s \in {"statusIn", "dataOut"}
  BY <1>0
<1>6. p \in CtPackets /\ ~p.setup
  BY <1>0, <1>3, PacketIs
<1> HIDE DEF len, got, s, p
<1>7. host' \in CtHosts
  BY <1>0, <1>1, <1>4, <1>5 DEF CtHosts
<1>8. host'.stage = s /\ host'.req = host.req /\ host'.got = got /\ host'.id = host.id
  BY <1>0, <1>1 DEF CtHosts
<1>9. host'.alien = host.alien
  BY <1>0, <1>1 DEF CtHosts
<1>10. dev' \in CtDevs
  BY <1>0, <1>1, <1>6 DEF CtDevs
<1>11. /\ dev'.req = dev.req /\ dev'.for = dev.for /\ dev'.rx = p /\ dev'.tx = dev.tx /\ dev'.todo = dev.todo
  BY <1>0, <1>1 DEF CtDevs
<1>12. dev'.txReady = dev.txReady /\ dev'.ctrTx = dev.ctrTx
  BY <1>0, <1>1 DEF CtDevs
<1>13. CtTypes(dev', host') /\ OneAtATime(dev')
  BY <1>7, <1>10, <1>11, <1>12 DEF CtInv, CtTypes, OneAtATime
<1>14. OwnTransfer(dev', host')
  BY <1>2, <1>6, <1>8, <1>11 DEF CtInv, OwnTransfer
<1>15. StatusIsEmpty(dev', host')
  BY <1>2, <1>8, <1>11 DEF CtInv, StatusIsEmpty
<1>16. AddsUp(dev', host') /\ NothingUnknown(dev', host')
  BY <1>0, <1>2, <1>8, RequestIs DEF AddsUp, NothingUnknown
<1>17. Stages(host')
  <2>1. ~host.alien
    BY DEF CtInv, Stages
  <2> QED BY <1>2, <1>4, <1>5, <1>8, <1>9, <2>1 DEF Stages
<1> QED BY <1>13, <1>14, <1>15, <1>16, <1>17 DEF CtInv

LEMMA StatusOutKeeps ==
  ASSUME CtInv(dev, host), CT!StatusOut
  PROVE  CtInv(dev', host')
<1> DEFINE p == CT!Packet(0, host.id, FALSE)
           s == "idle"
           b == TRUE
<1>0. /\ dev \in CtDevs /\ host \in CtHosts /\ host.stage = "statusOut" /\ dev.rx = CT!None
      /\ host.req \in CT!Request /\ host.id \in 0 .. 1
  BY DEF CtInv, CtTypes, CtHosts, CT!StatusOut
<1>1. /\ host' = [host EXCEPT !.stage = s, !.ok = b]
      /\ dev' = [dev EXCEPT !.rx = p]
  BY DEF CT!StatusOut
<1>2. host.req.in /\ host.got = Asked(host)
  BY <1>0 DEF CtInv, Stages
<1>3. p \in CtPackets /\ ~p.setup
  BY <1>0, PacketIs
<1>4. s = "idle" /\ b \in BOOLEAN /\ ~dev.rx.setup
  BY <1>0, NoneIs
<1> HIDE DEF s, p, b
<1>5. host' \in CtHosts
  BY <1>0, <1>1, <1>4 DEF CtHosts
<1>6. host'.stage = "idle" /\ host'.req = host.req /\ host'.got = host.got /\ host'.id = host.id
  BY <1>0, <1>1, <1>4 DEF CtHosts
<1>7. host'.alien = host.alien
  BY <1>0, <1>1 DEF CtHosts
<1>8. dev' \in CtDevs
  BY <1>0, <1>1, <1>3 DEF CtDevs
<1>9. dev'.req = dev.req /\ dev'.for = dev.for /\ dev'.rx = p /\ dev'.tx = dev.tx
  BY <1>0, <1>1 DEF CtDevs
<1>10. dev'.txReady = dev.txReady /\ dev'.ctrTx = dev.ctrTx
  BY <1>0, <1>1 DEF CtDevs
<1>11. CtTypes(dev', host') /\ OneAtATime(dev')
  BY <1>5, <1>8, <1>9, <1>10 DEF CtInv, CtTypes, OneAtATime
<1>12. OwnTransfer(dev', host')
  BY <1>3, <1>4, <1>6, <1>9 DEF CtInv, OwnTransfer
<1>13. StatusIsEmpty(dev', host') /\ AddsUp(dev', host') /\ NothingUnknown(dev', host')
  BY <1>2, <1>6 DEF StatusIsEmpty, AddsUp, NothingUnknown, Sending
<1>14. Stages(host')
  <2>1. ~host.alien
    BY DEF CtInv, Stages
  <2> QED BY <1>2, <1>6, <1>7, <2>1 DEF Stages, Asked
<1> QED BY <1>11, <1>12, <1>13, <1>14 DEF CtInv

LEMMA StatusInKeeps ==
  ASSUME CtInv(dev, host), CT!StatusIn
  PROVE  CtInv(dev', host')
<1> DEFINE alien == host.alien \/ dev.tx.id # host.id \/ dev.tx.len # 0
           addr == IF host.req.kind = "address" THEN host.req.n ELSE host.addr
           s == "idle"
           b == TRUE
<1>0. /\ dev \in CtDevs /\ host \in CtHosts /\ host.stage = "statusIn" /\ dev.tx # CT!None
      /\ host.req \in CT!Request /\ host.req.n \in Nat /\ EP0_MPS \in Nat \ {0} /\ host.got \in Nat
  BY RequestIs, ControlAssumption DEF CtInv, CtTypes, CtHosts, CT!StatusIn
<1>1. /\ host' = [host EXCEPT !.stage = s, !.ok = b, !.alien = alien, !.addr = addr]
      /\ dev' = CT!Sent(dev)
  BY <1>0 DEF CT!StatusIn, CtHosts
<1>2. ~dev.rx.setup /\ Sending(dev, host)
  BY <1>0 DEF CtInv, OwnTransfer, Sending
<1>3. host.req.in => host.got = 0 /\ Asked(host) = 0 /\ host.req.kind = "get"
  <2> SUFFICES ASSUME host.req.in PROVE host.got = 0 /\ Asked(host) = 0 /\ host.req.kind = "get"
    OBVIOUS
  <2>1. host.req.wLength = 0 /\ host.got = 0
    BY <1>0 DEF CtInv, Stages
  <2>2. host.req.kind = "get"
    BY <1>0, <2>1, RequestIs
  <2>3. 0 \in Nat /\ CT!Smaller(host.req.n, 0) = 0
    BY <1>0, SmallerIs
  <2> QED BY <2>1, <2>2, <2>3 DEF Asked
<1>4. dev.tx.len = 0
  <2>1. CASE host.req.in
    <3>1. /\ dev.todo >= 0 => dev.tx.len + dev.todo = 0 /\ dev.tx.len = EP0_MPS
          /\ dev.todo < 0 => dev.tx.len = 0
      <4>1. dev.tx.len \in Int /\ dev.todo \in Int
        BY <1>0 DEF CtDevs, CtPackets
      <4> QED BY <1>0, <1>2, <1>3, <2>1, <4>1 DEF CtInv, AddsUp
    <3>2. dev.todo \in Int
      BY <1>0 DEF CtDevs
    <3> QED BY <1>0, <3>1, <3>2
  <2>2. CASE ~host.req.in
    BY <1>0, <1>2, <2>2 DEF CtInv, StatusIsEmpty
  <2> QED BY <2>1, <2>2
<1>5. ~alien
  BY <1>0, <1>4 DEF CtInv, Stages, OwnTransfer
<1>6. alien \in BOOLEAN /\ b \in BOOLEAN /\ s = "idle"
  OBVIOUS
<1>7. addr \in 0 .. 2
  BY <1>0, RequestIs DEF CtHosts
<1> HIDE DEF alien, addr, s, b
<1>8. host' \in CtHosts
  BY <1>0, <1>1, <1>6, <1>7 DEF CtHosts
<1>9. host'.stage = "idle" /\ host'.req = host.req /\ host'.got = host.got /\ host'.id = host.id
  BY <1>0, <1>1, <1>6 DEF CtHosts
<1>10. ~host'.alien
  BY <1>0, <1>1, <1>5 DEF CtHosts
<1>11. /\ dev' \in CtDevs /\ dev'.req = dev.req /\ dev'.for = dev.for /\ dev'.rx = dev.rx
       /\ dev'.tx = CT!None /\ dev'.todo = dev.todo
  BY <1>0, <1>1, SentIs
<1>12. dev'.txReady = dev.txReady
  BY <1>0, <1>1, SentIs
<1>13. ~dev.txReady
  BY <1>0 DEF CtInv, OneAtATime
<1>14. CtTypes(dev', host') /\ OneAtATime(dev')
  BY <1>8, <1>11, <1>12, <1>13 DEF CtTypes, OneAtATime
<1>15. OwnTransfer(dev', host')
  BY <1>2, <1>9, <1>11 DEF CtInv, OwnTransfer
<1>16. StatusIsEmpty(dev', host')
  BY <1>2, <1>9, <1>11 DEF CtInv, StatusIsEmpty
<1>17. AddsUp(dev', host') /\ NothingUnknown(dev', host')
  BY <1>9 DEF AddsUp, NothingUnknown, Sending
<1>18. Stages(host')
  <2>1. host.req.in => host.got = Asked(host)
    BY <1>3
  <2> QED BY <1>9, <1>10, <2>1 DEF Stages, Asked
<1> QED BY <1>14, <1>15, <1>16, <1>17, <1>18 DEF CtInv

LEMMA StalledKeeps ==
  ASSUME CtInv(dev, host), CT!Stalled
  PROVE  CtInv(dev', host')
<1> DEFINE s == "idle"
           b == FALSE
<1>0. dev \in CtDevs /\ host \in CtHosts /\ host.stage \in {"dataIn", "statusIn"} /\ dev' = dev
  BY DEF CtInv, CtTypes, CT!Stalled
<1>1. host' = [host EXCEPT !.stage = s, !.ok = b] /\ s = "idle" /\ b \in BOOLEAN
  BY DEF CT!Stalled
<1>2. ~host'.ok
  BY <1>0, <1>1 DEF CtHosts
<1> HIDE DEF s, b
<1>3. host' \in CtHosts
  BY <1>0, <1>1 DEF CtHosts
<1>4. host'.stage = "idle" /\ host'.req = host.req /\ host'.got = host.got /\ host'.id = host.id
  BY <1>0, <1>1 DEF CtHosts
<1>5. host'.alien = host.alien
  BY <1>0, <1>1 DEF CtHosts
<1>6. ~dev.rx.setup
  BY <1>0 DEF CtInv, OwnTransfer
<1>7. CtTypes(dev', host') /\ OneAtATime(dev') /\ OwnTransfer(dev', host')
  BY <1>0, <1>3, <1>4, <1>6 DEF CtInv, CtTypes, OneAtATime, OwnTransfer
<1>8. StatusIsEmpty(dev', host') /\ AddsUp(dev', host') /\ NothingUnknown(dev', host')
  BY <1>0, <1>4 DEF CtInv, StatusIsEmpty, AddsUp, NothingUnknown, Sending
<1>9. Stages(host')
  <2>1. ~host.alien
    BY DEF CtInv, Stages
  <2> QED BY <1>2, <1>4, <1>5, <2>1 DEF Stages
<1> QED BY <1>7, <1>8, <1>9 DEF CtInv

\* A control transfer that succeeds has moved what was asked for and is there, all of it
\* made for this transfer, whatever was still under way from the one before
\* (core.c, handle_rx_ep0() and usb_write_ep0()).
THEOREM TransferIsExactAlways == Spec => []TransferIsExact
<1>1. Init => CtInv(dev, host)
  BY InitKeeps DEF Init, PipeInit, CT!Init
<1>2. CtInv(dev, host) /\ [Next]_vars => CtInv(dev, host)'
  <2> SUFFICES ASSUME CtInv(dev, host), [Next]_vars PROVE CtInv(dev', host')
    BY DEF CtInv, CtTypes, OneAtATime, OwnTransfer, StatusIsEmpty, AddsUp, NothingUnknown, Stages, Sending, Asked
  <2>1. CASE UNCHANGED <<dev, host>>
    BY <2>1
  <2>2. CASE CT!Next
    <3>1. CASE CT!RxTransfer
      BY <3>1, RxTransferKeeps
    <3>2. CASE CT!TxTransfer
      BY <3>2, TxTransferKeeps
    <3>3. CASE CT!BusReset
      BY <3>3, InitKeeps DEF CT!BusReset
    <3>4. ASSUME NEW r \in CT!Request, CT!StartTransfer(r) PROVE CtInv(dev', host')
      BY <3>4, StartTransferKeeps
    <3>5. CASE CT!Host
      BY <3>5, SetupDoneKeeps, DataInKeeps, DataOutKeeps, StatusOutKeeps, StatusInKeeps, StalledKeeps DEF CT!Host
    <3> QED BY <2>2, <3>1, <3>2, <3>3, <3>4, <3>5 DEF CT!Next
  <2>3. UNCHANGED <<dev, host>> \/ CT!Next
    BY DEF Next, Pipe, vars
  <2> QED BY <2>1, <2>2, <2>3
<1>3. CtInv(dev, host) => TransferIsExact
  BY DEF CtInv, Stages, TransferIsExact, Asked
<1> QED BY <1>1, <1>2, <1>3, PTL DEF Spec
=============================================================================
