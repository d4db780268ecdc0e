------------------------ MODULE FloppyCommandsProofs ------------------------
(***************************************************************************)
(* Theorems about the drives' bus, about the commands that go on after their     *)
(* acknowledgement, and about the clock, in their run.                      *)
(*                                                                         *)
(* The bus, for every set of units, every number of cylinders and however far   *)
(* beyond cylinder 0 a flippy drive is taken: the inductive invariant says of    *)
(* each unit and its drive that they agree, and of the lines what the firmware   *)
(* remembers of them.                                                      *)
(*                                                                         *)
(* The streams, for every set of them that end in their only NUL, all sizes of   *)
(* buffers and packets, and all limits of a pulse: the inductive invariant says   *)
(* where each byte and each tick of a stream is, and what is on its way to the   *)
(* host; a second one, which builds on it, says of every flux change of the       *)
(* stream that it was made, or is still to come.  What a decoder keeps is shown   *)
(* of one turn, and of any number of turns by induction over the set of the        *)
(* numbers for which it has been shown.                                    *)
(*                                                                         *)
(* The clock, for every width of the counters, every period and reach of a       *)
(* timer, all delays, and however late interrupts and the main loop are, within    *)
(* what ClockAssumption says of them: the inductive invariant says how much is    *)
(* left of each timer and how old what was read of the clock can be.            *)
(***************************************************************************)
EXTENDS MCFloppyCommands, SequenceTheorems, WellFoundedInduction, TLAPS


Unit == [initialised : BOOLEAN, cyl : Int, isFlippy : BOOLEAN, motor : BOOLEAN]
Mechanism == [kind : DB!AllKinds, head : Int, selected : BOOLEAN, motor : BOOLEAN, known : BOOLEAN]

\* What the firmware believes of an initialised drive is so, or the drive is further out,
\* if it was sought past its innermost cylinder.  One that it knew is not beyond cylinder 0
\* when it has forgotten it.
Agree(u, d) ==
  /\ d.head <= MaxCyl /\ DB!Stop(d.kind) <= d.head
  /\ u.initialised =>
       /\ d.kind \in {"plain", "loose", "flippy"} /\ u.isFlippy = (d.kind = "flippy")
       /\ d.head <= u.cyl /\ (u.cyl < 0 => d.kind = "flippy")
       /\ d.known \/ (d.kind = "plain" /\ u.cyl = 0) => d.head = u.cyl
  /\ ~u.initialised => (d.known => d.head >= 0)

UnitsAgree ==
  /\ unit \in [Units -> Unit] /\ drive \in [Units -> Mechanism]
  /\ \A i \in Units : Agree(unit[i], drive[i])

LinesAgree ==
  /\ bus \in DB!Buses /\ unitNr \in DB!OnBus(bus) \cup {-1}
  /\ \A i \in Units :
       /\ unit[i].initialised => i \in DB!OnBus(bus)
       /\ drive[i].selected = (i = unitNr)
       /\ drive[i].motor => \E nr \in Units : unit[nr].motor /\ i \in DB!Wired(nr)

BusInv == UnitsAgree /\ LinesAgree /\ DB!QuietIsQuiet /\ DB!NoclickEndsAtZero

-----------------------------------------------------------------------------
(* The units of a bus, and what a seek does to one unit and its drive. *)

LEMMA BusUnits ==
  /\ \A b \in DB!Buses : DB!OnBus(b) \subseteq Units
  /\ -1 \notin Units
  /\ DB!OnBus("none") = {} /\ DB!OnBus("shugart") = Units
BY BusAssumption DEF DB!Buses, DB!OnBus

LEMMA Stops ==
  /\ DB!MinCyl \in Int /\ DB!MinCyl <= 0 /\ MaxCyl \in Int /\ MaxCyl >= 1 /\ -10 < DB!MinCyl
  /\ \A kind \in DB!AllKinds : DB!Stop(kind) \in Int /\ DB!Stop(kind) <= 0
  /\ DB!Stop("plain") = 0 /\ DB!Stop("loose") = -1 /\ DB!Stop("flippy") = DB!MinCyl
BY BusAssumption DEF DB!MinCyl, DB!Stop, DB!AllKinds, DB!FarIn

\* A drive with its head elsewhere, known or not; a unit that believes it elsewhere.
LEMMA HeadOf ==
  ASSUME NEW d \in Mechanism, NEW n \in Int
  PROVE  LET e == [d EXCEPT !.head = n]
         IN  /\ e \in Mechanism /\ e.kind = d.kind /\ e.head = n /\ e.known = d.known
             /\ e.selected = d.selected /\ e.motor = d.motor
BY DEF Mechanism

LEMMA KnownOf ==
  ASSUME NEW d \in Mechanism, NEW k \in BOOLEAN
  PROVE  LET e == [d EXCEPT !.known = k]
         IN  /\ e \in Mechanism /\ e.kind = d.kind /\ e.head = d.head /\ e.known = k
             /\ e.selected = d.selected /\ e.motor = d.motor
BY DEF Mechanism

LEMMA HeadKnownOf ==
  ASSUME NEW d \in Mechanism, NEW n \in Int, NEW k \in BOOLEAN
  PROVE  LET e == [d EXCEPT !.head = n, !.known = k]
         IN  /\ e \in Mechanism /\ e.kind = d.kind /\ e.head = n /\ e.known = k
             /\ e.selected = d.selected /\ e.motor = d.motor
BY DEF Mechanism

LEMMA CylOf ==
  ASSUME NEW u \in Unit, NEW n \in Int
  PROVE  LET v == [u EXCEPT !.cyl = n]
         IN  /\ v \in Unit /\ v.cyl = n /\ v.initialised = u.initialised /\ v.isFlippy = u.isFlippy
             /\ v.motor = u.motor
BY DEF Unit

\* s is a result of moving drive d of unit u: they agree still, and the lines stay.
Moved(u, d, s) ==
  /\ s.u \in Unit /\ s.d \in Mechanism /\ Agree(s.u, s.d)
  /\ s.u.motor = u.motor /\ s.d.selected = d.selected /\ s.d.motor = d.motor /\ s.d.kind = d.kind
  /\ u.initialised => s.u.initialised

\* The head after steps: where the firmware goes, or further out.
LEMMA StepsArrive ==
  ASSUME NEW u \in Unit, NEW d \in Mechanism, NEW cyl \in Int, Agree(u, d), u.initialised,
         ~DB!Outside(u, cyl)
  PROVE  LET s == DB!SteppedTo(u, d, cyl)
         IN  Moved(u, d, s) /\ s.u.initialised /\ s.u.cyl = cyl /\ s.ack = "okay"
<1> DEFINE e == IF u.cyl < cyl THEN DB!Inwards(d, cyl - u.cyl)
                ELSE DB!Outwards(d, u.cyl - cyl, cyl >= 0)
           s == DB!SteppedTo(u, d, cyl)
<1>1. /\ u.cyl \in Int /\ d.head \in Int /\ d.kind \in {"plain", "loose", "flippy"}
      /\ d.head <= MaxCyl /\ DB!Stop(d.kind) <= d.head /\ d.head <= u.cyl
      /\ u.isFlippy = (d.kind = "flippy")
      /\ d.known \/ (d.kind = "plain" /\ u.cyl = 0) => d.head = u.cyl
      /\ d.known \in BOOLEAN /\ (u.cyl < 0 => d.kind = "flippy")
  <2>1. u.cyl \in Int /\ d.head \in Int /\ d.known \in BOOLEAN
    BY DEF Unit, Mechanism
  <2> QED BY <2>1, Zenon DEF Agree
<1>2. cyl >= 0 \/ (d.kind = "flippy" /\ cyl >= DB!MinCyl)
  <2>1. (u.isFlippy => cyl >= DB!MinCyl) /\ (~u.isFlippy => cyl >= 0)
    <3>1. CASE u.isFlippy
      <4>1. ~(cyl < DB!MinCyl)
        BY <3>1, Zenon DEF DB!Outside
      <4> QED BY <3>1, <4>1, Stops
    <3>2. CASE ~u.isFlippy
      <4>1. ~(cyl < 0)
        BY <3>2, Zenon DEF DB!Outside
      <4> QED BY <3>2, <4>1
    <3> QED BY <3>1, <3>2
  <2> QED BY <1>1, <2>1, Zenon
<1>3. PICK h \in Int : h = e.head /\ e = [d EXCEPT !.head = h] /\ h <= MaxCyl /\ DB!Stop(d.kind) <= h /\ h <= cyl
                       /\ (d.known /\ cyl <= MaxCyl => h = cyl)
                       /\ (d.kind = "plain" /\ cyl = 0 => h = cyl)
  <2>1. CASE u.cyl < cyl
    <3> DEFINE h == DB!Smaller(d.head + (cyl - u.cyl), MaxCyl)
    <3>1. h \in Int /\ h <= MaxCyl /\ h >= d.head /\ h <= cyl /\ (d.head = u.cyl /\ cyl <= MaxCyl => h = cyl)
      BY <1>1, <2>1, Stops DEF DB!Smaller
    <3>2. e = [d EXCEPT !.head = h]
      BY <2>1 DEF DB!Inwards
    <3>3. DB!Stop(d.kind) \in Int
      BY Stops DEF Mechanism
    <3>4. ~(d.kind = "plain" /\ cyl = 0)
      BY <1>1, <2>1
    <3> HIDE DEF h, e
    <3>5. e.head = h
      BY <3>1, <3>2, HeadOf
    <3>6. DB!Stop(d.kind) <= h
      BY <1>1, <3>1, <3>3
    <3> QED BY <1>1, <3>1, <3>2, <3>4, <3>5, <3>6
  <2>2. CASE ~(u.cyl < cyl)
    <3> DEFINE o == DB!Outermost(d, cyl >= 0)
               h == DB!Bigger(d.head - (u.cyl - cyl), o)
    <3>1. o \in Int /\ DB!Stop(d.kind) <= o /\ o <= cyl /\ o <= d.head /\ DB!Stop(d.kind) \in Int
      <4>1. CASE d.kind = "plain"
        <5>1. d.head >= 0 /\ cyl >= 0 /\ o = 0
          BY <1>1, <1>2, <4>1, Stops DEF DB!Outermost, DB!Trk0
        <5> QED BY <4>1, <5>1, <1>1, Stops
      <4>2. CASE d.kind = "loose"
        <5>1. d.head >= -1 /\ cyl >= 0 /\ o = -1
          BY <1>1, <1>2, <4>2, Stops DEF DB!Outermost
        <5> QED BY <4>2, <5>1, <1>1, Stops
      <4>3. CASE d.kind = "flippy" /\ cyl >= 0
        <5>1. o = IF d.head <= 0 THEN d.head ELSE 0
          BY <4>3 DEF DB!Outermost, DB!Trk0
        <5> QED BY <4>3, <5>1, <1>1, Stops
      <4>4. CASE d.kind = "flippy" /\ ~(cyl >= 0)
        <5>1. o = DB!MinCyl
          BY <4>4, Stops DEF DB!Outermost
        <5> QED BY <4>4, <5>1, <1>1, <1>2, Stops
      <4> QED BY <1>1, <4>1, <4>2, <4>3, <4>4
    <3>2. e = [d EXCEPT !.head = h]
      BY <2>2 DEF DB!Outwards
    <3> HIDE DEF o, e
    <3>3. /\ h \in Int /\ h <= MaxCyl /\ DB!Stop(d.kind) <= h /\ h <= cyl
          /\ (d.head = u.cyl => h = cyl) /\ (cyl = 0 /\ o = 0 => h = cyl)
      BY ONLY <1>1, <2>2, <3>1, Stops, cyl \in Int DEF DB!Bigger
    <3>4. d.kind = "plain" /\ cyl = 0 => o = 0
      BY <3>1, Stops
    <3> HIDE DEF h
    <3>5. e.head = h
      BY <3>2, <3>3, HeadOf
    <3> QED BY <1>1, <3>2, <3>3, <3>4, <3>5
  <2> QED BY <2>1, <2>2
<1> DEFINE known == e.known /\ cyl <= MaxCyl
<1>4. s = [u |-> [u EXCEPT !.cyl = cyl], d |-> [e EXCEPT !.known = known], ack |-> "okay"]
  <2>1. [e EXCEPT !.known = @ /\ cyl <= MaxCyl] = [e EXCEPT !.known = known]
    BY <1>3 DEF Mechanism
  <2> QED BY <2>1 DEF DB!SteppedTo
<1>5. s.u = [u EXCEPT !.cyl = cyl] /\ s.d = [e EXCEPT !.known = known] /\ s.ack = "okay"
  BY <1>4
<1> HIDE DEF e, s
<1>6. /\ e \in Mechanism /\ e.kind = d.kind /\ e.known = d.known /\ known \in BOOLEAN
      /\ e.selected = d.selected /\ e.motor = d.motor
  <2>1. e \in Mechanism /\ e.kind = d.kind /\ e.known = d.known /\ e.selected = d.selected /\ e.motor = d.motor
    BY <1>3, HeadOf
  <2> QED BY <1>1, <2>1 DEF known
<1> HIDE DEF known
<1>7. /\ s.d \in Mechanism /\ s.d.kind = d.kind /\ s.d.head = h /\ s.d.known = known
      /\ s.d.selected = d.selected /\ s.d.motor = d.motor
  <2>1. s.d = [e EXCEPT !.known = known]
    BY <1>5
  <2>2. /\ s.d \in Mechanism /\ s.d.kind = e.kind /\ s.d.head = e.head /\ s.d.known = known
        /\ s.d.selected = e.selected /\ s.d.motor = e.motor
    <3>1. PICK x : x = [e EXCEPT !.known = known]
      OBVIOUS
    <3>2. /\ x \in Mechanism /\ x.kind = e.kind /\ x.head = e.head /\ x.known = known
          /\ x.selected = e.selected /\ x.motor = e.motor
      BY ONLY <3>1, <1>6 DEF Mechanism
    <3>3. s.d = x
      BY ONLY <2>1, <3>1
    <3> QED BY ONLY <3>2, <3>3, Zenon
  <2> QED BY <1>3, <1>6, <2>2
<1>8. /\ s.u \in Unit /\ s.u.cyl = cyl /\ s.u.initialised = u.initialised /\ s.u.isFlippy = u.isFlippy
      /\ s.u.motor = u.motor
  <2>1. s.u = [u EXCEPT !.cyl = cyl]
    BY <1>5
  <2>2. PICK v : v = [u EXCEPT !.cyl = cyl]
    OBVIOUS
  <2>3. /\ v \in Unit /\ v.cyl = cyl /\ v.initialised = u.initialised /\ v.isFlippy = u.isFlippy
        /\ v.motor = u.motor
    BY ONLY <2>2, u \in Unit, cyl \in Int DEF Unit
  <2>4. s.u = v
    BY ONLY <2>1, <2>2
  <2> QED BY ONLY <2>3, <2>4, Zenon
<1>9. known => d.known /\ cyl <= MaxCyl
  BY <1>6 DEF known
<1>10. Agree(s.u, s.d)
  <2>1. h <= MaxCyl /\ DB!Stop(s.d.kind) <= h
    BY <1>3, <1>7
  <2>2. cyl < 0 => s.d.kind = "flippy"
    BY <1>2, <1>7, Stops
  <2>3. s.d.known \/ (s.d.kind = "plain" /\ cyl = 0) => h = cyl
    BY <1>3, <1>7, <1>9
  <2> QED BY <1>1, <1>3, <1>7, <1>8, <2>1, <2>2, <2>3, Zenon DEF Agree
<1> QED BY <1>5, <1>7, <1>8, <1>10 DEF Moved, s

LEMMA InitialisedAgrees ==
  ASSUME NEW u \in Unit, NEW d \in Mechanism, Agree(u, d), ~u.initialised
  PROVE  LET r == DB!Initialised(u, d)
         IN  /\ Moved(u, d, r) /\ r.ack \in {"okay", "noTrk0"} /\ (r.ack = "okay" => r.u.initialised)
<1> DEFINE r == DB!Initialised(u, d)
<1>1. /\ u.cyl \in Int /\ u.initialised = FALSE /\ u.isFlippy \in BOOLEAN /\ d.head \in Int /\ d.kind \in DB!AllKinds
      /\ d.head <= MaxCyl /\ DB!Stop(d.kind) <= d.head /\ DB!Stop(d.kind) \in Int
  BY Stops DEF Agree, Unit, Mechanism
<1>2. CASE ~DB!FindsTrk0(d)
  <2> DEFINE e == [d EXCEPT !.head = DB!Stop(d.kind), !.known = FALSE]
  <2>1. r = [u |-> u, d |-> e, ack |-> "noTrk0"]
    BY <1>2 DEF DB!Initialised, DB!FindsTrk0
  <2>2. e = [d EXCEPT !.head = DB!Stop(d.kind), !.known = FALSE]
    OBVIOUS
  <2>3. r.u = u /\ r.d = e /\ r.ack = "noTrk0"
    BY <2>1
  <2> HIDE DEF r, e
  <2>4. /\ e \in Mechanism /\ e.kind = d.kind /\ e.head = DB!Stop(d.kind) /\ e.known = FALSE
        /\ e.selected = d.selected /\ e.motor = d.motor
    BY <1>1, <2>2, HeadKnownOf
  <2>5. Agree(u, e)
    BY <1>1, <2>4, Stops DEF Agree
  <2> QED BY <1>1, <2>3, <2>4, <2>5 DEF Moved, r
<1>7. PICK yes \in BOOLEAN : yes = TRUE
  OBVIOUS
<1>9. PICK one \in Int : one = 1
  OBVIOUS
<1>10. PICK zero \in Int : zero = 0
  OBVIOUS
<1>8. PICK no \in BOOLEAN : no = FALSE
  OBVIOUS
<1>3. CASE DB!FindsTrk0(d) /\ d.kind = "stuck"
  <2> PICK v : v = [u EXCEPT !.cyl = zero, !.isFlippy = yes]
    OBVIOUS
  <2> PICK h : h = DB!Smaller(d.head + DB!FarIn, MaxCyl)
    OBVIOUS
  <2> PICK in : in = [d EXCEPT !.head = h]
    OBVIOUS
  <2> PICK e : e = [in EXCEPT !.known = no]
    OBVIOUS
  <2>1. r = [u |-> v, d |-> e, ack |-> "noTrk0"]
    <3>1. /\ v = [u EXCEPT !.cyl = 0, !.isFlippy = TRUE]
          /\ e = [DB!Inwards(d, DB!FarIn) EXCEPT !.known = FALSE]
      BY <1>7, <1>8, <1>9, <1>10, Zenon DEF DB!Inwards
    <3> QED BY <1>3, <3>1 DEF DB!Initialised
  <2>2. r.u = v /\ r.d = e /\ r.ack = "noTrk0"
    BY <2>1
  <2>3. h \in Int /\ h <= MaxCyl /\ h >= d.head
    BY <1>1, Stops DEF DB!Smaller, DB!FarIn
  <2>4. /\ in \in Mechanism /\ in.kind = d.kind /\ in.head = h
        /\ in.selected = d.selected /\ in.motor = d.motor
    BY ONLY <2>3, d \in Mechanism, in = [d EXCEPT !.head = h] DEF Mechanism
  <2>5. /\ e \in Mechanism /\ e.kind = in.kind /\ e.head = in.head /\ e.known = no
        /\ e.selected = in.selected /\ e.motor = in.motor
    BY ONLY <2>4, no \in BOOLEAN, e = [in EXCEPT !.known = no] DEF Mechanism
  <2>6. v \in Unit /\ v.initialised = u.initialised /\ v.motor = u.motor
    <3>1. LET x == [u EXCEPT !.cyl = zero, !.isFlippy = yes]
          IN  x \in Unit /\ x.initialised = u.initialised /\ x.motor = u.motor
      BY ONLY u \in Unit, yes \in BOOLEAN, zero \in Int DEF Unit
    <3> QED BY ONLY <3>1, v = [u EXCEPT !.cyl = zero, !.isFlippy = yes], Zenon
  <2>7. Agree(v, e)
    BY <1>1, <1>8, <1>10, <2>3, <2>4, <2>5, <2>6, Stops DEF Agree
  <2> HIDE DEF r
  <2>8. Moved(u, d, r)
    BY <1>1, <2>2, <2>4, <2>5, <2>6, <2>7, Zenon DEF Moved
  <2> QED BY <2>2, <2>8 DEF r
<1>4. CASE DB!FindsTrk0(d) /\ d.kind = "flippy"
  <2> PICK v : v = [u EXCEPT !.initialised = yes, !.cyl = one, !.isFlippy = yes]
    OBVIOUS
  <2> PICK e : e = [d EXCEPT !.head = one, !.known = yes]
    OBVIOUS
  <2>1. r = [u |-> v, d |-> e, ack |-> "okay"]
    <3>1. /\ v = [u EXCEPT !.initialised = TRUE, !.cyl = 1, !.isFlippy = TRUE]
          /\ e = [d EXCEPT !.head = 1, !.known = TRUE]
      BY <1>7, <1>8, <1>9, <1>10, Zenon
    <3> QED BY <1>4, <3>1 DEF DB!Initialised
  <2>2. r.u = v /\ r.d = e /\ r.ack = "okay"
    BY <2>1
  <2>4. /\ e \in Mechanism /\ e.kind = d.kind /\ e.head = one /\ e.known = yes
        /\ e.selected = d.selected /\ e.motor = d.motor
    <3>1. LET x == [d EXCEPT !.head = one, !.known = yes]
          IN  /\ x \in Mechanism /\ x.kind = d.kind /\ x.head = one /\ x.known = yes
              /\ x.selected = d.selected /\ x.motor = d.motor
      BY ONLY d \in Mechanism, yes \in BOOLEAN, one \in Int, zero \in Int DEF Mechanism
    <3> QED BY ONLY <3>1, e = [d EXCEPT !.head = one, !.known = yes], Zenon
  <2>5. v \in Unit /\ v.initialised = yes /\ v.cyl = one /\ v.isFlippy = yes /\ v.motor = u.motor
    <3>1. LET x == [u EXCEPT !.initialised = yes, !.cyl = one, !.isFlippy = yes]
          IN  /\ x \in Unit /\ x.initialised = yes /\ x.cyl = one /\ x.isFlippy = yes
              /\ x.motor = u.motor
      BY ONLY u \in Unit, yes \in BOOLEAN, no \in BOOLEAN, one \in Int, zero \in Int DEF Unit
    <3> QED BY ONLY <3>1, v = [u EXCEPT !.initialised = yes, !.cyl = one, !.isFlippy = yes], Zenon
  <2>6. Agree(v, e)
    <3>1. /\ e.head <= MaxCyl /\ DB!Stop(e.kind) <= e.head /\ e.head = v.cyl /\ e.head <= v.cyl
          /\ ~(v.cyl < 0)
      BY <1>4, <1>9, <2>4, <2>5, Stops
    <3>2. e.kind = "flippy" /\ v.initialised = TRUE /\ v.isFlippy = TRUE
      BY <1>4, <1>7, <2>4, <2>5, Zenon
    <3>3. (e.kind = "flippy") = TRUE
      BY <3>2
    <3> QED BY <3>1, <3>2, <3>3, Zenon DEF Agree
  <2> HIDE DEF r
  <2>7. Moved(u, d, r) /\ r.u.initialised
    BY <1>1, <1>7, <2>2, <2>4, <2>5, <2>6, Zenon DEF Moved
  <2> QED BY <2>2, <2>7 DEF r
<1>5. CASE DB!FindsTrk0(d) /\ d.kind \in {"plain", "loose"}
  <2> PICK v : v = [u EXCEPT !.initialised = yes, !.cyl = zero, !.isFlippy = no]
    OBVIOUS
  <2> PICK e : e = [d EXCEPT !.head = zero, !.known = yes]
    OBVIOUS
  <2>1. r = [u |-> v, d |-> e, ack |-> "okay"]
    <3>1. /\ v = [u EXCEPT !.initialised = TRUE, !.cyl = 0, !.isFlippy = FALSE]
          /\ e = [d EXCEPT !.head = 0, !.known = TRUE]
      BY <1>7, <1>8, <1>9, <1>10, Zenon
    <3> QED BY <1>5, <3>1 DEF DB!Initialised
  <2>2. r.u = v /\ r.d = e /\ r.ack = "okay"
    BY <2>1
  <2>4. /\ e \in Mechanism /\ e.kind = d.kind /\ e.head = zero /\ e.known = yes
        /\ e.selected = d.selected /\ e.motor = d.motor
    <3>1. LET x == [d EXCEPT !.head = zero, !.known = yes]
          IN  /\ x \in Mechanism /\ x.kind = d.kind /\ x.head = zero /\ x.known = yes
              /\ x.selected = d.selected /\ x.motor = d.motor
      BY ONLY d \in Mechanism, yes \in BOOLEAN, one \in Int, zero \in Int DEF Mechanism
    <3> QED BY ONLY <3>1, e = [d EXCEPT !.head = zero, !.known = yes], Zenon
  <2>5. v \in Unit /\ v.initialised = yes /\ v.cyl = zero /\ v.isFlippy = no /\ v.motor = u.motor
    <3>1. LET x == [u EXCEPT !.initialised = yes, !.cyl = zero, !.isFlippy = no]
          IN  /\ x \in Unit /\ x.initialised = yes /\ x.cyl = zero /\ x.isFlippy = no
              /\ x.motor = u.motor
      BY ONLY u \in Unit, yes \in BOOLEAN, no \in BOOLEAN, one \in Int, zero \in Int DEF Unit
    <3> QED BY ONLY <3>1, v = [u EXCEPT !.initialised = yes, !.cyl = zero, !.isFlippy = no], Zenon
  <2>6. Agree(v, e)
    BY <1>5, <1>7, <1>8, <1>9, <1>10, <2>4, <2>5, Stops DEF Agree
  <2> HIDE DEF r
  <2>7. Moved(u, d, r) /\ r.u.initialised
    BY <1>1, <1>7, <2>2, <2>4, <2>5, <2>6, Zenon DEF Moved
  <2> QED BY <2>2, <2>7 DEF r
<1>6. d.kind # "dead" \/ ~DB!FindsTrk0(d)
  BY DEF DB!FindsTrk0
<1> QED BY <1>1, <1>2, <1>3, <1>4, <1>5, <1>6 DEF DB!AllKinds

\* A seek leaves the unit and its drive in agreement; it believes the drive at the cylinder
\* asked for unless it is refused, and cylinder 0 of an initialised drive is never refused.
LEMMA SeekAgrees ==
  ASSUME NEW u \in Unit, NEW d \in Mechanism, NEW cyl \in Int, Agree(u, d)
  PROVE  LET s == DB!Sought(u, d, cyl)
         IN  /\ Moved(u, d, s)
             /\ s.ack = "okay" => s.u.initialised /\ s.u.cyl = cyl
             /\ u.initialised /\ cyl = 0 => s.ack = "okay"
             /\ cyl = 0 => s.ack # "badCylinder"
<1> DEFINE r == IF u.initialised THEN [u |-> u, d |-> d, ack |-> "okay"] ELSE DB!Initialised(u, d)
           s == DB!Sought(u, d, cyl)
<1>1. /\ Moved(u, d, r) /\ r.ack \in {"okay", "noTrk0"} /\ (r.ack = "okay" => r.u.initialised)
      /\ u.initialised => r.ack = "okay"
  <2>1. CASE u.initialised
    BY <2>1 DEF Moved
  <2>2. CASE ~u.initialised
    BY <2>2, InitialisedAgrees
  <2> QED BY <2>1, <2>2
<1>2. s = IF r.ack # "okay" THEN r
          ELSE IF DB!Outside(r.u, cyl) THEN [r EXCEPT !.ack = "badCylinder"]
          ELSE DB!SteppedTo(r.u, r.d, cyl)
  BY Zenon DEF DB!Sought
<1>7. r = [u |-> r.u, d |-> r.d, ack |-> r.ack]
  BY DEF DB!Initialised
<1> HIDE DEF r, s
<1>3. CASE r.ack # "okay"
  BY <1>1, <1>2, <1>3 DEF s
<1>4. CASE r.ack = "okay" /\ DB!Outside(r.u, cyl)
  <2>1. s = [u |-> r.u, d |-> r.d, ack |-> "badCylinder"]
    BY <1>2, <1>4, <1>7
  <2>2. s.u = r.u /\ s.d = r.d /\ s.ack = "badCylinder"
    BY <2>1
  <2>3. cyl # 0
    BY <1>4, Stops DEF DB!Outside
  <2> QED BY <1>1, <2>2, <2>3 DEF Moved, s
<1>5. CASE r.ack = "okay" /\ ~DB!Outside(r.u, cyl)
  <2>1. r.u \in Unit /\ r.d \in Mechanism /\ Agree(r.u, r.d) /\ r.u.initialised
    BY <1>1, <1>5 DEF Moved
  <2>2. Moved(r.u, r.d, s) /\ s.u.initialised /\ s.u.cyl = cyl /\ s.ack = "okay"
    BY <1>2, <1>5, <2>1, StepsArrive
  <2>3. Moved(u, d, s)
    BY <1>1, <2>2 DEF Moved
  <2> QED BY <2>2, <2>3 DEF s
<1> QED BY <1>3, <1>4, <1>5

\* The extra step of a click is one that the drive, at cylinder 0, ignores, or it is taken
\* back.
LEMMA ClickAgrees ==
  ASSUME NEW u \in Unit, NEW d \in Mechanism, Agree(u, d)
  PROVE  LET c == DB!Unclicked(u, d)
         IN  /\ Moved(u, d, c)
             /\ c.ack \in {"okay", "badCylinder"} =>
                  /\ c.u.initialised /\ c.u.cyl = 0
                  /\ c.d.known \/ c.d.kind # "flippy" => c.d.head = 0
<1> DEFINE s == DB!Sought(u, d, 0)
           e == DB!Outwards(s.d, 1, TRUE)
           c == DB!Unclicked(u, d)
<1>1. Moved(u, d, s) /\ (s.ack = "okay" => s.u.initialised /\ s.u.cyl = 0) /\ s.ack # "badCylinder"
  BY SeekAgrees
<1>2. c = IF s.ack # "okay" THEN s
          ELSE IF DB!Trk0(e) THEN [s EXCEPT !.d = e]
          ELSE [s EXCEPT !.d = DB!Inwards(e, 1), !.ack = "badCylinder"]
  BY Zenon DEF DB!Unclicked
<1>3. s = [u |-> s.u, d |-> s.d, ack |-> s.ack]
  BY DEF DB!Sought, DB!Initialised, DB!SteppedTo
<1> HIDE DEF s, c
<1>4. CASE s.ack # "okay"
  BY <1>1, <1>2, <1>4 DEF c
<1>5. CASE s.ack = "okay"
  <2>1. /\ s.u \in Unit /\ s.d \in Mechanism /\ Agree(s.u, s.d) /\ s.u.initialised /\ s.u.cyl = 0
        /\ s.d.head \in Int /\ s.d.kind \in {"plain", "loose", "flippy"} /\ s.d.head <= 0
        /\ DB!Stop(s.d.kind) <= s.d.head /\ s.u.isFlippy = (s.d.kind = "flippy")
        /\ (s.d.known \/ s.d.kind = "plain" => s.d.head = 0)
    BY <1>1, <1>5, Zenon DEF Moved, Agree, Mechanism
  <2>2. CASE s.d.kind \in {"plain", "flippy"}
    <3>1. DB!Trk0(s.d) /\ DB!Outermost(s.d, TRUE) = s.d.head
      BY <2>1, <2>2, Stops DEF DB!Trk0, DB!Outermost
    <3>2. DB!Bigger(s.d.head - 1, s.d.head) = s.d.head
      BY <2>1 DEF DB!Bigger
    <3>3. e = s.d
      BY <2>1, <3>1, <3>2 DEF DB!Outwards, Mechanism
    <3>4. c = [u |-> s.u, d |-> s.d, ack |-> s.ack]
      BY <1>2, <1>3, <1>5, <3>1, <3>3
    <3>5. c.u = s.u /\ c.d = s.d
      BY <3>4
    <3> QED BY <1>1, <2>1, <2>2, <3>5 DEF Moved, c
  <2>3. CASE s.d.kind = "loose"
    <3> DEFINE back == DB!Inwards(e, 1)
    <3>1. DB!Outermost(s.d, TRUE) = -1 /\ s.d.head \in {-1, 0}
      BY <2>1, <2>3, Stops DEF DB!Outermost
    <3>2. DB!Bigger(s.d.head - 1, -1) = -1
      BY <3>1 DEF DB!Bigger
    <3>3. e = [s.d EXCEPT !.head = -1]
      BY <3>1, <3>2 DEF DB!Outwards
    <3> HIDE DEF e
    <3>4. /\ e \in Mechanism /\ e.kind = "loose" /\ e.head = -1 /\ e.known = s.d.known
          /\ e.selected = s.d.selected /\ e.motor = s.d.motor
      BY <2>1, <2>3, <3>3, HeadOf, -1 \in Int
    <3>5. ~DB!Trk0(e)
      BY <3>4 DEF DB!Trk0
    <3>6. back = [e EXCEPT !.head = 0]
      <4>1. DB!Smaller(-1 + 1, MaxCyl) = 0
        BY Stops DEF DB!Smaller
      <4> QED BY <3>4, <4>1 DEF DB!Inwards
    <3>7. c = [u |-> s.u, d |-> back, ack |-> "badCylinder"]
      BY <1>2, <1>3, <1>5, <3>5
    <3>8. c.u = s.u /\ c.d = back
      BY <3>7
    <3> HIDE DEF back
    <3>9. /\ back \in Mechanism /\ back.kind = "loose" /\ back.head = 0 /\ back.known = s.d.known
          /\ back.selected = s.d.selected /\ back.motor = s.d.motor
      BY <3>4, <3>6, HeadOf, 0 \in Int
    <3>10. Agree(s.u, back)
      BY <2>1, <2>3, <3>9, Stops DEF Agree
    <3> QED BY <1>1, <2>1, <2>3, <3>8, <3>9, <3>10 DEF Moved, c
  <2> QED BY <2>1, <2>2, <2>3
<1> QED BY <1>4, <1>5

-----------------------------------------------------------------------------
(* What the steps that set lines change of a drive and of a unit. *)

LEMMA SelectedOf ==
  ASSUME NEW d \in Mechanism, NEW on \in BOOLEAN
  PROVE  LET e == [d EXCEPT !.selected = on]
         IN  /\ e \in Mechanism /\ e.selected = on /\ e.motor = d.motor
             /\ e.head = d.head /\ e.kind = d.kind /\ e.known = d.known
BY DEF Mechanism

LEMMA MotorOf ==
  ASSUME NEW d \in Mechanism, NEW on \in BOOLEAN
  PROVE  LET e == [d EXCEPT !.motor = on]
         IN  /\ e \in Mechanism /\ e.motor = on /\ e.selected = d.selected
             /\ e.head = d.head /\ e.kind = d.kind /\ e.known = d.known
BY DEF Mechanism

LEMMA UnitMotorOf ==
  ASSUME NEW u \in Unit, NEW on \in BOOLEAN
  PROVE  LET v == [u EXCEPT !.motor = on]
         IN  /\ v \in Unit /\ v.motor = on /\ v.initialised = u.initialised
             /\ v.cyl = u.cyl /\ v.isFlippy = u.isFlippy
BY DEF Unit

\* Agreement is a matter of heads and beliefs, not of lines.
LEMMA AgreeWithout ==
  ASSUME NEW u, NEW v, NEW d, NEW e, Agree(u, d),
         v.initialised = u.initialised, v.cyl = u.cyl, v.isFlippy = u.isFlippy,
         e.head = d.head, e.kind = d.kind, e.known = d.known
  PROVE  Agree(v, e)
BY Zenon DEF Agree

\* An answer to anything but a quieting or a click leaves its two properties true.
LEMMA OtherAnswers ==
  ASSUME NEW cmd, NEW ack, cmd \notin {"quiesce", "noclick"}, DB!Answered(cmd, ack)
  PROVE  DB!QuietIsQuiet' /\ DB!NoclickEndsAtZero'
BY DEF DB!Answered, DB!QuietIsQuiet, DB!NoclickEndsAtZero

LEMMA SelectKeeps ==
  ASSUME BusInv, NEW nr \in Units, DB!Select(nr)
  PROVE  BusInv'
<1> DEFINE lines == [i \in Units |-> [drive[i] EXCEPT !.selected = (i = nr /\ nr \in DB!OnBus(bus))]]
<1>1. /\ bus' = bus /\ unit' = unit
      /\ unitNr' = IF nr \in DB!OnBus(bus) THEN nr ELSE IF nr = unitNr THEN nr ELSE -1
      /\ drive' = IF nr = unitNr THEN drive ELSE lines
  BY DEF DB!Select
<1>2. UnitsAgree /\ LinesAgree
  BY DEF BusInv
<1>3. \A i \in Units : /\ lines[i] \in Mechanism /\ lines[i].selected = (i = nr /\ nr \in DB!OnBus(bus))
                       /\ lines[i].motor = drive[i].motor
                       /\ lines[i].head = drive[i].head /\ lines[i].kind = drive[i].kind /\ lines[i].known = drive[i].known
  <2> TAKE i \in Units
  <2> DEFINE on == (i = nr /\ nr \in DB!OnBus(bus))
  <2>1. drive[i] \in Mechanism /\ on \in BOOLEAN
    BY <1>2 DEF UnitsAgree
  <2>2. lines[i] = [drive[i] EXCEPT !.selected = on]
    OBVIOUS
  <2> HIDE DEF lines, on
  <2>3. /\ lines[i] \in Mechanism /\ lines[i].selected = on /\ lines[i].motor = drive[i].motor
        /\ lines[i].head = drive[i].head /\ lines[i].kind = drive[i].kind /\ lines[i].known = drive[i].known
    BY <2>1, <2>2, SelectedOf
  <2> QED BY <2>3 DEF on
<1>4. lines \in [Units -> Mechanism]
  BY <1>3
<1> HIDE DEF lines
<1>5. UnitsAgree'
  <2>1. \A i \in Units : Agree(unit[i], lines[i])
    BY <1>2, <1>3, AgreeWithout DEF UnitsAgree
  <2> QED BY <1>1, <1>2, <1>4, <2>1 DEF UnitsAgree
<1>6. LinesAgree'
  <2>1. CASE nr = unitNr
    BY <1>1, <1>2, <2>1 DEF LinesAgree, DB!Wired
  <2>2. CASE nr # unitNr
    <3>1. unitNr' = IF nr \in DB!OnBus(bus) THEN nr ELSE -1
      BY <1>1, <2>2
    <3>2. \A i \in Units : lines[i].selected = (i = unitNr')
      BY <1>3, <3>1, BusUnits
    <3>3. \A i \in Units : lines[i].motor => \E n \in Units : unit[n].motor /\ i \in DB!Wired(n)
      BY <1>2, <1>3 DEF LinesAgree
    <3> QED BY <1>1, <1>2, <2>2, <3>1, <3>2, <3>3 DEF LinesAgree, DB!Wired
  <2> QED BY <2>1, <2>2
<1>7. DB!QuietIsQuiet' /\ DB!NoclickEndsAtZero'
  BY OtherAnswers DEF DB!Select
<1> QED BY <1>5, <1>6, <1>7 DEF BusInv

LEMMA DeselectKeeps ==
  ASSUME BusInv, DB!Deselect
  PROVE  BusInv'
<1> DEFINE lines == [i \in Units |-> [drive[i] EXCEPT !.selected = FALSE]]
<1>1. bus' = bus /\ unit' = unit /\ unitNr' = -1 /\ drive' = lines
  BY DEF DB!Deselect, DB!Deselected
<1>2. UnitsAgree /\ LinesAgree
  BY DEF BusInv
<1>3. \A i \in Units : /\ lines[i] \in Mechanism /\ lines[i].selected = FALSE
                       /\ lines[i].motor = drive[i].motor
                       /\ lines[i].head = drive[i].head /\ lines[i].kind = drive[i].kind /\ lines[i].known = drive[i].known
  <2> TAKE i \in Units
  <2>1. drive[i] \in Mechanism /\ FALSE \in BOOLEAN
    BY <1>2 DEF UnitsAgree
  <2>2. lines[i] = [drive[i] EXCEPT !.selected = FALSE]
    OBVIOUS
  <2> HIDE DEF lines
  <2> QED BY <2>1, <2>2, SelectedOf
<1>4. lines \in [Units -> Mechanism]
  BY <1>3
<1> HIDE DEF lines
<1>5. UnitsAgree'
  <2>1. \A i \in Units : Agree(unit[i], lines[i])
    BY <1>2, <1>3, AgreeWithout DEF UnitsAgree
  <2> QED BY <1>1, <1>2, <1>4, <2>1 DEF UnitsAgree
<1>6. LinesAgree'
  <2>1. \A i \in Units : lines[i].selected = (i = -1)
    BY <1>3, <1>4, BusUnits DEF Mechanism
  <2>2. \A i \in Units : lines[i].motor => \E n \in Units : unit[n].motor /\ i \in DB!Wired(n)
    BY <1>2, <1>3 DEF LinesAgree
  <2> QED BY <1>1, <1>2, <2>1, <2>2 DEF LinesAgree, DB!Wired
<1>7. DB!QuietIsQuiet' /\ DB!NoclickEndsAtZero'
  BY OtherAnswers DEF DB!Deselect
<1> QED BY <1>5, <1>6, <1>7 DEF BusInv

\* Motor on or off: the units and drives after it, line by line.
LEMMA MotorKeeps ==
  ASSUME BusInv, NEW nr \in Units, NEW on \in BOOLEAN, DB!Motor(nr, on)
  PROVE  BusInv'
<1>1. UnitsAgree /\ LinesAgree
  BY DEF BusInv
<1>2. DB!QuietIsQuiet' /\ DB!NoclickEndsAtZero'
  BY OtherAnswers DEF DB!Motor
<1>3. CASE nr \notin DB!OnBus(bus)
  <2>1. UNCHANGED <<bus, unitNr, unit, drive>>
    BY <1>3 DEF DB!Motor
  <2>2. UnitsAgree'
    BY <1>1, <2>1 DEF UnitsAgree
  <2>3. LinesAgree'
    BY <1>1, <2>1 DEF LinesAgree, DB!Wired
  <2> QED BY <1>2, <2>2, <2>3 DEF BusInv
<1>4. CASE nr \in DB!OnBus(bus)
  <2> DEFINE alias == DB!Aliased(nr)
             units == [unit EXCEPT ![alias].motor = on]
             lines == [i \in Units |-> IF i \in DB!Wired(nr) THEN [drive[i] EXCEPT !.motor = on]
                                       ELSE drive[i]]
  <2>1. bus' = bus /\ unitNr' = unitNr /\ unit' = units /\ drive' = lines
    BY <1>4 DEF DB!Motor
  <2>2. alias \in Units
    BY BusAssumption DEF DB!Aliased
  <2>3. \A i \in Units : unit[i] \in Unit /\ drive[i] \in Mechanism /\ Agree(unit[i], drive[i])
    BY <1>1 DEF UnitsAgree
  <2>4. \A i \in Units :
          /\ units[i] \in Unit /\ units[i].initialised = unit[i].initialised
          /\ units[i].cyl = unit[i].cyl /\ units[i].isFlippy = unit[i].isFlippy
          /\ units[i].motor = IF i = alias THEN on ELSE unit[i].motor
    <3> TAKE i \in Units
    <3> HIDE DEF alias
    <3>1. CASE i = alias
      <4>1. units[i] = [unit[i] EXCEPT !.motor = on]
        BY <1>1, <2>2, <3>1 DEF UnitsAgree
      <4> HIDE DEF units
      <4>2. /\ units[i] \in Unit /\ units[i].motor = on
            /\ units[i].initialised = unit[i].initialised
            /\ units[i].cyl = unit[i].cyl /\ units[i].isFlippy = unit[i].isFlippy
        BY <2>3, <4>1, UnitMotorOf
      <4> QED BY <3>1, <4>2
    <3>2. CASE i # alias
      <4>1. units[i] = unit[i]
        BY <1>1, <2>2, <3>2 DEF UnitsAgree
      <4> QED BY <2>3, <3>2, <4>1
    <3> QED BY <3>1, <3>2
  <2>5. \A i \in Units :
          /\ lines[i] \in Mechanism /\ lines[i].selected = drive[i].selected
          /\ lines[i].head = drive[i].head /\ lines[i].kind = drive[i].kind /\ lines[i].known = drive[i].known
          /\ lines[i].motor = IF i \in DB!Wired(nr) THEN on ELSE drive[i].motor
    <3> TAKE i \in Units
    <3>1. CASE i \in DB!Wired(nr)
      <4>1. lines[i] = [drive[i] EXCEPT !.motor = on]
        BY <3>1
      <4> HIDE DEF lines
      <4>2. /\ lines[i] \in Mechanism /\ lines[i].motor = on /\ lines[i].selected = drive[i].selected
            /\ lines[i].head = drive[i].head /\ lines[i].kind = drive[i].kind /\ lines[i].known = drive[i].known
        BY <2>3, <4>1, MotorOf
      <4> QED BY <3>1, <4>2
    <3>2. CASE i \notin DB!Wired(nr)
      <4>1. lines[i] = drive[i]
        BY <3>2
      <4> QED BY <2>3, <3>2, <4>1
    <3> QED BY <3>1, <3>2
  <2>6. units \in [Units -> Unit] /\ lines \in [Units -> Mechanism]
    <3>1. DOMAIN units = Units
      BY <1>1 DEF UnitsAgree
    <3>2. units = [i \in Units |-> units[i]]
      BY <1>1 DEF UnitsAgree
    <3> HIDE DEF units
    <3> QED BY <2>4, <2>5, <3>2
  <2>7. alias \in {nr, 0} /\ (bus = "shugart" => alias = 0) /\ (bus # "shugart" => alias = nr)
    BY DEF DB!Aliased
  <2> HIDE DEF alias, units, lines
  <2>8. UnitsAgree'
    <3>1. \A i \in Units : Agree(units[i], lines[i])
      BY <2>3, <2>4, <2>5, AgreeWithout
    <3> QED BY <2>1, <2>6, <3>1 DEF UnitsAgree
  <2>9. \A i \in Units : lines[i].motor => \E n \in Units : units[n].motor /\ i \in DB!Wired(n)
    <3> TAKE i \in Units
    <3>1. CASE bus = "shugart"
      <4>1. \A n \in Units : DB!Wired(n) = Units
        BY <3>1 DEF DB!Wired
      <4>2. lines[i].motor = on /\ units[alias].motor = on
        BY <2>2, <2>4, <2>5, <4>1
      <4> QED BY <2>2, <4>1, <4>2
    <3>2. CASE bus # "shugart"
      <4>1. \A n \in Units : DB!Wired(n) = {n}
        BY <3>2 DEF DB!Wired
      <4>2. drive[i].motor => unit[i].motor
        BY <1>1, <4>1 DEF LinesAgree
      <4>3. lines[i].motor = (IF i = nr THEN on ELSE drive[i].motor)
        BY <2>5, <4>1
      <4>4. units[i].motor = (IF i = nr THEN on ELSE unit[i].motor)
        BY <2>4, <2>7, <3>2
      <4>5. lines[i].motor => units[i].motor
        BY <4>2, <4>3, <4>4
      <4> QED BY <4>1, <4>5
    <3> QED BY <3>1, <3>2
  <2>10. LinesAgree'
    BY <1>1, <2>1, <2>4, <2>5, <2>9 DEF LinesAgree, DB!Wired
  <2> QED BY <1>2, <2>8, <2>10 DEF BusInv
<1> QED BY <1>3, <1>4

\* The selected unit and its drive are replaced by a pair that agrees.
LEMMA OneMoves ==
  ASSUME UnitsAgree, LinesAgree, unitNr \in Units, NEW u \in Unit, NEW d \in Mechanism,
         Agree(u, d), u.motor = unit[unitNr].motor,
         d.selected = drive[unitNr].selected, d.motor = drive[unitNr].motor,
         bus' = bus, unitNr' = unitNr,
         unit' = [unit EXCEPT ![unitNr] = u], drive' = [drive EXCEPT ![unitNr] = d]
  PROVE  UnitsAgree' /\ LinesAgree'
<1>1. /\ unit' \in [Units -> Unit] /\ drive' \in [Units -> Mechanism]
      /\ unit'[unitNr] = u /\ drive'[unitNr] = d
      /\ \A i \in Units \ {unitNr} : unit'[i] = unit[i] /\ drive'[i] = drive[i]
  BY DEF UnitsAgree
<1>2. UnitsAgree'
  <2>1. \A i \in Units : Agree(unit'[i], drive'[i])
    BY <1>1 DEF UnitsAgree
  <2> QED BY <1>1, <2>1 DEF UnitsAgree
<1>3. \A i \in Units : /\ unit'[i].motor = unit[i].motor /\ drive'[i].motor = drive[i].motor
                       /\ drive'[i].selected = drive[i].selected
  BY <1>1
<1>4. \A i \in Units : unit'[i].initialised => i \in DB!OnBus(bus)
  BY <1>1, BusUnits DEF LinesAgree
<1>5. \A n \in Units : DB!Wired(n)' = DB!Wired(n)
  BY DEF DB!Wired
<1>6. \A i \in Units : drive'[i].motor => \E n \in Units : unit'[n].motor /\ i \in DB!Wired(n)'
  BY <1>3, <1>5 DEF LinesAgree
<1> QED BY <1>2, <1>3, <1>4, <1>6 DEF LinesAgree

\* The selected unit, if there is one, agrees with its drive.
LEMMA SelectedAgrees ==
  ASSUME UnitsAgree, LinesAgree, unitNr # -1
  PROVE  /\ unitNr \in Units /\ unit[unitNr] \in Unit /\ drive[unitNr] \in Mechanism
         /\ Agree(unit[unitNr], drive[unitNr])
BY BusUnits DEF UnitsAgree, LinesAgree

\* A seek and a click: the selected unit moves.
LEMMA MoveKeeps ==
  ASSUME BusInv, NEW cmd, NEW s, DB!Moves(cmd, s),
         unitNr # -1 => Moved(unit[unitNr], drive[unitNr], s)
  PROVE  UnitsAgree' /\ LinesAgree'
<1>1. UnitsAgree /\ LinesAgree
  BY DEF BusInv
<1>2. bus' = bus /\ unitNr' = unitNr
  BY DEF DB!Moves
<1>3. CASE unitNr = -1
  <2>1. unit' = unit /\ drive' = drive
    BY <1>3 DEF DB!Moves
  <2> QED BY <1>1, <1>2, <2>1 DEF UnitsAgree, LinesAgree, DB!Wired
<1>4. CASE unitNr # -1
  <2>1. unit' = [unit EXCEPT ![unitNr] = s.u] /\ drive' = [drive EXCEPT ![unitNr] = s.d]
    BY <1>4 DEF DB!Moves
  <2>2. /\ s.u \in Unit /\ s.d \in Mechanism /\ Agree(s.u, s.d)
        /\ s.u.motor = unit[unitNr].motor
        /\ s.d.selected = drive[unitNr].selected /\ s.d.motor = drive[unitNr].motor
    BY <1>4 DEF Moved
  <2> QED BY <1>1, <1>2, <1>4, <2>1, <2>2, SelectedAgrees, OneMoves
<1> QED BY <1>3, <1>4

LEMMA SeekKeeps ==
  ASSUME BusInv, NEW cyl \in Int, DB!Seek(cyl)
  PROVE  BusInv'
<1> DEFINE s == DB!Sought(unit[unitNr], drive[unitNr], cyl)
<1>1. DB!Moves("seek", s)
  BY DEF DB!Seek
<1>2. unitNr # -1 => Moved(unit[unitNr], drive[unitNr], s)
  BY SelectedAgrees, SeekAgrees DEF BusInv
<1> HIDE DEF s
<1>3. UnitsAgree' /\ LinesAgree'
  BY <1>1, <1>2, MoveKeeps
<1>4. DB!QuietIsQuiet' /\ DB!NoclickEndsAtZero'
  BY <1>1, OtherAnswers DEF DB!Moves
<1> QED BY <1>3, <1>4 DEF BusInv

LEMMA NoclickKeeps ==
  ASSUME BusInv, DB!NoclickStep
  PROVE  BusInv'
<1> DEFINE c == DB!Unclicked(unit[unitNr], drive[unitNr])
<1>1. DB!Moves("noclick", c)
  BY DEF DB!NoclickStep
<1>2. unitNr # -1 =>
        /\ Moved(unit[unitNr], drive[unitNr], c)
        /\ c.ack \in {"okay", "badCylinder"} =>
             /\ c.u.initialised /\ c.u.cyl = 0
             /\ c.d.known \/ c.d.kind # "flippy" => c.d.head = 0
  BY SelectedAgrees, ClickAgrees DEF BusInv
<1> HIDE DEF c
<1>3. UnitsAgree' /\ LinesAgree'
  BY <1>1, <1>2, MoveKeeps
<1>4. answer'.cmd = "noclick" /\ answer'.ack = (IF unitNr = -1 THEN "noUnit" ELSE c.ack)
      /\ unitNr' = unitNr
  BY <1>1 DEF DB!Moves, DB!Answered
<1>5. unitNr # -1 => unit'[unitNr] = c.u /\ drive'[unitNr] = c.d
  BY <1>1, SelectedAgrees DEF DB!Moves, BusInv, UnitsAgree
<1>6. DB!QuietIsQuiet' /\ DB!NoclickEndsAtZero'
  BY <1>2, <1>4, <1>5 DEF DB!QuietIsQuiet, DB!NoclickEndsAtZero
<1> QED BY <1>3, <1>6 DEF BusInv

LEMMA GetInfoKeeps ==
  ASSUME BusInv, NEW nr \in Units, DB!GetInfo(nr)
  PROVE  BusInv'
<1>1. UNCHANGED <<bus, unitNr, unit, drive>> /\ answer'.cmd = "info"
  BY DEF DB!GetInfo
<1>2. UnitsAgree' /\ LinesAgree'
  BY <1>1 DEF BusInv, UnitsAgree, LinesAgree, DB!Wired
<1> QED BY <1>1, <1>2 DEF BusInv, DB!QuietIsQuiet, DB!NoclickEndsAtZero

-----------------------------------------------------------------------------
(* Quieting the drives. *)

\* Whether it was brought back or not, a quieted drive is not beyond cylinder 0, and
\* still agrees with its unit.
LEMMA QuietAgrees ==
  ASSUME UnitsAgree, LinesAgree, NEW i \in Units
  PROVE  LET q == DB!Quiet(i)
         IN  /\ q.u \in Unit /\ q.d \in Mechanism /\ Agree(q.u, q.d) /\ (q.d.known => q.d.head >= 0)
             /\ q.u.initialised => i \in DB!OnBus(bus)
             /\ q.d.motor = drive[i].motor
<1>1. unit[i] \in Unit /\ drive[i] \in Mechanism /\ Agree(unit[i], drive[i])
  BY DEF UnitsAgree
<1> DEFINE q == DB!Quiet(i)
<1>2. CASE DB!BroughtBack(i)
  <2>1. unit[i].initialised /\ i \in DB!OnBus(bus)
    BY <1>2 DEF DB!BroughtBack
  <2>2. q = DB!Sought(unit[i], drive[i], 0)
    BY <1>2 DEF DB!Quiet
  <2> HIDE DEF q
  <2>3. Moved(unit[i], drive[i], q) /\ q.u.initialised /\ q.u.cyl = 0
    BY <1>1, <2>1, <2>2, SeekAgrees
  <2>4. /\ q.u \in Unit /\ q.d \in Mechanism /\ Agree(q.u, q.d) /\ q.d.motor = drive[i].motor
    BY <2>3 DEF Moved
  <2>5. q.d.known => q.d.head >= 0
    BY <2>3, <2>4 DEF Agree
  <2> QED BY <2>1, <2>4, <2>5 DEF q
<1>3. CASE ~DB!BroughtBack(i)
  <2>1. q = [u |-> unit[i], d |-> drive[i], ack |-> "okay"]
    BY <1>3 DEF DB!Quiet
  <2>2. q.u = unit[i] /\ q.d = drive[i]
    BY <2>1
  <2>3. unit[i].initialised => i \in DB!OnBus(bus)
    BY DEF LinesAgree
  <2>4. drive[i].known => drive[i].head >= 0
    BY <1>1, <1>3, <2>3 DEF DB!BroughtBack, Agree, Unit, Mechanism
  <2> HIDE DEF q
  <2>5. /\ q.u \in Unit /\ q.d \in Mechanism /\ Agree(q.u, q.d) /\ (q.d.known => q.d.head >= 0)
        /\ q.u.initialised => i \in DB!OnBus(bus)
        /\ q.d.motor = drive[i].motor
    BY <1>1, <2>2, <2>3, <2>4
  <2> QED BY <2>5 DEF q
<1> QED BY <1>2, <1>3

\* Nothing is selected, running or beyond cylinder 0 once the drives are quieted, and
\* every unit still agrees with its drive.
LEMMA QuietedIsQuiet ==
  ASSUME UnitsAgree, LinesAgree, DB!Quieted
  PROVE  /\ unitNr' = -1 /\ drive' \in [Units -> Mechanism]
         /\ \A i \in Units :
              /\ drive'[i].selected = FALSE /\ drive'[i].motor = FALSE
              /\ (drive'[i].known => drive'[i].head >= 0)
              /\ drive'[i].head <= MaxCyl /\ DB!Stop(drive'[i].kind) <= drive'[i].head
              /\ drive'[i].head = DB!Quiet(i).d.head /\ drive'[i].kind = DB!Quiet(i).d.kind
              /\ drive'[i].known = DB!Quiet(i).d.known
<1> DEFINE lines == [i \in Units |-> [DB!Quiet(i).d EXCEPT !.selected = FALSE,
                                                           !.motor = @ /\ ~DB!MotorOff(i)]]
<1>1. unitNr' = -1 /\ drive' = lines
  BY DEF DB!Quieted
<1>2. ASSUME NEW i \in Units
      PROVE  /\ lines[i] \in Mechanism
             /\ lines[i].selected = FALSE /\ lines[i].motor = FALSE
             /\ (lines[i].known => lines[i].head >= 0)
             /\ lines[i].head <= MaxCyl /\ DB!Stop(lines[i].kind) <= lines[i].head
             /\ lines[i].head = DB!Quiet(i).d.head /\ lines[i].kind = DB!Quiet(i).d.kind
             /\ lines[i].known = DB!Quiet(i).d.known
  <2> DEFINE d == DB!Quiet(i).d
             on == d.motor /\ ~DB!MotorOff(i)
  <2>1. /\ d \in Mechanism /\ (d.known => d.head >= 0) /\ d.motor = drive[i].motor
        /\ d.head <= MaxCyl /\ DB!Stop(d.kind) <= d.head
    BY QuietAgrees DEF Agree
  <2>2. on = FALSE
    <3>1. drive[i].motor => DB!MotorOff(i)
      BY DEF LinesAgree, DB!MotorOff
    <3> QED BY <2>1, <3>1
  <2>3. lines[i] = [d EXCEPT !.selected = FALSE, !.motor = on]
    BY <2>1 DEF Mechanism
  <2> HIDE DEF d, on, lines
  <2>4. lines[i] = [d EXCEPT !.selected = FALSE, !.motor = FALSE]
    BY <2>2, <2>3
  <2>5. /\ lines[i] \in Mechanism /\ lines[i].selected = FALSE /\ lines[i].motor = FALSE
        /\ lines[i].head = d.head /\ lines[i].kind = d.kind /\ lines[i].known = d.known
    BY <2>1, <2>4 DEF Mechanism
  <2> QED BY <2>1, <2>5 DEF d
<1>3. lines \in [Units -> Mechanism]
  BY <1>2
<1> HIDE DEF lines
<1> QED BY <1>1, <1>2, <1>3

LEMMA QuietKeepsLines ==
  ASSUME UnitsAgree, LinesAgree, DB!Quieted, bus' \in DB!Buses,
         unit' \in [Units -> Unit],
         \A i \in Units : unit'[i].initialised => i \in DB!OnBus(bus')
  PROVE  LinesAgree' /\ DB!QuietIsQuiet'
<1>1. /\ unitNr' = -1
      /\ \A i \in Units : /\ drive'[i].selected = FALSE /\ drive'[i].motor = FALSE
                         /\ (drive'[i].known => drive'[i].head >= 0)
  BY QuietedIsQuiet
<1>2. \A i \in Units : drive'[i].selected = (i = unitNr')
  BY <1>1, BusUnits
<1>3. DB!OnBus(bus)' = DB!OnBus(bus')
  BY DEF DB!OnBus
<1> QED BY <1>1, <1>2, <1>3 DEF LinesAgree, DB!QuietIsQuiet

LEMMA QuiesceKeeps ==
  ASSUME BusInv, DB!Quiesce
  PROVE  BusInv'
<1>1. UnitsAgree /\ LinesAgree
  BY DEF BusInv
<1>2. DB!Quieted /\ unit' = DB!QuietUnits /\ bus' = bus /\ answer'.cmd = "quiesce"
  BY DEF DB!Quiesce, DB!Answered
<1>3. ASSUME NEW i \in Units
      PROVE  /\ unit'[i] \in Unit /\ Agree(unit'[i], drive'[i])
             /\ unit'[i].initialised => i \in DB!OnBus(bus)
  <2> DEFINE q == DB!Quiet(i)
  <2>1. /\ q.u \in Unit /\ Agree(q.u, q.d)
        /\ q.u.initialised => i \in DB!OnBus(bus)
    BY <1>1, QuietAgrees
  <2>2. unit'[i] = [q.u EXCEPT !.motor = FALSE]
    BY <1>2 DEF DB!QuietUnits
  <2>3. drive'[i].head = q.d.head /\ drive'[i].kind = q.d.kind /\ drive'[i].known = q.d.known
    BY <1>1, <1>2, QuietedIsQuiet
  <2> HIDE DEF q
  <2>4. /\ unit'[i] \in Unit /\ unit'[i].initialised = q.u.initialised
        /\ unit'[i].cyl = q.u.cyl /\ unit'[i].isFlippy = q.u.isFlippy
    BY <2>1, <2>2, UnitMotorOf
  <2> QED BY <2>1, <2>3, <2>4, AgreeWithout
<1>4. unit' \in [Units -> Unit]
  BY <1>2, <1>3 DEF DB!QuietUnits
<1>5. UnitsAgree'
  BY <1>1, <1>2, <1>3, <1>4, QuietedIsQuiet DEF UnitsAgree
<1>6. LinesAgree' /\ DB!QuietIsQuiet'
  BY <1>1, <1>2, <1>3, <1>4, QuietKeepsLines DEF LinesAgree
<1> QED BY <1>2, <1>5, <1>6 DEF BusInv, DB!NoclickEndsAtZero

\* Units that are forgotten agree with drives that are not beyond cylinder 0.
LEMMA ForgottenAgree ==
  ASSUME UnitsAgree, LinesAgree, DB!Quieted, bus' \in DB!Buses,
         unit' = [u \in Units |-> DB!Blank]
  PROVE  UnitsAgree' /\ LinesAgree' /\ DB!QuietIsQuiet'
<1>1. DB!Blank \in Unit /\ DB!Blank.initialised = FALSE
  BY DEF DB!Blank, Unit
<1>2. unit' \in [Units -> Unit] /\ \A i \in Units : unit'[i].initialised = FALSE
  BY <1>1
<1>3. /\ drive' \in [Units -> Mechanism]
      /\ \A i \in Units : /\ (drive'[i].known => drive'[i].head >= 0)
                          /\ drive'[i].head <= MaxCyl /\ DB!Stop(drive'[i].kind) <= drive'[i].head
  BY QuietedIsQuiet
<1>4. UnitsAgree'
  BY <1>2, <1>3 DEF UnitsAgree, Agree
<1>5. LinesAgree' /\ DB!QuietIsQuiet'
  BY <1>2, QuietKeepsLines
<1> QED BY <1>4, <1>5

LEMMA SetBusTypeKeeps ==
  ASSUME BusInv, NEW type \in DB!Buses, DB!SetBusType(type)
  PROVE  BusInv'
<1>1. UnitsAgree /\ LinesAgree
  BY DEF BusInv
<1>2. DB!QuietIsQuiet' /\ DB!NoclickEndsAtZero'
  BY OtherAnswers DEF DB!SetBusType
<1>3. CASE type = bus
  <2>1. UNCHANGED <<bus, unitNr, unit, drive>>
    BY <1>3 DEF DB!SetBusType
  <2>2. UnitsAgree' /\ LinesAgree'
    BY <1>1, <2>1 DEF UnitsAgree, LinesAgree, DB!Wired
  <2> QED BY <1>2, <2>2 DEF BusInv
<1>4. CASE type # bus
  <2>1. DB!Quieted /\ bus' \in DB!Buses /\ unit' = [u \in Units |-> DB!Blank]
    BY <1>4 DEF DB!SetBusType
  <2> QED BY <1>1, <1>2, <2>1, ForgottenAgree DEF BusInv
<1> QED BY <1>3, <1>4

LEMMA ResetKeeps ==
  ASSUME BusInv, DB!Reset
  PROVE  BusInv'
<1>1. DB!Quieted /\ bus' \in DB!Buses /\ unit' = [u \in Units |-> DB!Blank] /\ answer'.cmd = "quiesce"
  BY DEF DB!Reset, DB!Answered, DB!Buses
<1> QED BY <1>1, ForgottenAgree DEF BusInv, DB!NoclickEndsAtZero

-----------------------------------------------------------------------------
LEMMA BusInitially ==
  ASSUME DB!Init
  PROVE  BusInv
<1>1. DB!Blank \in Unit /\ DB!Blank.initialised = FALSE
  BY DEF DB!Blank, Unit
<1>2. unit \in [Units -> Unit] /\ \A i \in Units : unit[i].initialised = FALSE
  BY <1>1 DEF DB!Init
<1>3. /\ drive \in [Units -> Mechanism]
      /\ \A i \in Units : /\ drive[i].head <= MaxCyl /\ DB!Stop(drive[i].kind) <= drive[i].head
                          /\ drive[i].known = FALSE
                          /\ drive[i].selected = FALSE /\ drive[i].motor = FALSE
  <2> DEFINE First == [kind : DB!AllKinds, head : DB!MinCyl..MaxCyl, selected : {FALSE}, motor : {FALSE},
                       known : {FALSE}]
  <2>1. drive \in [Units -> First] /\ \A i \in Units : DB!Stop(drive[i].kind) <= drive[i].head
    BY DEF DB!Init
  <2>2. \A d \in First : /\ d \in Mechanism /\ d.head <= MaxCyl /\ d.known = FALSE
                         /\ d.selected = FALSE /\ d.motor = FALSE
    <3> TAKE d \in First
    <3>1. /\ d.kind \in DB!AllKinds /\ d.head \in DB!MinCyl..MaxCyl /\ d.selected = FALSE
          /\ d.motor = FALSE /\ d.known = FALSE
      OBVIOUS
    <3>2. d = [kind |-> d.kind, head |-> d.head, selected |-> d.selected, motor |-> d.motor, known |-> d.known]
      OBVIOUS
    <3>3. d.head \in Int /\ d.head <= MaxCyl
      BY <3>1, Stops
    <3>4. d \in Mechanism
      BY <3>1, <3>2, <3>3, Zenon DEF Mechanism
    <3> QED BY <3>1, <3>3, <3>4
  <2> HIDE DEF First
  <2> QED BY <2>1, <2>2
<1>4. bus = "none" /\ unitNr = -1 /\ answer.cmd = "none"
  BY DEF DB!Init
<1>5. UnitsAgree
  BY <1>2, <1>3 DEF UnitsAgree, Agree
<1>6. \A i \in Units : drive[i].selected = (i = unitNr)
  BY <1>3, <1>4, BusUnits
<1>7. LinesAgree
  BY <1>2, <1>3, <1>4, <1>6 DEF LinesAgree, DB!Buses
<1> QED BY <1>4, <1>5, <1>7 DEF BusInv, DB!QuietIsQuiet, DB!NoclickEndsAtZero

LEMMA BusStep ==
  ASSUME BusInv, DB!Next
  PROVE  BusInv'
<1>1. ASSUME NEW nr \in Units,
             DB!Select(nr) \/ DB!GetInfo(nr) \/ (\E on \in BOOLEAN : DB!Motor(nr, on))
      PROVE  BusInv'
  BY <1>1, SelectKeeps, GetInfoKeeps, MotorKeeps
<1>2. CASE DB!Deselect \/ DB!NoclickStep \/ DB!Quiesce \/ DB!Reset
  BY <1>2, DeselectKeeps, NoclickKeeps, QuiesceKeeps, ResetKeeps
<1>3. ASSUME NEW cyl \in (DB!MinCyl - 1)..MaxAsked, DB!Seek(cyl)
      PROVE  BusInv'
  BY <1>3, SeekKeeps
<1>4. ASSUME NEW type \in DB!Buses, DB!SetBusType(type)
      PROVE  BusInv'
  BY <1>4, SetBusTypeKeeps
<1> QED BY <1>1, <1>2, <1>3, <1>4 DEF DB!Next

\* Whatever is selected, started, sought, clicked, quieted or reset, and in whichever
\* order: where the firmware believes a head to be is where it is, unless it was sought past
\* its innermost cylinder; a quieted bus is quiet, and a click leaves the head at cylinder 0,
\* of drives that ignore it or take it, with or without a sensor, found or not (floppy_seek,
\* floppy_seek_initialise, floppy_noclick_step, quiesce_drives).
THEOREM DrivesAreKnownAlways == MCSpec => []DrivesAreKnown
<1> DEFINE Inv == part = "bus" => BusInv
<1>1. MCInit => Inv
  BY BusInitially DEF MCInit
<1>2. Inv /\ [MCNext]_allVars => Inv'
  <2> SUFFICES ASSUME Inv, [MCNext]_allVars, part' = "bus"
               PROVE  BusInv'
    OBVIOUS
  <2>1. CASE part = "bus" /\ DB!Next
    BY <2>1, BusStep
  <2>2. CASE UNCHANGED <<part, busVars>>
    <3>1. BusInv /\ UNCHANGED <<bus, unitNr, unit, drive, answer>>
      BY <2>2 DEF busVars
    <3> QED BY <3>1 DEF BusInv, UnitsAgree, LinesAgree, DB!Wired, DB!QuietIsQuiet, DB!NoclickEndsAtZero
  <2> QED BY <2>1, <2>2 DEF MCNext, allVars, busVars
<1>3. Inv => DrivesAreKnown
  BY DEF BusInv, UnitsAgree, LinesAgree, Agree, DrivesAreKnown, DB!BeliefIsTrue
<1> QED BY <1>1, <1>2, <1>3, PTL DEF MCSpec
-----------------------------------------------------------------------------
(* Induction over the numbers, and what a recursive function adds up. *)

\* The provers cannot instantiate an induction theorem that takes a predicate, so a proof by
\* induction here names the set of the numbers it has shown.
LEMMA NatSetInduction ==
  ASSUME NEW N, N \subseteq Nat, 0 \in N, \A n \in N : n + 1 \in N
  PROVE  N = Nat
<1> SUFFICES ASSUME Nat \ N # {} PROVE FALSE
  OBVIOUS
<1> DEFINE R == OpToRel(<, Nat)
<1>1. IsWellFoundedOn(R, Nat)
  BY NatLessThanWellFounded
<1>2. Nat \ N \subseteq Nat
  OBVIOUS
<1>3. PICK least \in Nat \ N : \A y \in Nat \ N : ~(<<y, least>> \in R)
  <2> HIDE DEF R
  <2> QED BY <1>1, <1>2, WFMin
<1>4. least \in Nat /\ least \notin N /\ \A y \in Nat \ N : ~(y < least)
  BY <1>3 DEF OpToRel
<1> HIDE DEF R
<1>5. least # 0
  BY <1>4
<1>6. least - 1 \in Nat /\ least - 1 < least /\ (least - 1) + 1 = least
  BY <1>4, <1>5
<1>7. least - 1 \in N
  BY <1>4, <1>6
<1> QED BY <1>4, <1>6, <1>7

-----------------------------------------------------------------------------
(* Total: the recursion has a value, and that adds up. *)

PartSums(f, s, m) == f = [n \in 0..m |-> IF n = 0 THEN 0 ELSE f[n - 1] + s[n]]
Sums(f, s) == PartSums(f, s, Len(s))
UpTo(s) == CHOOSE f : Sums(f, s)

LEMMA SumsExist ==
  ASSUME NEW s, Len(s) \in Nat
  PROVE  \E f : Sums(f, s)
<1> DEFINE N == {m \in Nat : \E f : PartSums(f, s, m)}
<1>1. 0 \in N
  <2> DEFINE f == [n \in 0..0 |-> 0]
  <2>1. f = [n \in 0..0 |-> IF n = 0 THEN 0 ELSE f[n - 1] + s[n]]
    <3>1. \A n \in 0..0 : n = 0
      OBVIOUS
    <3> QED BY <3>1
  <2>2. PartSums(f, s, 0)
    BY <2>1 DEF PartSums
  <2> QED BY <2>2
<1>2. \A m \in N : m + 1 \in N
  <2> TAKE m \in N
  <2>1. m \in Nat
    OBVIOUS
  <2>2. PICK f : PartSums(f, s, m)
    OBVIOUS
  <2>3. \A n \in 0..m : f[n] = IF n = 0 THEN 0 ELSE f[n - 1] + s[n]
    <3>1. f = [n \in 0..m |-> IF n = 0 THEN 0 ELSE f[n - 1] + s[n]]
      BY <2>2 DEF PartSums
    <3> QED BY <3>1
  <2> DEFINE g == [n \in 0..(m + 1) |-> IF n = m + 1 THEN f[m] + s[m + 1] ELSE f[n]]
  <2>4. (\A n \in 0..m : g[n] = f[n]) /\ g[m + 1] = f[m] + s[m + 1]
    BY <2>1
  <2>5. g = [n \in 0..(m + 1) |-> g[n]]
    OBVIOUS
  <2> HIDE DEF g
  <2>6. \A n \in 0..(m + 1) : g[n] = IF n = 0 THEN 0 ELSE g[n - 1] + s[n]
    <3> TAKE n \in 0..(m + 1)
    <3>1. CASE n = 0
      BY <2>1, <2>3, <2>4, <3>1
    <3>2. CASE n = m + 1
      <4>1. n - 1 \in 0..m /\ n - 1 = m /\ n # 0
        BY <2>1, <3>2
      <4> QED BY <2>4, <3>2, <4>1
    <3>3. CASE n \in 1..m
      <4>1. n \in 0..m /\ n - 1 \in 0..m /\ n # 0
        BY <2>1, <3>3
      <4> QED BY <2>3, <2>4, <4>1
    <3> QED BY <2>1, <3>1, <3>2, <3>3
  <2>7. g = [n \in 0..(m + 1) |-> IF n = 0 THEN 0 ELSE g[n - 1] + s[n]]
    BY <2>5, <2>6
  <2>8. PartSums(g, s, m + 1)
    BY <2>7 DEF PartSums
  <2> QED BY <2>1, <2>8
<1>3. N = Nat
  <2> HIDE DEF N
  <2>1. N \subseteq Nat
    BY DEF N
  <2> QED BY <1>1, <1>2, <2>1, NatSetInduction
<1> QED BY <1>3 DEF Sums

LEMMA TotalIsUpTo ==
  ASSUME NEW s \in Seq(Nat)
  PROVE  /\ Total(s) = UpTo(s)[Len(s)] /\ UpTo(s)[0] = 0
         /\ \A n \in 1..Len(s) : UpTo(s)[n] = UpTo(s)[n - 1] + s[n]
<1>1. Total(s) = UpTo(s)[Len(s)]
  BY DEF Total, UpTo, Sums, PartSums
<1>2. Len(s) \in Nat
  BY LenProperties
<1>3. Sums(UpTo(s), s)
  BY <1>2, SumsExist DEF UpTo
<1> DEFINE f == UpTo(s)
<1> HIDE DEF f
<1>4. f = [n \in 0..Len(s) |-> IF n = 0 THEN 0 ELSE f[n - 1] + s[n]]
  BY <1>3 DEF Sums, PartSums, f
<1>5. \A n \in 0..Len(s) : f[n] = IF n = 0 THEN 0 ELSE f[n - 1] + s[n]
  BY <1>4
<1>6. 0 \in 0..Len(s) /\ \A n \in 1..Len(s) : n \in 0..Len(s) /\ n # 0
  BY <1>2
<1>7. f[0] = 0 /\ \A n \in 1..Len(s) : f[n] = f[n - 1] + s[n]
  BY <1>5, <1>6
<1> QED BY <1>1, <1>7 DEF f

LEMMA TotalType ==
  ASSUME NEW s \in Seq(Nat)
  PROVE  Total(s) \in Nat
<1> DEFINE f == UpTo(s)
           N == {n \in Nat : n <= Len(s) => f[n] \in Nat}
<1>1. Len(s) \in Nat /\ \A n \in 1..Len(s) : s[n] \in Nat
  BY LenProperties, ElementOfSeq
<1>2. Total(s) = f[Len(s)] /\ f[0] = 0 /\ \A n \in 1..Len(s) : f[n] = f[n - 1] + s[n]
  BY TotalIsUpTo
<1> HIDE DEF f
<1>3. 0 \in N
  BY <1>2
<1>4. \A n \in N : n + 1 \in N
  <2> TAKE n \in N
  <2> SUFFICES ASSUME n + 1 <= Len(s) PROVE f[n + 1] \in Nat
    OBVIOUS
  <2>1. n \in Nat /\ f[n] \in Nat /\ n + 1 \in 1..Len(s) /\ (n + 1) - 1 = n
    BY <1>1
  <2> QED BY <1>1, <1>2, <2>1
<1>5. N = Nat
  <2> HIDE DEF N
  <2>1. N \subseteq Nat
    BY DEF N
  <2> QED BY <1>3, <1>4, <2>1, NatSetInduction
<1> QED BY <1>1, <1>2, <1>5

LEMMA TotalConcat ==
  ASSUME NEW a \in Seq(Nat), NEW b \in Seq(Nat)
  PROVE  Total(a \o b) = Total(a) + Total(b)
<1> DEFINE c == a \o b
           m == Len(a)
           f == UpTo(a)
           g == UpTo(b)
           h == UpTo(c)
<1>1. /\ c \in Seq(Nat) /\ m \in Nat /\ Len(b) \in Nat /\ Len(c) = m + Len(b)
      /\ \A i \in 1..(m + Len(b)) : c[i] = IF i <= m THEN a[i] ELSE b[i - m]
  BY ConcatProperties, LenProperties
<1>2. Total(a) = f[m] /\ f[0] = 0 /\ \A n \in 1..m : f[n] = f[n - 1] + a[n]
  BY TotalIsUpTo
<1>3. Total(b) = g[Len(b)] /\ g[0] = 0 /\ \A n \in 1..Len(b) : g[n] = g[n - 1] + b[n]
  BY TotalIsUpTo
<1> HIDE DEF c
<1>4. Total(c) = h[Len(c)] /\ h[0] = 0 /\ \A n \in 1..Len(c) : h[n] = h[n - 1] + c[n]
  BY <1>1, TotalIsUpTo
<1>5. Total(a) \in Nat /\ \A n \in 1..Len(b) : b[n] \in Nat
  BY TotalType, ElementOfSeq
<1> HIDE DEF f, g, h, m
<1> DEFINE N == {n \in Nat : n <= m => h[n] = f[n]}
           M == {n \in Nat : n <= Len(b) => g[n] \in Nat /\ h[m + n] = f[m] + g[n]}
<1>6. N = Nat
  <2>1. 0 \in N
    BY <1>2, <1>4
  <2>2. \A n \in N : n + 1 \in N
    <3> TAKE n \in N
    <3> SUFFICES ASSUME n + 1 <= m PROVE h[n + 1] = f[n + 1]
      OBVIOUS
    <3>1. n \in Nat /\ h[n] = f[n] /\ n + 1 \in 1..m /\ n + 1 \in 1..Len(c) /\ (n + 1) - 1 = n
      BY <1>1
    <3>2. c[n + 1] = a[n + 1]
      BY <1>1, <3>1
    <3> QED BY <1>2, <1>4, <3>1, <3>2
  <2> HIDE DEF N
  <2>3. N \subseteq Nat
    BY DEF N
  <2> QED BY <2>1, <2>2, <2>3, NatSetInduction
<1>7. h[m] = f[m]
  <2> HIDE DEF N
  <2>1. m \in N /\ m <= m
    BY <1>1, <1>6
  <2> QED BY <2>1 DEF N
<1>8. M = Nat
  <2>1. 0 \in M
    BY <1>1, <1>2, <1>3, <1>5, <1>7
  <2>2. \A n \in M : n + 1 \in M
    <3> TAKE n \in M
    <3> SUFFICES ASSUME n + 1 <= Len(b) PROVE g[n + 1] \in Nat /\ h[m + (n + 1)] = f[m] + g[n + 1]
      OBVIOUS
    <3>1. /\ n \in Nat /\ g[n] \in Nat /\ h[m + n] = f[m] + g[n]
          /\ n + 1 \in 1..Len(b) /\ (n + 1) - 1 = n
          /\ m + (n + 1) \in 1..Len(c) /\ (m + (n + 1)) - 1 = m + n
      BY <1>1
    <3>2. c[m + (n + 1)] = b[n + 1]
      <4>1. m + (n + 1) \in 1..(m + Len(b)) /\ ~(m + (n + 1) <= m) /\ (m + (n + 1)) - m = n + 1
        BY <1>1, <3>1
      <4> QED BY <1>1, <4>1
    <3>3. g[n + 1] = g[n] + b[n + 1] /\ b[n + 1] \in Nat
      BY <1>3, <1>5, <3>1
    <3>4. h[m + (n + 1)] = h[m + n] + b[n + 1]
      BY <1>4, <3>1, <3>2
    <3>5. f[m] \in Nat
      BY <1>2, <1>5
    <3> QED BY <3>1, <3>3, <3>4, <3>5
  <2> HIDE DEF M
  <2>3. M \subseteq Nat
    BY DEF M
  <2> QED BY <2>1, <2>2, <2>3, NatSetInduction
<1>9. h[m + Len(b)] = f[m] + g[Len(b)]
  <2> HIDE DEF M
  <2>1. Len(b) \in M /\ Len(b) <= Len(b)
    BY <1>1, <1>8
  <2> QED BY <2>1 DEF M
<1> QED BY <1>1, <1>2, <1>3, <1>4, <1>9 DEF c

LEMMA TotalSmall ==
  /\ Total(<<>>) = 0
  /\ \A x \in Nat : Total(<<x>>) = x
<1>1. Total(<<>>) = 0
  <2>1. <<>> \in Seq(Nat) /\ Len(<<>>) = 0
    BY EmptySeq
  <2> QED BY <2>1, TotalIsUpTo
<1>2. ASSUME NEW x \in Nat PROVE Total(<<x>>) = x
  <2> DEFINE s == <<x>>
  <2>1. s \in Seq(Nat) /\ Len(s) = 1 /\ s[1] = x
    OBVIOUS
  <2> HIDE DEF s
  <2>2. /\ Total(s) = UpTo(s)[Len(s)] /\ UpTo(s)[0] = 0
        /\ \A n \in 1..Len(s) : UpTo(s)[n] = UpTo(s)[n - 1] + s[n]
    BY <2>1, TotalIsUpTo
  <2>3. 1 \in 1..Len(s) /\ 1 - 1 = 0
    BY <2>1
  <2>4. UpTo(s)[1] = UpTo(s)[0] + s[1]
    BY <2>2, <2>3
  <2>5. Total(s) = x
    BY <2>1, <2>2, <2>4
  <2> QED BY <2>5 DEF s
<1> QED BY <1>1, <1>2

LEMMA TotalAppend ==
  ASSUME NEW s \in Seq(Nat), NEW x \in Nat
  PROVE  Total(Append(s, x)) = Total(s) + x
<1>1. Append(s, x) = s \o <<x>> /\ <<x>> \in Seq(Nat)
  BY AppendIsConcat
<1> QED BY <1>1, TotalConcat, TotalSmall

LEMMA TotalTail ==
  ASSUME NEW s \in Seq(Nat), s # <<>>
  PROVE  Total(s) = s[1] + Total(Tail(s)) /\ s[1] \in Nat /\ Tail(s) \in Seq(Nat) /\ Head(s) = s[1]
<1>1. Tail(s) \in Seq(Nat) /\ Len(s) \in Nat \ {0}
  BY HeadTailProperties, EmptySeq
<1>2. 1 \in 1..Len(s) /\ Len(s) \in 1..Len(s)
  BY <1>1
<1>3. s[1] \in Nat /\ Head(s) = s[1]
  BY <1>2, ElementOfSeq
<1>4. SubSeq(s, 1, Len(s)) = <<s[1]>> \o SubSeq(s, 1 + 1, Len(s))
  BY <1>2, SubSeqRecursiveFirst
<1>5. SubSeq(s, 1, Len(s)) = s /\ Tail(s) = SubSeq(s, 2, Len(s))
  BY SubSeqFull, TailIsSubSeq
<1>6. s = <<s[1]>> \o Tail(s)
  BY <1>4, <1>5
<1>7. <<s[1]>> \in Seq(Nat) /\ Total(<<s[1]>>) = s[1]
  BY <1>3, TotalSmall
<1>8. Total(<<s[1]>> \o Tail(s)) = Total(<<s[1]>>) + Total(Tail(s))
  BY <1>1, <1>7, TotalConcat
<1> QED BY <1>1, <1>3, <1>6, <1>7, <1>8

\* The bytes of what is left: of nothing, and after a token.
LEMMA BytesLeft ==
  ASSUME NEW toks \in Seq(Token)
  PROVE  /\ BytesOf(toks) \in Nat /\ BytesOf(<<>>) = 0
         /\ toks # <<>> => /\ toks[1] \in Token /\ Tail(toks) \in Seq(Token)
                           /\ BytesOf(toks) = toks[1].bytes + BytesOf(Tail(toks))
<1> DEFINE Bytes(s) == [i \in DOMAIN s |-> s[i].bytes]
<1>1. ASSUME NEW s \in Seq(Token)
      PROVE  Bytes(s) \in Seq(Nat) /\ Len(Bytes(s)) = Len(s) /\ Len(s) \in Nat
             /\ \A i \in 1..Len(s) : Bytes(s)[i] = s[i].bytes
  <2>1. Len(s) \in Nat /\ DOMAIN s = 1..Len(s) /\ \A i \in 1..Len(s) : s[i] \in Token
    BY LenProperties, ElementOfSeq
  <2>2. \A i \in 1..Len(s) : s[i].bytes \in Nat
    BY <2>1 DEF Token
  <2> QED BY <2>1, <2>2
<1>2. BytesOf(toks) = Total(Bytes(toks)) /\ BytesOf(Tail(toks)) = Total(Bytes(Tail(toks)))
      /\ BytesOf(<<>>) = Total(Bytes(<<>>))
  BY DEF BytesOf
<1>3. Bytes(<<>>) = <<>>
  OBVIOUS
<1>4. ASSUME toks # <<>>
      PROVE  /\ toks[1] \in Token /\ Tail(toks) \in Seq(Token)
             /\ BytesOf(toks) = toks[1].bytes + BytesOf(Tail(toks))
  <2>1. /\ Tail(toks) \in Seq(Token) /\ Len(toks) \in Nat \ {0} /\ Len(Tail(toks)) = Len(toks) - 1
        /\ \A i \in 1..Len(Tail(toks)) : Tail(toks)[i] = toks[i + 1]
    BY <1>4, HeadTailProperties, EmptySeq
  <2>2. toks[1] \in Token
    BY <2>1, ElementOfSeq
  <2> DEFINE a == Bytes(toks)
             b == Bytes(Tail(toks))
  <2>3. /\ a \in Seq(Nat) /\ Len(a) = Len(toks) /\ \A i \in 1..Len(toks) : a[i] = toks[i].bytes
        /\ b \in Seq(Nat) /\ Len(b) = Len(toks) - 1
        /\ \A i \in 1..(Len(toks) - 1) : b[i] = Tail(toks)[i].bytes
    BY <1>1, <2>1
  <2> HIDE DEF a, b
  <2>4. a # <<>>
    BY <2>1, <2>3
  <2>5. /\ Tail(a) \in Seq(Nat) /\ Len(Tail(a)) = Len(toks) - 1
        /\ \A i \in 1..Len(Tail(a)) : Tail(a)[i] = a[i + 1]
    BY <2>3, <2>4, HeadTailProperties
  <2>6. \A i \in 1..Len(Tail(a)) : Tail(a)[i] = b[i]
    <3> TAKE i \in 1..Len(Tail(a))
    <3>1. i \in 1..(Len(toks) - 1) /\ i + 1 \in 1..Len(toks)
      BY <2>1, <2>5
    <3> QED BY <2>1, <2>3, <2>5, <3>1
  <2>7. Tail(a) = b
    BY <2>3, <2>5, <2>6, SeqEqual
  <2>8. Total(a) = a[1] + Total(Tail(a))
    BY <2>3, <2>4, TotalTail
  <2>9. a[1] = toks[1].bytes
    BY <2>1, <2>3
  <2>10. Total(a) = toks[1].bytes + Total(b)
    BY <2>7, <2>8, <2>9
  <2> QED BY <1>2, <2>1, <2>2, <2>10 DEF a, b
<1>5. BytesOf(toks) \in Nat
  BY <1>1, <1>2, TotalType
<1> QED BY <1>2, <1>3, <1>4, <1>5, TotalSmall

-----------------------------------------------------------------------------
(* One turn of the decoder. *)

Modes == {"idle", "astable", "oneshot"}
Decoder ==
  [toks : Seq(Token), cons : Nat, prod : Nat, ticks : Nat, mode : Modes, period : Nat,
   fin : BOOLEAN, stop : BOOLEAN, error : BOOLEAN, pulses : Seq(Nat), read : Nat]

\* The NUL is the last token.
EndsOnce(toks) == \A i \in DOMAIN toks : toks[i].kind = "nul" <=> i = Len(toks)
\* The tokens of a stream of so many bytes that are left when cons have gone.
Remains(toks, cons, fin, total) ==
  (fin <=> toks = <<>>) /\ EndsOnce(toks) /\ cons + BytesOf(toks) = total
\* The time of the pulses, and what is carried over, is the time that was read.
Timed(d, given) == Total(d.pulses) + d.ticks = d.read + given

Decodes(d, total, given, prod, nr) ==
  /\ d \in Decoder /\ d.prod = prod /\ d.cons <= prod
  /\ Remains(d.toks, d.cons, d.fin, total)
  /\ Timed(d, given) /\ Len(d.pulses) <= nr

\* A pulse takes its time from the time that is carried.
LEMMA EmitHolds ==
  ASSUME NEW d \in Decoder, NEW p \in Nat, p <= d.ticks
  PROVE  LET e == Emit(d, p)
         IN /\ e \in Decoder /\ e.toks = d.toks /\ e.cons = d.cons /\ e.prod = d.prod
            /\ e.fin = d.fin /\ e.read = d.read
            /\ Total(e.pulses) + e.ticks = Total(d.pulses) + d.ticks
            /\ Len(e.pulses) = Len(d.pulses) + 1
<1> DEFINE e == Emit(d, p)
<1>1. d.pulses \in Seq(Nat) /\ d.ticks \in Nat
  BY DEF Decoder
<1>2. e = [d EXCEPT !.ticks = d.ticks - p, !.pulses = Append(d.pulses, p)]
  BY DEF Emit
<1>3. /\ Append(d.pulses, p) \in Seq(Nat) /\ Len(Append(d.pulses, p)) = Len(d.pulses) + 1
      /\ Total(Append(d.pulses, p)) = Total(d.pulses) + p
  BY <1>1, AppendProperties, TotalAppend
<1>4. d.ticks - p \in Nat
  BY <1>1
<1>5. /\ e.ticks = d.ticks - p /\ e.pulses = Append(d.pulses, p)
      /\ e.toks = d.toks /\ e.cons = d.cons /\ e.prod = d.prod /\ e.fin = d.fin /\ e.read = d.read
  BY <1>2 DEF Decoder
<1>6. e \in Decoder
  BY <1>2, <1>3, <1>4 DEF Decoder
<1>7. Total(d.pulses) \in Nat
  BY <1>1, TotalType
<1> HIDE DEF e
<1>8. Total(e.pulses) + e.ticks = Total(d.pulses) + d.ticks
  BY <1>1, <1>3, <1>5, <1>7
<1> QED BY <1>3, <1>5, <1>6, <1>8 DEF e

\* A token goes from what is left to what was read.
LEMMA TokenHolds ==
  ASSUME NEW d \in Decoder, d.toks # <<>>
  PROVE  LET t == d.toks[1]
             r == OneToken(d, t)
         IN /\ r \in Decoder /\ r.toks = Tail(d.toks) /\ r.cons = d.cons + t.bytes /\ r.prod = d.prod
            /\ r.fin <=> d.fin \/ t.kind = "nul"
            /\ Total(r.pulses) + r.ticks + d.read = Total(d.pulses) + d.ticks + r.read
            /\ Len(r.pulses) <= Len(d.pulses) + 1
<1> DEFINE t == d.toks[1]
           r == OneToken(d, t)
           more == IF t.kind \in {"flux", "space"} THEN t.ticks ELSE 0
           ticks == d.ticks + t.ticks
           e == [d EXCEPT !.cons = d.cons + t.bytes, !.toks = Tail(d.toks), !.read = d.read + more]
<1>1. /\ d.toks \in Seq(Token) /\ d.cons \in Nat /\ d.read \in Nat /\ d.ticks \in Nat
      /\ d.pulses \in Seq(Nat)
  BY DEF Decoder
<1>2. t \in Token /\ Tail(d.toks) \in Seq(Token)
  BY <1>1, BytesLeft
<1>3. /\ t.kind \in {"nul", "flux", "space", "astable", "bad"} /\ t.ticks \in Nat /\ t.bytes \in Nat
      /\ more \in Nat /\ ticks \in Nat
  <2>1. /\ t.kind \in {"nul", "flux", "space", "astable", "bad"} /\ t.ticks \in Nat /\ t.bytes \in Nat
    BY <1>2 DEF Token
  <2> HIDE DEF t
  <2> QED BY <1>1, <2>1
<1>4. /\ e \in Decoder /\ e.toks = Tail(d.toks) /\ e.cons = d.cons + t.bytes /\ e.prod = d.prod
      /\ e.fin = d.fin /\ e.read = d.read + more /\ e.ticks = d.ticks /\ e.pulses = d.pulses
  <2> HIDE DEF t, more
  <2>1. d.cons + t.bytes \in Nat /\ d.read + more \in Nat
    BY <1>1, <1>3
  <2>2. Tail(d.toks) \in Seq(Token)
    BY <1>2
  <2> QED BY <2>1, <2>2 DEF Decoder
<1>5. r = CASE t.kind = "nul"     -> [e EXCEPT !.fin = TRUE, !.stop = TRUE]
            [] t.kind = "space"   -> [e EXCEPT !.ticks = ticks]
            [] t.kind = "astable" -> [e EXCEPT !.mode = "astable", !.period = t.ticks, !.stop = TRUE]
            [] t.kind = "bad"     -> [e EXCEPT !.error = TRUE, !.stop = TRUE]
            [] OTHER ->
                 IF ticks < MinPulse THEN [e EXCEPT !.ticks = ticks]
                 ELSE IF ticks > MaxPulse
                 THEN [e EXCEPT !.ticks = ticks, !.mode = "oneshot", !.stop = TRUE]
                 ELSE Emit([e EXCEPT !.ticks = ticks], ticks)
  BY DEF OneToken, TicksOf
<1>6. Total(d.pulses) \in Nat /\ Len(d.pulses) \in Nat
  BY <1>1, TotalType, LenProperties
<1> DEFINE Goal == /\ r \in Decoder /\ r.toks = Tail(d.toks) /\ r.cons = d.cons + t.bytes /\ r.prod = d.prod
                   /\ r.fin <=> d.fin \/ t.kind = "nul"
                   /\ Total(r.pulses) + r.ticks + d.read = Total(d.pulses) + d.ticks + r.read
                   /\ Len(r.pulses) <= Len(d.pulses) + 1
<1> SUFFICES Goal
  OBVIOUS
<1> HIDE DEF t, r, e
<1>7. CASE t.kind = "nul"
  <2>1. r = [e EXCEPT !.fin = TRUE, !.stop = TRUE] /\ more = 0
    BY <1>5, <1>7
  <2>2. /\ r \in Decoder /\ r.toks = e.toks /\ r.cons = e.cons /\ r.prod = e.prod /\ r.fin = TRUE
        /\ r.pulses = e.pulses /\ r.ticks = e.ticks /\ r.read = e.read
    BY <1>4, <2>1 DEF Decoder
  <2> QED BY <1>1, <1>4, <1>6, <1>7, <2>1, <2>2
<1>8. CASE t.kind = "space"
  <2>1. r = [e EXCEPT !.ticks = ticks] /\ more = t.ticks
    BY <1>5, <1>8
  <2>2. /\ r \in Decoder /\ r.toks = e.toks /\ r.cons = e.cons /\ r.prod = e.prod /\ r.fin = e.fin
        /\ r.pulses = e.pulses /\ r.ticks = ticks /\ r.read = e.read
    BY <1>3, <1>4, <2>1 DEF Decoder
  <2>3. r.read = d.read + t.ticks /\ r.ticks = d.ticks + t.ticks /\ r.pulses = d.pulses
    BY <1>4, <2>1, <2>2
  <2>4. Total(r.pulses) + r.ticks + d.read = Total(d.pulses) + d.ticks + r.read
    BY <1>1, <1>3, <1>6, <2>3
  <2> QED BY <1>4, <1>6, <1>8, <2>2, <2>3, <2>4
<1>9. CASE t.kind = "astable"
  <2>1. r = [e EXCEPT !.mode = "astable", !.period = t.ticks, !.stop = TRUE] /\ more = 0
    BY <1>5, <1>9
  <2>2. /\ r \in Decoder /\ r.toks = e.toks /\ r.cons = e.cons /\ r.prod = e.prod /\ r.fin = e.fin
        /\ r.pulses = e.pulses /\ r.ticks = e.ticks /\ r.read = e.read
    BY <1>3, <1>4, <2>1 DEF Decoder, Modes
  <2> QED BY <1>1, <1>4, <1>6, <1>9, <2>1, <2>2
<1>10. CASE t.kind = "bad"
  <2>1. r = [e EXCEPT !.error = TRUE, !.stop = TRUE] /\ more = 0
    BY <1>5, <1>10
  <2>2. /\ r \in Decoder /\ r.toks = e.toks /\ r.cons = e.cons /\ r.prod = e.prod /\ r.fin = e.fin
        /\ r.pulses = e.pulses /\ r.ticks = e.ticks /\ r.read = e.read
    BY <1>4, <2>1 DEF Decoder
  <2> QED BY <1>1, <1>4, <1>6, <1>10, <2>1, <2>2
<1>11. CASE t.kind = "flux"
  <2>1. more = t.ticks
    BY <1>11
  <2>2. r = IF ticks < MinPulse THEN [e EXCEPT !.ticks = ticks]
            ELSE IF ticks > MaxPulse
            THEN [e EXCEPT !.ticks = ticks, !.mode = "oneshot", !.stop = TRUE]
            ELSE Emit([e EXCEPT !.ticks = ticks], ticks)
    BY <1>5, <1>11
  <2>3. CASE ticks < MinPulse \/ ticks > MaxPulse
    <3>1. /\ r \in Decoder /\ r.toks = e.toks /\ r.cons = e.cons /\ r.prod = e.prod /\ r.fin = e.fin
          /\ r.pulses = e.pulses /\ r.ticks = ticks /\ r.read = e.read
      BY <1>3, <1>4, <2>2, <2>3 DEF Decoder, Modes
    <3>2. r.read = d.read + t.ticks /\ r.ticks = d.ticks + t.ticks /\ r.pulses = d.pulses
      BY <1>4, <2>1, <3>1
    <3>3. Total(r.pulses) + r.ticks + d.read = Total(d.pulses) + d.ticks + r.read
      BY <1>1, <1>3, <1>6, <3>2
    <3> QED BY <1>4, <1>6, <1>11, <3>1, <3>2, <3>3
  <2>4. CASE ~(ticks < MinPulse \/ ticks > MaxPulse)
    <3> DEFINE f == [e EXCEPT !.ticks = ticks]
    <3>1. r = Emit(f, ticks)
      BY <2>2, <2>4
    <3>2. /\ f \in Decoder /\ f.toks = e.toks /\ f.cons = e.cons /\ f.prod = e.prod /\ f.fin = e.fin
          /\ f.pulses = e.pulses /\ f.ticks = ticks /\ f.read = e.read
      BY <1>3, <1>4 DEF Decoder
    <3> HIDE DEF f, ticks
    <3>3. ticks <= f.ticks
      BY <1>3, <3>2
    <3>4. /\ r \in Decoder /\ r.toks = f.toks /\ r.cons = f.cons /\ r.prod = f.prod /\ r.fin = f.fin
          /\ r.read = f.read /\ Total(r.pulses) + r.ticks = Total(f.pulses) + f.ticks
          /\ Len(r.pulses) = Len(f.pulses) + 1
      BY <1>3, <3>1, <3>2, <3>3, EmitHolds
    <3>5. Total(r.pulses) \in Nat /\ r.ticks \in Nat
      BY <3>4, TotalType DEF Decoder
    <3>6. Total(r.pulses) + r.ticks = Total(d.pulses) + ticks /\ r.read = d.read + t.ticks
      BY <1>4, <2>1, <3>2, <3>4
    <3>7. Total(r.pulses) + r.ticks + d.read = Total(d.pulses) + d.ticks + r.read
      BY <1>1, <1>3, <1>6, <3>5, <3>6 DEF ticks
    <3> QED BY <1>4, <1>6, <1>11, <3>2, <3>4, <3>7
  <2> QED BY <2>3, <2>4
<1> QED BY <1>3, <1>7, <1>8, <1>9, <1>10, <1>11

\* A turn leaves the last tokens of the stream, and its time.
LEMMA TurnKeeps ==
  ASSUME NEW d, NEW total \in Nat, NEW given \in Nat, NEW prod \in Nat, NEW nr \in Nat,
         Decodes(d, total, given, prod, nr), NEW e \in Turn(d, nr)
  PROVE  Decodes(e, total, given, prod, nr)
<1>1. /\ d \in Decoder /\ d.prod = prod /\ d.cons <= prod /\ Remains(d.toks, d.cons, d.fin, total)
      /\ Timed(d, given) /\ Len(d.pulses) <= nr
  BY DEF Decodes
<1>2. /\ d.toks \in Seq(Token) /\ d.cons \in Nat /\ d.read \in Nat /\ d.ticks \in Nat
      /\ d.pulses \in Seq(Nat) /\ d.period \in Nat /\ d.mode \in Modes /\ Len(d.pulses) \in Nat
  BY <1>1, LenProperties DEF Decoder
<1>3. Len(d.pulses) < nr /\ Len(d.pulses) # nr /\ ~d.stop
  <2>1. Turn(d, nr) # {}
    OBVIOUS
  <2>2. ~(Len(d.pulses) = nr \/ d.stop)
    BY ONLY <2>1 DEF Turn
  <2> QED BY <1>1, <1>2, <2>2
\* A pulse of what the mode still has to produce.
<1>4. ASSUME NEW p \in Nat, p <= d.ticks, NEW x, x = Emit(d, p)
      PROVE  Decodes(x, total, given, prod, nr)
  <2>1. /\ x \in Decoder /\ x.toks = d.toks /\ x.cons = d.cons /\ x.prod = d.prod
        /\ x.fin = d.fin /\ x.read = d.read
        /\ Total(x.pulses) + x.ticks = Total(d.pulses) + d.ticks
        /\ Len(x.pulses) = Len(d.pulses) + 1
    BY <1>1, <1>4, EmitHolds
  <2>2. Len(x.pulses) <= nr
    BY <1>2, <1>3, <2>1
  <2> QED BY <1>1, <2>1, <2>2 DEF Decodes, Timed
<1>5. ASSUME NEW x, Decodes(x, total, given, prod, nr)
      PROVE  Decodes([x EXCEPT !.mode = "idle"], total, given, prod, nr)
  <2> DEFINE y == [x EXCEPT !.mode = "idle"]
  <2>1. /\ x \in Decoder /\ x.prod = prod /\ x.cons <= prod /\ Remains(x.toks, x.cons, x.fin, total)
        /\ Timed(x, given) /\ Len(x.pulses) <= nr
    BY <1>5 DEF Decodes
  <2>2. /\ y \in Decoder /\ y.toks = x.toks /\ y.cons = x.cons /\ y.prod = x.prod
        /\ y.fin = x.fin /\ y.read = x.read /\ y.pulses = x.pulses /\ y.ticks = x.ticks
    BY <2>1 DEF Decoder, Modes
  <2> HIDE DEF y
  <2>3. Decodes(y, total, given, prod, nr)
    BY <2>1, <2>2 DEF Decodes, Timed
  <2> QED BY <2>3 DEF y
<1>6. CASE d.mode = "astable"
  <2>1. e = IF d.ticks >= d.period THEN Emit(d, d.period) ELSE [d EXCEPT !.mode = "idle"]
    BY <1>3, <1>6 DEF Turn
  <2> QED BY <1>2, <1>4, <1>5, <2>1
<1>7. CASE d.mode = "oneshot"
  <2>1. e = IF d.ticks > MaxPulse THEN Emit(d, MaxPulse)
            ELSE [(IF d.ticks > MinPulse THEN Emit(d, d.ticks) ELSE d) EXCEPT !.mode = "idle"]
    BY <1>3, <1>7 DEF Turn
  <2>2. CASE d.ticks > MaxPulse
    BY <1>2, <1>4, <2>1, <2>2, StreamsAssumption
  <2>3. CASE ~(d.ticks > MaxPulse)
    <3> DEFINE x == IF d.ticks > MinPulse THEN Emit(d, d.ticks) ELSE d
    <3>1. Decodes(x, total, given, prod, nr)
      BY <1>2, <1>4
    <3>2. e = [x EXCEPT !.mode = "idle"]
      BY <2>1, <2>3
    <3> HIDE DEF x
    <3> QED BY <1>5, <3>1, <3>2
  <2> QED BY <2>2, <2>3
<1>8. CASE d.mode \notin {"astable", "oneshot"}
  <2> DEFINE t == d.toks[1]
  <2>1. d.toks # <<>> /\ ~(d.cons + t.bytes > d.prod) /\ e = OneToken(d, t)
    BY <1>3, <1>8 DEF Turn
  <2>2. /\ e \in Decoder /\ e.toks = Tail(d.toks) /\ e.cons = d.cons + t.bytes /\ e.prod = d.prod
        /\ e.fin <=> d.fin \/ t.kind = "nul"
        /\ Total(e.pulses) + e.ticks + d.read = Total(d.pulses) + d.ticks + e.read
        /\ Len(e.pulses) <= Len(d.pulses) + 1
    BY <1>1, <2>1, TokenHolds
  <2>3. /\ t \in Token /\ Tail(d.toks) \in Seq(Token)
        /\ BytesOf(d.toks) = t.bytes + BytesOf(Tail(d.toks))
        /\ BytesOf(Tail(d.toks)) \in Nat
    BY <1>2, <2>1, BytesLeft
  <2>4. t.bytes \in Nat
    BY <2>3 DEF Token
  <2>5. e.prod = prod /\ e.cons <= prod
    <3>1. d.prod = prod /\ d.prod \in Nat /\ d.cons \in Nat
      BY <1>1, <1>2
    <3> HIDE DEF t
    <3> QED BY <2>1, <2>2, <2>4, <3>1
  <2>6. e.cons + BytesOf(e.toks) = total
    <3>1. d.cons + BytesOf(d.toks) = total /\ d.cons \in Nat
      BY <1>1, <1>2 DEF Remains
    <3> HIDE DEF t
    <3> QED BY <2>2, <2>3, <2>4, <3>1
  <2>7. /\ Len(d.toks) \in Nat \ {0} /\ Len(Tail(d.toks)) = Len(d.toks) - 1
        /\ DOMAIN d.toks = 1..Len(d.toks) /\ DOMAIN Tail(d.toks) = 1..(Len(d.toks) - 1)
        /\ \A i \in 1..(Len(d.toks) - 1) : Tail(d.toks)[i] = d.toks[i + 1]
    BY <1>2, <2>1, <2>3, HeadTailProperties, LenProperties, EmptySeq
  <2>8. \A i \in DOMAIN d.toks : d.toks[i].kind = "nul" <=> i = Len(d.toks)
    BY <1>1 DEF Remains, EndsOnce
  <2>9. EndsOnce(e.toks)
    <3> SUFFICES ASSUME NEW i \in DOMAIN Tail(d.toks)
                 PROVE  Tail(d.toks)[i].kind = "nul" <=> i = Len(Tail(d.toks))
      BY <2>2 DEF EndsOnce
    <3>1. i \in 1..(Len(d.toks) - 1) /\ i + 1 \in DOMAIN d.toks
      BY <2>7
    <3>2. Tail(d.toks)[i] = d.toks[i + 1]
      BY <2>7, <3>1
    <3>3. d.toks[i + 1].kind = "nul" <=> i + 1 = Len(d.toks)
      BY <2>8, <3>1
    <3> QED BY <2>7, <3>1, <3>2, <3>3
  <2>10. t.kind = "nul" <=> Tail(d.toks) = <<>>
    <3>1. 1 \in DOMAIN d.toks
      BY <2>7
    <3>2. t.kind = "nul" <=> Len(d.toks) = 1
      BY <2>8, <3>1
    <3>3. Tail(d.toks) = <<>> <=> Len(Tail(d.toks)) = 0
      BY <2>3, EmptySeq
    <3> QED BY <2>7, <3>2, <3>3
  <2>11. e.fin <=> e.toks = <<>>
    <3>1. ~d.fin
      BY <1>1, <2>1 DEF Remains
    <3> QED BY <2>2, <2>10, <3>1
  <2>12. Timed(e, given)
    <3>1. Total(d.pulses) \in Nat /\ Total(e.pulses) \in Nat /\ e.ticks \in Nat /\ e.read \in Nat
      BY <1>2, <2>2, TotalType DEF Decoder
    <3>2. Total(d.pulses) + d.ticks = d.read + given
      BY <1>1 DEF Timed
    <3>3. Total(e.pulses) + e.ticks + d.read = Total(d.pulses) + d.ticks + e.read
      BY <2>2
    <3>4. d.read \in Nat /\ d.ticks \in Nat
      BY <1>2
    <3>5. Total(e.pulses) + e.ticks = e.read + given
      <4>1. \A a, b, c, x, y, z, n \in Nat :
              a + b = c + n /\ x + y + c = a + b + z => x + y = z + n
        OBVIOUS
      <4> HIDE DEF t
      <4>2. given \in Nat
        OBVIOUS
      <4> QED BY <3>1, <3>2, <3>3, <3>4, <4>1, <4>2
    <3> QED BY <3>5 DEF Timed
  <2>13. Len(e.pulses) <= nr
    <3>1. Len(e.pulses) \in Nat
      BY <2>2, LenProperties DEF Decoder
    <3> QED BY <1>2, <1>3, <2>2, <3>1
  <2> QED BY <2>2, <2>5, <2>6, <2>9, <2>11, <2>12, <2>13 DEF Decodes, Remains
<1> QED BY <1>6, <1>7, <1>8

(* The turns, as a recursion that has a value. *)

SomeTurns(f, d, nr, m) == f = [n \in 0..m |-> IF n = 0 THEN {d} ELSE OneTurnLater(f[n - 1], nr)]
AllTurns(f, d, nr) == SomeTurns(f, d, nr, MostTurns(d, nr))
AfterTurns(d, nr) == CHOOSE f : AllTurns(f, d, nr)

LEMMA TurnsExist ==
  ASSUME NEW d, NEW nr, MostTurns(d, nr) \in Nat
  PROVE  \E f : AllTurns(f, d, nr)
<1> DEFINE N == {m \in Nat : \E f : SomeTurns(f, d, nr, m)}
<1>1. 0 \in N
  <2> DEFINE f == [n \in 0..0 |-> {d}]
  <2>1. f = [n \in 0..0 |-> IF n = 0 THEN {d} ELSE OneTurnLater(f[n - 1], nr)]
    <3>1. \A n \in 0..0 : n = 0
      OBVIOUS
    <3> QED BY <3>1
  <2>2. SomeTurns(f, d, nr, 0)
    BY <2>1 DEF SomeTurns
  <2> QED BY <2>2
<1>2. \A m \in N : m + 1 \in N
  <2> TAKE m \in N
  <2>1. m \in Nat
    OBVIOUS
  <2>2. PICK f : SomeTurns(f, d, nr, m)
    OBVIOUS
  <2>3. \A n \in 0..m : f[n] = IF n = 0 THEN {d} ELSE OneTurnLater(f[n - 1], nr)
    <3>1. f = [n \in 0..m |-> IF n = 0 THEN {d} ELSE OneTurnLater(f[n - 1], nr)]
      BY <2>2 DEF SomeTurns
    <3> QED BY <3>1
  <2> DEFINE g == [n \in 0..(m + 1) |-> IF n = m + 1 THEN OneTurnLater(f[m], nr) ELSE f[n]]
  <2>4. (\A n \in 0..m : g[n] = f[n]) /\ g[m + 1] = OneTurnLater(f[m], nr)
    BY <2>1
  <2>5. g = [n \in 0..(m + 1) |-> g[n]]
    OBVIOUS
  <2> HIDE DEF g
  <2>6. \A n \in 0..(m + 1) : g[n] = IF n = 0 THEN {d} ELSE OneTurnLater(g[n - 1], nr)
    <3> TAKE n \in 0..(m + 1)
    <3>1. CASE n = 0
      BY <2>1, <2>3, <2>4, <3>1
    <3>2. CASE n = m + 1
      <4>1. n - 1 \in 0..m /\ n - 1 = m /\ n # 0
        BY <2>1, <3>2
      <4> QED BY <2>4, <3>2, <4>1
    <3>3. CASE n \in 1..m
      <4>1. n \in 0..m /\ n - 1 \in 0..m /\ n # 0
        BY <2>1, <3>3
      <4> QED BY <2>3, <2>4, <4>1
    <3> QED BY <2>1, <3>1, <3>2, <3>3
  <2>7. g = [n \in 0..(m + 1) |-> IF n = 0 THEN {d} ELSE OneTurnLater(g[n - 1], nr)]
    BY <2>5, <2>6
  <2>8. SomeTurns(g, d, nr, m + 1)
    BY <2>7 DEF SomeTurns
  <2> QED BY <2>1, <2>8
<1>3. N = Nat
  <2> HIDE DEF N
  <2>1. N \subseteq Nat
    BY DEF N
  <2> QED BY <1>1, <1>2, <2>1, NatSetInduction
<1> QED BY <1>3 DEF AllTurns

\* Decoding stays in a set that no turn leaves.
LEMMA TurnsWithin ==
  ASSUME NEW d, NEW nr, MostTurns(d, nr) \in Nat, NEW S, d \in S, \A x \in S : Turn(x, nr) \subseteq S
  PROVE  Turns(d, nr) \subseteq S
<1> DEFINE most == MostTurns(d, nr)
           f == AfterTurns(d, nr)
           N == {n \in Nat : n <= most => f[n] \subseteq S}
<1>1. most \in Nat
  OBVIOUS
<1>2. Turns(d, nr) = f[most]
  BY DEF Turns, AfterTurns, AllTurns, SomeTurns
<1>3. AllTurns(f, d, nr)
  BY <1>1, TurnsExist DEF AfterTurns
<1> HIDE DEF f
<1>4. f = [n \in 0..most |-> IF n = 0 THEN {d} ELSE OneTurnLater(f[n - 1], nr)]
  BY <1>3 DEF AllTurns, SomeTurns
<1> HIDE DEF most
<1>5. \A n \in 0..most : f[n] = IF n = 0 THEN {d} ELSE OneTurnLater(f[n - 1], nr)
  BY <1>4
<1>6. f[0] = {d} /\ \A n \in 0..most : n + 1 \in 0..most => f[n + 1] = OneTurnLater(f[n], nr)
  <2>1. 0 \in 0..most
    BY <1>1
  <2>2. \A n \in 0..most : n + 1 # 0 /\ (n + 1) - 1 = n
    BY <1>1
  <2> QED BY <1>5, <2>1, <2>2
<1>7. 0 \in N
  BY <1>6
<1>8. ASSUME NEW ds, ds \subseteq S PROVE OneTurnLater(ds, nr) \subseteq S
  <2> SUFFICES ASSUME NEW e \in OneTurnLater(ds, nr) PROVE e \in S
    OBVIOUS
  <2>1. PICK x \in ds : e \in (IF Turn(x, nr) = {} THEN {x} ELSE Turn(x, nr))
    BY DEF OneTurnLater
  <2>2. e = x \/ e \in Turn(x, nr)
    BY <2>1
  <2> QED BY <1>8, <2>2
<1>9. \A n \in N : n + 1 \in N
  <2> TAKE n \in N
  <2> SUFFICES ASSUME n + 1 <= most
               PROVE  f[n + 1] \subseteq S
    OBVIOUS
  <2>1. n \in Nat /\ n \in 0..most /\ n + 1 \in 0..most /\ n <= most
    BY <1>1
  <2>2. f[n + 1] = OneTurnLater(f[n], nr) /\ f[n] \subseteq S
    BY <1>6, <2>1
  <2> QED BY <1>8, <2>2
<1>10. N = Nat
  <2> HIDE DEF N
  <2>1. N \subseteq Nat
    BY DEF N
  <2> QED BY <1>7, <1>9, <2>1, NatSetInduction
<1>11. most \in N /\ most <= most
  BY <1>1, <1>10
<1> QED BY <1>2, <1>11

LEMMA MostTurnsType ==
  ASSUME NEW d \in Decoder, NEW nr \in Nat
  PROVE  MostTurns(d, nr) \in Nat
<1>1. Len(d.toks) \in Nat
  BY LenProperties DEF Decoder
<1> QED BY <1>1 DEF MostTurns

\* Decoding keeps what a turn keeps.
LEMMA DecodedKeeps ==
  ASSUME NEW d, NEW total \in Nat, NEW given \in Nat, NEW prod \in Nat, NEW nr \in Nat,
         Decodes(d, total, given, prod, nr)
  PROVE  \A e \in Turns(d, nr) : Decodes(e, total, given, prod, nr)
<1> DEFINE S == {x \in Decoder : Decodes(x, total, given, prod, nr)}
<1>1. d \in S /\ MostTurns(d, nr) \in Nat
  BY MostTurnsType DEF Decodes
<1>2. ASSUME NEW x \in S, NEW e \in Turn(x, nr) PROVE e \in S
  <2>1. Decodes(e, total, given, prod, nr)
    BY TurnKeeps
  <2> QED BY <2>1 DEF Decodes
<1> HIDE DEF S
<1>3. Turns(d, nr) \subseteq S
  BY <1>1, <1>2, TurnsWithin
<1> QED BY <1>3 DEF S

-----------------------------------------------------------------------------
(* The inductive invariant of the streams. *)

Status == {"okay", "badCommand", "noIndex", "underflow"}
Answer == {"ack", "wrprot"} \cup Status \cup Nat
Writing == {"waitData", "waitIndex", "write"}
Flowing == Writing \cup {"drain"}
Firmware ==
  [state : Flowing \cup {"wait", "erase", "sink", "source"}, status : Status, toks : Seq(Token),
   cons : Nat, prod : Nat, total : Nat, ticks : Nat, mode : Modes, period : Nat, fin : BOOLEAN,
   dma : Seq(Nat), gate : BOOLEAN, cue : BOOLEAN, term : BOOLEAN, pkt : Nat, idx : BOOLEAN,
   todo : Nat, rx : Nat, tx : Seq(Answer)]
HostSide ==
  [stage : {"idle", "asked", "sending", "sent"}, op : {"none", "write", "erase", "sink", "source"},
   stream : Seq(Token), total : Nat, sent : Nat, got : Nat, status : Answer \cup {"none"}]
History ==
  [made : Nat, read : Nat, out : Nat, at : SUBSET Nat, cut : BOOLEAN, late : BOOLEAN, ran : BOOLEAN]

StreamTypes == fw \in Firmware /\ host \in HostSide /\ seen \in History

\* What is left of a stream is its last tokens, and where each of its bytes is is known.
Flows(f, h) ==
  /\ f.total = h.total /\ Remains(f.toks, f.cons, f.fin, f.total)
  /\ f.cons <= f.prod /\ f.prod + f.pkt + f.rx = h.sent
  /\ Len(f.dma) < DmaSize
StreamKnown == fw.state \in Flowing => Flows(fw, host)

\* What is on the disk or in the ring was made, unless an error has ended the write.
Whole(s) == ~s.cut => s.out = s.made
Pulsed(f, s) ==
  /\ f.state \in Writing =>
       f.status = "okay" /\ s.made + f.ticks = s.read /\ s.out + Total(f.dma) = s.made
  /\ f.state = "drain" /\ f.status = "okay" => Whole(s)
PulsesKnown == Pulsed(fw, seen)

SentKnown ==
  /\ host.sent <= host.total
  /\ host.stage \in {"idle", "asked"} \/ host.op \notin {"write", "sink"} => fw.rx = 0
  /\ host.stage = "asked" => host.sent = 0
  /\ host.stage = "sending" => host.op \in {"write", "sink"} /\ host.sent < host.total
  /\ host.stage = "sent" /\ host.op \in {"write", "sink"} => host.sent = host.total
  /\ host.op = "erase" => host.total = 0
  /\ fw.state = "sink" => host.sent + fw.todo = host.total + fw.rx

\* A command that has ended has its answer on the way behind its acknowledgement, and no
\* byte of its stream; one that has not, has no answer yet.
Ack == IF host.stage = "asked" THEN <<"ack">> ELSE <<>>
Finished ==
  \/ fw.tx = <<"wrprot">> /\ host.stage = "asked"
  \/ \E reply \in Status :
       /\ fw.tx = Ack \o <<reply>> /\ host.sent = host.total /\ fw.rx = 0
       /\ host.op = "write" /\ reply = "okay" => Whole(seen)
AtWork ==
  /\ fw.state \in Flowing => host.op = "write"
  /\ fw.state \in {"erase", "sink", "source"} => host.op = fw.state
  /\ host.stage = "idle" => fw.state = "wait" /\ fw.tx = <<>>
  /\ fw.state # "wait" => ~seen.late
  /\ host.stage # "idle" => host.op # "none"
Answered ==
  host.op \in {"write", "erase", "sink"} /\ host.stage # "idle" =>
    IF fw.state # "wait" \/ seen.late THEN fw.tx = Ack ELSE Finished

\* The bytes of a source that are on their way, in packets of which the last is short.
Owed == IF host.stage = "asked" THEN Tail(fw.tx) ELSE fw.tx
SourceKnown ==
  host.op = "source" /\ host.stage # "idle" =>
    /\ host.stage \in {"asked", "sent"}
    /\ fw.tx = Ack \o Owed /\ Owed \in Seq(Nat)
    /\ \A i \in DOMAIN Owed :
         Owed[i] = Mps \/ (Owed[i] < Mps /\ i = Len(Owed) /\ fw.state = "wait" /\ ~seen.late)
    /\ ~seen.late => host.got + Total(Owed) + fw.todo = host.total
    /\ ~seen.late /\ fw.state = "wait" =>
         fw.todo = 0 /\ Owed # <<>> /\ Owed[Len(Owed)] < Mps

\* With a status of 0 all the pulses were written, and every byte of a source came.
Balanced ==
  host.stage = "idle" /\ ~seen.late =>
    /\ host.op = "write" /\ host.status = "okay" /\ ~seen.cut => seen.out = seen.made
    /\ host.op = "source" => host.got = host.total

StreamInv ==
  /\ StreamTypes /\ StreamKnown /\ PulsesKnown /\ SentKnown /\ AtWork /\ Answered /\ SourceKnown
  /\ NothingLeftToRun /\ Balanced

-----------------------------------------------------------------------------
(* What taking a packet, decoding and putting the pulses in the ring keep. *)

LEMMA TakePacketKeeps ==
  ASSUME NEW f \in Firmware
  PROVE  LET g == TakePacket(f)
         IN /\ g \in Firmware /\ g.prod >= f.prod /\ g.prod + g.pkt + g.rx = f.prod + f.pkt + f.rx
            /\ g.rx \in {0, f.rx}
            /\ g = [f EXCEPT !.prod = g.prod, !.pkt = g.pkt, !.rx = g.rx]
<1> DEFINE h == IF f.rx > 0 /\ f.pkt = 0 THEN [f EXCEPT !.pkt = f.rx, !.rx = 0] ELSE f
           g == TakePacket(f)
<1>1. f.prod \in Nat /\ f.pkt \in Nat /\ f.rx \in Nat /\ f.cons \in Nat
  BY DEF Firmware
<1>2. g = IF h.pkt > 0 /\ U_BUF_SZ - (h.prod - h.cons) >= h.pkt
          THEN [h EXCEPT !.prod = h.prod + h.pkt, !.pkt = 0] ELSE h
  BY DEF TakePacket
<1>3. /\ h \in Firmware /\ h.prod = f.prod /\ h.pkt + h.rx = f.pkt + f.rx /\ h.rx \in {0, f.rx}
      /\ h = [f EXCEPT !.prod = h.prod, !.pkt = h.pkt, !.rx = h.rx]
  <2>1. CASE f.rx > 0 /\ f.pkt = 0
    <3>1. h = [f EXCEPT !.pkt = f.rx, !.rx = 0]
      BY <2>1
    <3> HIDE DEF h
    <3>2. h \in Firmware /\ h.prod = f.prod /\ h.pkt = f.rx /\ h.rx = 0
      BY <1>1, <3>1 DEF Firmware
    <3>3. h = [f EXCEPT !.prod = h.prod, !.pkt = h.pkt, !.rx = h.rx]
      BY <3>1, <3>2 DEF Firmware
    <3> QED BY <1>1, <2>1, <3>2, <3>3
  <2>2. CASE ~(f.rx > 0 /\ f.pkt = 0)
    <3>1. h = f
      BY <2>2
    <3> HIDE DEF h
    <3>2. f = [f EXCEPT !.prod = f.prod, !.pkt = f.pkt, !.rx = f.rx]
      BY DEF Firmware
    <3> QED BY <3>1, <3>2
  <2> QED BY <2>1, <2>2
<1> HIDE DEF h
<1>4. h.prod \in Nat /\ h.pkt \in Nat /\ h.rx \in Nat
  BY <1>3 DEF Firmware
<1>5. g = h \/ g = [h EXCEPT !.prod = h.prod + h.pkt, !.pkt = 0]
  BY <1>2
<1> HIDE DEF g
<1>6. CASE g = h
  <2>1. g \in Firmware /\ g.rx \in {0, f.rx} /\ g = [f EXCEPT !.prod = g.prod, !.pkt = g.pkt, !.rx = g.rx]
    BY <1>3, <1>6
  <2>2. g.prod = f.prod /\ g.pkt + g.rx = f.pkt + f.rx /\ g.pkt \in Nat /\ g.rx \in Nat
    BY <1>3, <1>4, <1>6
  <2>3. g.prod >= f.prod /\ g.prod + g.pkt + g.rx = f.prod + f.pkt + f.rx
    BY <1>1, <2>2
  <2> QED BY <2>1, <2>3 DEF g
<1>7. CASE g = [h EXCEPT !.prod = h.prod + h.pkt, !.pkt = 0]
  <2>1. h.prod + h.pkt \in Nat
    BY <1>4
  <2>2. g.prod = h.prod + h.pkt /\ g.pkt = 0 /\ g.rx = h.rx
    BY <1>3, <1>7 DEF Firmware
  <2>3. g \in Firmware
    BY <1>3, <1>7, <2>1 DEF Firmware
  <2>4. g = [f EXCEPT !.prod = g.prod, !.pkt = g.pkt, !.rx = g.rx]
    <3>1. g = [[f EXCEPT !.prod = h.prod, !.pkt = h.pkt, !.rx = h.rx]
                EXCEPT !.prod = h.prod + h.pkt, !.pkt = 0]
      BY <1>3, <1>7
    <3>2. g = [f EXCEPT !.prod = h.prod + h.pkt, !.pkt = 0, !.rx = h.rx]
      BY <3>1 DEF Firmware
    <3> QED BY <2>2, <3>2
  <2>5. g.prod >= f.prod /\ g.prod + g.pkt + g.rx = f.prod + f.pkt + f.rx
    BY <1>1, <1>3, <1>4, <2>2
  <2>6. g.rx \in {0, f.rx}
    BY <1>3, <2>2
  <2> QED BY <2>3, <2>4, <2>5, <2>6 DEF g
<1> QED BY <1>5, <1>6, <1>7

\* What is decoded of a stream leaves the last tokens of the stream, and takes its time.
LEMMA DecodedIsTimed ==
  ASSUME NEW f \in Firmware, NEW total \in Nat, NEW nr \in Nat, f.cons <= f.prod,
         Remains(f.toks, f.cons, f.fin, total), NEW d \in Decoded(f, nr)
  PROVE  Decodes(d, total, f.ticks, f.prod, nr)
<1> DEFINE start == [toks |-> f.toks, cons |-> f.cons, prod |-> f.prod, ticks |-> f.ticks,
                     mode |-> f.mode, period |-> f.period, fin |-> f.fin, stop |-> FALSE,
                     error |-> FALSE, pulses |-> <<>>, read |-> 0]
<1>1. /\ f.toks \in Seq(Token) /\ f.cons \in Nat /\ f.prod \in Nat /\ f.ticks \in Nat
      /\ f.mode \in Modes /\ f.period \in Nat
  BY DEF Firmware
<1>2. f.fin \in BOOLEAN
  BY DEF Firmware
<1>3. <<>> \in Seq(Nat) /\ Len(<<>>) = 0 /\ Total(<<>>) = 0
  BY TotalSmall, EmptySeq
<1>4. start \in Decoder
  BY <1>1, <1>2, <1>3 DEF Decoder
<1>5. Timed(start, f.ticks)
  <2>1. start.pulses = <<>> /\ start.ticks = f.ticks /\ start.read = 0
    OBVIOUS
  <2> HIDE DEF start
  <2>2. Total(start.pulses) + start.ticks = start.read + f.ticks
    BY <1>1, <1>3, <2>1
  <2> QED BY <2>2 DEF Timed
<1>6. Decodes(start, total, f.ticks, f.prod, nr)
  <2>1. start.prod = f.prod /\ start.cons <= f.prod /\ Remains(start.toks, start.cons, start.fin, total)
    OBVIOUS
  <2>2. Len(start.pulses) <= nr
    BY <1>3
  <2> QED BY <1>4, <1>5, <2>1, <2>2 DEF Decodes
<1>7. d \in Turns(start, nr)
  BY DEF Decoded
<1> HIDE DEF start
<1> QED BY <1>1, <1>6, <1>7, DecodedKeeps

\* What the firmware is after decoding: what the decoder has left, and in the state it was
\* in, or draining the stream because of a bad opcode, with the gate closed.
AfterDecoding(g, f, d, kept) ==
  /\ g \in Firmware
  /\ g.toks = d.toks /\ g.cons = d.cons /\ g.fin = d.fin /\ g.ticks = d.ticks /\ g.mode = d.mode
  /\ g.prod = f.prod /\ g.pkt = f.pkt /\ g.rx = f.rx /\ g.total = f.total /\ g.tx = f.tx
  /\ g.dma = IF kept THEN f.dma \o d.pulses ELSE f.dma
  /\ \/ g.state = f.state /\ g.status = f.status /\ g.gate = f.gate
     \/ g.state = "drain" /\ g.status = "badCommand" /\ ~g.gate

LEMMA AfterKeeps ==
  ASSUME NEW f \in Firmware, NEW d \in Decoder, NEW kept \in BOOLEAN
  PROVE  AfterDecoding(After(f, d, kept), f, d, kept)
<1> DEFINE dma == IF kept THEN f.dma \o d.pulses ELSE f.dma
           g == [f EXCEPT !.toks = d.toks, !.cons = d.cons, !.ticks = d.ticks, !.mode = d.mode,
                          !.period = d.period, !.fin = d.fin, !.dma = dma]
           r == IF d.error
                THEN [[g EXCEPT !.gate = FALSE] EXCEPT !.status = "badCommand", !.state = "drain"]
                ELSE g
<1>1. After(f, d, kept) = r
  BY DEF After, FluxEnd
<1>2. f.dma \in Seq(Nat) /\ d.pulses \in Seq(Nat)
  BY DEF Firmware, Decoder
<1>3. dma \in Seq(Nat)
  BY <1>2, ConcatProperties
<1>4. /\ d.toks \in Seq(Token) /\ d.cons \in Nat /\ d.ticks \in Nat /\ d.mode \in Modes
      /\ d.period \in Nat
  BY DEF Decoder
<1>5. d.fin \in BOOLEAN
  BY DEF Decoder
<1> HIDE DEF dma
<1>6. g \in Firmware
  BY <1>3, <1>4, <1>5 DEF Firmware
<1>7. /\ g.toks = d.toks /\ g.cons = d.cons /\ g.ticks = d.ticks /\ g.dma = dma /\ g.mode = d.mode
      /\ g.prod = f.prod /\ g.pkt = f.pkt /\ g.rx = f.rx /\ g.total = f.total /\ g.tx = f.tx
      /\ g.state = f.state /\ g.status = f.status
  BY DEF Firmware
<1>8. g.fin = d.fin /\ g.gate = f.gate
  BY DEF Firmware
<1> HIDE DEF g
<1>9. CASE ~d.error
  <2>1. r = g
    BY <1>9
  <2> HIDE DEF r
  <2> QED BY <1>1, <1>6, <1>7, <1>8, <2>1 DEF AfterDecoding, dma
<1>10. CASE d.error
  <2>1. r = [g EXCEPT !.gate = FALSE, !.status = "badCommand", !.state = "drain"]
    BY <1>6, <1>10 DEF Firmware
  <2> HIDE DEF r
  <2>2. r \in Firmware
    BY <1>6, <2>1 DEF Firmware, Status, Flowing, Writing
  <2>3. /\ r.toks = g.toks /\ r.cons = g.cons /\ r.ticks = g.ticks /\ r.dma = g.dma /\ r.mode = g.mode
        /\ r.prod = g.prod /\ r.pkt = g.pkt /\ r.rx = g.rx /\ r.total = g.total /\ r.tx = g.tx
        /\ r.state = "drain" /\ r.status = "badCommand"
    BY <1>6, <2>1 DEF Firmware
  <2>4. r.fin = g.fin /\ ~r.gate
    BY <1>6, <2>1 DEF Firmware
  <2> QED BY <1>1, <1>7, <1>8, <2>2, <2>3, <2>4 DEF AfterDecoding, dma
<1> QED BY <1>9, <1>10

\* The firmware that has decoded what has come of its stream.
Filled(g, f, d) ==
  /\ g \in Firmware
  /\ g.total = f.total /\ Remains(g.toks, g.cons, g.fin, g.total) /\ g.cons <= g.prod
  /\ g.prod + g.pkt + g.rx = f.prod + f.pkt + f.rx /\ g.rx \in {0, f.rx} /\ g.tx = f.tx
  /\ Len(g.dma) < DmaSize
  /\ \/ g.state = f.state /\ g.status = f.status /\ g.gate = f.gate
     \/ g.state = "drain" /\ g.status = "badCommand" /\ ~g.gate

LEMMA FillHolds ==
  ASSUME NEW f \in Firmware, f.cons <= f.prod, Remains(f.toks, f.cons, f.fin, f.total),
         Len(f.dma) < DmaSize, NEW kept \in BOOLEAN,
         NEW d \in Decoded(TakePacket(f), IF kept THEN Room(TakePacket(f)) ELSE DmaSize)
  PROVE  LET g == After(TakePacket(f), d, kept)
         IN /\ Filled(g, f, d) /\ Made(d) \in Nat /\ d.read \in Nat
            /\ Made(d) + g.ticks = d.read + f.ticks
            /\ kept => Total(g.dma) = Total(f.dma) + Made(d)
<1> DEFINE h == TakePacket(f)
           nr == IF kept THEN Room(h) ELSE DmaSize
           g == After(h, d, kept)
<1>1. /\ h \in Firmware /\ h.prod >= f.prod /\ h.prod + h.pkt + h.rx = f.prod + f.pkt + f.rx
      /\ h.rx \in {0, f.rx} /\ h = [f EXCEPT !.prod = h.prod, !.pkt = h.pkt, !.rx = h.rx]
  BY TakePacketKeeps
<1> HIDE DEF h
<1>2. /\ h.toks = f.toks /\ h.cons = f.cons /\ h.total = f.total /\ h.ticks = f.ticks
      /\ h.dma = f.dma /\ h.tx = f.tx /\ h.state = f.state /\ h.status = f.status
  BY <1>1 DEF Firmware
<1>3. h.fin = f.fin /\ h.gate = f.gate
  BY <1>1 DEF Firmware
<1>4. /\ f.cons \in Nat /\ f.prod \in Nat /\ h.prod \in Nat /\ f.total \in Nat /\ f.ticks \in Nat
      /\ f.dma \in Seq(Nat) /\ Len(f.dma) \in Nat
  BY <1>1, LenProperties DEF Firmware
<1>5. nr \in Nat /\ (kept => nr = DmaSize - 1 - Len(f.dma))
  <2>1. DmaSize \in Nat \ {0}
    BY StreamsAssumption
  <2>2. Room(h) = DmaSize - 1 - Len(f.dma)
    BY <1>2 DEF Room
  <2>3. DmaSize - 1 - Len(f.dma) \in Nat
    BY <1>4, <2>1
  <2> HIDE DEF h
  <2>4. CASE kept
    BY <2>2, <2>3, <2>4
  <2>5. CASE ~kept
    BY <2>1, <2>5
  <2> QED BY <2>4, <2>5
<1> HIDE DEF nr
<1>6. h.cons <= h.prod /\ Remains(h.toks, h.cons, h.fin, f.total)
  <2>1. h.cons <= h.prod
    BY <1>1, <1>2, <1>4
  <2> QED BY <1>2, <1>3, <2>1
<1>7. d \in Decoded(h, nr)
  BY DEF h, nr
<1>8. Decodes(d, f.total, h.ticks, h.prod, nr)
  BY <1>1, <1>4, <1>5, <1>6, <1>7, DecodedIsTimed
<1>9. /\ d \in Decoder /\ d.cons <= h.prod /\ Remains(d.toks, d.cons, d.fin, f.total)
      /\ Timed(d, f.ticks) /\ Len(d.pulses) <= nr
  BY <1>2, <1>8 DEF Decodes
<1>10. AfterDecoding(g, h, d, kept)
  BY <1>1, <1>9, AfterKeeps
<1> HIDE DEF g
<1>11. /\ g \in Firmware /\ g.toks = d.toks /\ g.cons = d.cons /\ g.ticks = d.ticks
       /\ g.prod = h.prod /\ g.pkt = h.pkt /\ g.rx = h.rx /\ g.total = f.total /\ g.tx = f.tx
       /\ g.dma = IF kept THEN f.dma \o d.pulses ELSE f.dma
  BY <1>2, <1>10 DEF AfterDecoding
<1>12. g.fin = d.fin
  BY <1>10 DEF AfterDecoding
<1>13. \/ g.state = f.state /\ g.status = f.status /\ g.gate = f.gate
       \/ g.state = "drain" /\ g.status = "badCommand" /\ ~g.gate
  <2>1. \/ g.state = h.state /\ g.status = h.status /\ g.gate = h.gate
        \/ g.state = "drain" /\ g.status = "badCommand" /\ ~g.gate
    BY <1>10 DEF AfterDecoding
  <2> QED BY <1>2, <1>3, <2>1
<1>14. d.pulses \in Seq(Nat) /\ d.read \in Nat /\ d.ticks \in Nat /\ Len(d.pulses) \in Nat
  BY <1>9, LenProperties DEF Decoder
<1>15. Len(g.dma) < DmaSize
  <2>1. CASE kept
    <3>1. Len(g.dma) = Len(f.dma) + Len(d.pulses)
      BY <1>4, <1>11, <1>14, <2>1, ConcatProperties
    <3>2. nr = DmaSize - 1 - Len(f.dma) /\ Len(d.pulses) <= nr
      BY <1>5, <1>9, <2>1
    <3>3. DmaSize \in Nat
      BY StreamsAssumption
    <3>4. \A a, b, size \in Nat : b <= size - 1 - a => a + b < size
      OBVIOUS
    <3> HIDE DEF g
    <3>5. Len(d.pulses) <= DmaSize - 1 - Len(f.dma)
      BY <3>2
    <3>6. Len(f.dma) + Len(d.pulses) < DmaSize
      BY <1>4, <1>14, <3>3, <3>4, <3>5
    <3> QED BY <3>1, <3>6
  <2>2. CASE ~kept
    BY <1>11, <2>2
  <2> QED BY <2>1, <2>2
<1>16. Made(d) = Total(d.pulses) /\ Made(d) \in Nat
  BY <1>14, TotalType DEF Made
<1>17. Made(d) + g.ticks = d.read + f.ticks
  BY <1>9, <1>11, <1>16 DEF Timed
<1>18. ASSUME kept PROVE Total(g.dma) = Total(f.dma) + Made(d)
  BY <1>4, <1>11, <1>14, <1>16, <1>18, TotalConcat
<1>19. Filled(g, f, d)
  <2>1. Remains(g.toks, g.cons, g.fin, g.total)
    BY <1>9, <1>11, <1>12
  <2>2. g.cons <= g.prod /\ g.prod + g.pkt + g.rx = f.prod + f.pkt + f.rx /\ g.rx \in {0, f.rx}
    BY <1>1, <1>9, <1>11
  <2> QED BY <1>11, <1>13, <1>15, <2>1, <2>2 DEF Filled
<1>20. /\ Filled(g, f, d) /\ Made(d) \in Nat /\ d.read \in Nat
       /\ Made(d) + g.ticks = d.read + f.ticks
       /\ kept => Total(g.dma) = Total(f.dma) + Made(d)
  BY <1>14, <1>16, <1>17, <1>18, <1>19
<1> QED BY <1>20 DEF g, h

-----------------------------------------------------------------------------
(* The steps of a write. *)

\* The states in which a stream flows, and what is known in them.
LEMMA FlowingHolds ==
  ASSUME StreamInv, fw.state \in Flowing
  PROVE  /\ fw \in Firmware /\ host \in HostSide /\ seen \in History
         /\ Flows(fw, host) /\ Pulsed(fw, seen)
         /\ host.op = "write" /\ host.stage # "idle" /\ ~seen.late /\ ~seen.ran /\ fw.tx = Ack
         /\ fw.gate => fw.state = "write"
<1>1. fw.state # "wait" /\ fw.state # "erase"
  BY DEF Flowing, Writing
<1>2. fw \in Firmware /\ host \in HostSide /\ seen \in History
  BY DEF StreamInv, StreamTypes
<1>3. host.op = "write" /\ host.stage # "idle" /\ ~seen.late
  BY <1>1 DEF StreamInv, AtWork
<1>4. fw.tx = Ack
  BY <1>1, <1>3 DEF StreamInv, Answered
<1>5. ~seen.ran /\ (fw.gate => fw.state = "write")
  BY <1>1, <1>3 DEF StreamInv, NothingLeftToRun
<1>6. Flows(fw, host) /\ Pulsed(fw, seen)
  BY DEF StreamInv, StreamKnown, PulsesKnown
<1> QED BY <1>2, <1>3, <1>4, <1>5, <1>6

LEMMA StreamGoesOn ==
  ASSUME StreamInv, fw.state \in Flowing, host' = host,
         fw' \in Firmware, fw'.state \in Flowing, fw'.total = fw.total,
         Remains(fw'.toks, fw'.cons, fw'.fin, fw'.total), fw'.cons <= fw'.prod,
         fw'.prod + fw'.pkt + fw'.rx = fw.prod + fw.pkt + fw.rx, fw'.rx \in {0, fw.rx},
         fw'.tx = fw.tx, Len(fw'.dma) < DmaSize, fw'.gate => fw'.state = "write",
         Pulsed(fw', seen'), seen' \in History, seen'.late = seen.late, seen'.ran = seen.ran
  PROVE  StreamInv'
<1>1. /\ fw \in Firmware /\ host \in HostSide /\ seen \in History
      /\ Flows(fw, host) /\ Pulsed(fw, seen)
      /\ host.op = "write" /\ host.stage # "idle" /\ ~seen.late /\ ~seen.ran /\ fw.tx = Ack
  BY FlowingHolds
<1>2. fw'.state \notin {"wait", "erase", "sink", "source"}
  BY DEF Flowing, Writing
<1>3. StreamTypes'
  BY <1>1 DEF StreamTypes
<1>4. StreamKnown'
  BY <1>1 DEF StreamKnown, Flows
<1>5. PulsesKnown'
  BY DEF PulsesKnown
<1>6. SentKnown'
  <2>1. SentKnown
    BY DEF StreamInv
  <2> QED BY <1>2, <2>1 DEF SentKnown
<1>7. AtWork'
  BY <1>1, <1>2 DEF AtWork
<1>8. Answered'
  BY <1>1, <1>2 DEF Answered, Ack
<1>9. SourceKnown'
  BY <1>1 DEF SourceKnown
<1>10. NothingLeftToRun'
  BY <1>1 DEF NothingLeftToRun
<1>11. Balanced'
  BY <1>1 DEF Balanced
<1> QED BY <1>3, <1>4, <1>5, <1>6, <1>7, <1>8, <1>9, <1>10, <1>11 DEF StreamInv

\* What a state that writes begins with.
LEMMA FillKeeps ==
  ASSUME StreamInv, fw.state \in {"waitData", "write"}, NEW r \in Fill
  PROVE  /\ Filled(r.fw, fw, r.decoded)
         /\ Made(r.decoded) \in Nat /\ r.decoded.read \in Nat
         /\ seen.made + Made(r.decoded) + r.fw.ticks = seen.read + r.decoded.read
         /\ seen.out + Total(r.fw.dma) = seen.made + Made(r.decoded)
         /\ fw.status = "okay" /\ r.fw.ticks \in Nat
<1>1. PICK d \in Decoded(TakePacket(fw), Room(TakePacket(fw))) :
        r = [decoded |-> d, fw |-> After(TakePacket(fw), d, TRUE)]
  BY DEF Fill
<1>2. /\ fw \in Firmware /\ seen \in History /\ Flows(fw, host) /\ Pulsed(fw, seen)
  BY FlowingHolds DEF Flowing, Writing
<1>3. /\ fw.cons <= fw.prod /\ Remains(fw.toks, fw.cons, fw.fin, fw.total) /\ Len(fw.dma) < DmaSize
  BY <1>2 DEF Flows
<1>4. fw.status = "okay" /\ seen.made + fw.ticks = seen.read /\ seen.out + Total(fw.dma) = seen.made
  BY <1>2 DEF Pulsed, Writing
<1>5. r.decoded = d /\ r.fw = After(TakePacket(fw), d, TRUE)
  BY <1>1
<1> DEFINE g == After(TakePacket(fw), d, TRUE)
<1>6. /\ Filled(g, fw, d) /\ Made(d) \in Nat /\ d.read \in Nat
      /\ Made(d) + g.ticks = d.read + fw.ticks
      /\ Total(g.dma) = Total(fw.dma) + Made(d)
  <2>1. d \in Decoded(TakePacket(fw), IF TRUE THEN Room(TakePacket(fw)) ELSE DmaSize)
    OBVIOUS
  <2> QED BY <1>2, <1>3, <2>1, FillHolds
<1> HIDE DEF g
<1>7. g.ticks \in Nat /\ Total(fw.dma) \in Nat
  <2>1. g \in Firmware /\ fw.dma \in Seq(Nat)
    BY <1>2, <1>6 DEF Filled, Firmware
  <2> QED BY <2>1, TotalType DEF Firmware
<1>8. seen.made \in Nat /\ seen.read \in Nat /\ seen.out \in Nat /\ fw.ticks \in Nat
  BY <1>2 DEF History, Firmware
<1>9. seen.made + Made(d) + g.ticks = seen.read + d.read
  BY <1>4, <1>6, <1>7, <1>8
<1>10. seen.out + Total(g.dma) = seen.made + Made(d)
  BY <1>4, <1>6, <1>7, <1>8
<1>11. /\ Filled(g, fw, d) /\ Made(d) \in Nat /\ d.read \in Nat /\ fw.status = "okay" /\ g.ticks \in Nat
  BY <1>4, <1>6, <1>7
<1> QED BY <1>5, <1>9, <1>10, <1>11 DEF g

\* The firmware that has filled its ring, in a state of the write and with other flags.
LEMMA FilledGoesOn ==
  ASSUME StreamInv, fw.state \in {"waitData", "write"}, host' = host, NEW r \in Fill, NEW cut \in BOOLEAN,
         Count(r.decoded, cut), fw' \in Firmware,
         fw' = [r.fw EXCEPT !.state = fw'.state, !.status = fw'.status, !.gate = fw'.gate,
                            !.idx = fw'.idx],
         fw'.state \in Flowing, fw'.gate => fw'.state = "write",
         fw'.state \in Writing => fw'.status = "okay",
         fw'.state = "drain" /\ fw'.status = "okay" => cut \/ r.fw.dma = <<>>
  PROVE  StreamInv'
<1> DEFINE g == r.fw
           made == Made(r.decoded)
<1>1. /\ Filled(g, fw, r.decoded)
      /\ made \in Nat /\ r.decoded.read \in Nat /\ g.ticks \in Nat
      /\ seen.made + made + g.ticks = seen.read + r.decoded.read
      /\ seen.out + Total(g.dma) = seen.made + made
  BY FillKeeps
<1>2. /\ g \in Firmware /\ g.total = fw.total /\ Remains(g.toks, g.cons, g.fin, g.total)
      /\ g.cons <= g.prod /\ g.prod + g.pkt + g.rx = fw.prod + fw.pkt + fw.rx /\ g.rx \in {0, fw.rx}
      /\ g.tx = fw.tx /\ Len(g.dma) < DmaSize
  BY <1>1 DEF Filled
<1>3. seen \in History /\ fw.state \in Flowing
  BY FlowingHolds DEF Flowing, Writing
<1>4. seen' = [seen EXCEPT !.made = seen.made + made, !.read = seen.read + r.decoded.read,
                           !.cut = seen.cut \/ cut]
  BY DEF Count
<1> HIDE DEF made
<1>5. /\ seen'.made = seen.made + made /\ seen'.read = seen.read + r.decoded.read /\ seen'.out = seen.out
      /\ seen'.late = seen.late /\ seen'.ran = seen.ran
  BY <1>3, <1>4 DEF History
<1>6. seen'.cut <=> seen.cut \/ cut
  BY <1>3, <1>4 DEF History
<1>7. seen' \in History
  <2>1. seen.made + made \in Nat /\ seen.read + r.decoded.read \in Nat
    BY <1>1, <1>3 DEF History
  <2>2. (seen.cut \/ cut) \in BOOLEAN
    OBVIOUS
  <2> QED BY <1>3, <1>4, <2>1, <2>2 DEF History
<1> HIDE DEF g
<1>8. fw' = [g EXCEPT !.state = fw'.state, !.status = fw'.status, !.gate = fw'.gate, !.idx = fw'.idx]
  BY DEF g
<1>9. /\ fw'.toks = g.toks /\ fw'.cons = g.cons /\ fw'.total = g.total /\ fw'.prod = g.prod
      /\ fw'.pkt = g.pkt /\ fw'.rx = g.rx /\ fw'.tx = g.tx /\ fw'.dma = g.dma /\ fw'.ticks = g.ticks
  BY <1>2, <1>8 DEF Firmware
<1>10. fw'.fin = g.fin
  BY <1>2, <1>8 DEF Firmware
<1>11. Pulsed(fw', seen')
  <2>1. seen'.made + fw'.ticks = seen'.read /\ seen'.out + Total(fw'.dma) = seen'.made
    BY <1>1, <1>5, <1>9
  <2>2. ASSUME fw'.state = "drain", fw'.status = "okay" PROVE Whole(seen')
    <3>1. CASE cut
      BY <1>6, <3>1 DEF Whole
    <3>2. CASE g.dma = <<>>
      <4>1. Total(fw'.dma) = 0
        BY <1>9, <3>2, TotalSmall
      <4>2. seen'.out \in Nat
        BY <1>7 DEF History
      <4> QED BY <2>1, <4>1, <4>2 DEF Whole
    <3> QED BY <2>2, <3>1, <3>2 DEF g
  <2> QED BY <2>1, <2>2 DEF Pulsed
<1>12. Remains(fw'.toks, fw'.cons, fw'.fin, fw'.total)
  BY <1>2, <1>9, <1>10
<1> QED BY <1>2, <1>3, <1>5, <1>7, <1>9, <1>11, <1>12, StreamGoesOn

LEMMA WaitDataKeeps ==
  ASSUME StreamInv, WaitData
  PROVE  StreamInv'
<1>1. fw.state = "waitData" /\ host' = host
  BY DEF WaitData
<1>2. PICK r \in Fill :
        LET g        == r.fw
            finished == IF g.cons = g.prod THEN g.fin ELSE EndIsThere(g)
            full     == Room(g) = 0 /\ g.prod - g.cons >= U_BUF_SZ - Mps
        IN  /\ fw' = IF g.status = "okay" /\ (full \/ finished)
                     THEN [g EXCEPT !.state = "waitIndex", !.idx = FALSE] ELSE g
            /\ Count(r.decoded, FALSE)
  BY DEF WaitData
<1> DEFINE g == r.fw
<1>3. g \in Firmware
      /\ \/ g.state = fw.state /\ g.status = fw.status /\ g.gate = fw.gate
         \/ g.state = "drain" /\ g.status = "badCommand" /\ ~g.gate
  BY <1>1, FillKeeps DEF Filled
<1>4. fw.status = "okay" /\ ~fw.gate
  BY <1>1, FillKeeps, FlowingHolds DEF Flowing, Writing
<1>5. Count(r.decoded, FALSE)
      /\ (fw' = g \/ (g.status = "okay" /\ fw' = [g EXCEPT !.state = "waitIndex", !.idx = FALSE]))
  BY <1>2
<1> HIDE DEF g
<1>6. CASE fw' = g
  <2>1. fw' = [g EXCEPT !.state = fw'.state, !.status = fw'.status, !.gate = fw'.gate, !.idx = fw'.idx]
    BY <1>3, <1>6 DEF Firmware
  <2>2. fw' \in Firmware /\ fw'.state \in Flowing /\ ~fw'.gate
    BY <1>1, <1>3, <1>4, <1>6 DEF Flowing, Writing
  <2>3. fw'.state \in Writing => fw'.status = "okay"
    BY <1>1, <1>3, <1>4, <1>6 DEF Writing
  <2>4. ~(fw'.state = "drain" /\ fw'.status = "okay")
    BY <1>1, <1>3, <1>6
  <2> QED BY <1>1, <1>5, <2>1, <2>2, <2>3, <2>4, FilledGoesOn DEF g
<1>7. CASE g.status = "okay" /\ fw' = [g EXCEPT !.state = "waitIndex", !.idx = FALSE]
  <2>1. fw' = [g EXCEPT !.state = fw'.state, !.status = fw'.status, !.gate = fw'.gate, !.idx = fw'.idx]
    BY <1>3, <1>7 DEF Firmware
  <2>2. fw' \in Firmware /\ fw'.state = "waitIndex" /\ fw'.status = "okay"
    BY <1>3, <1>7 DEF Firmware, Flowing, Writing
  <2>3. fw'.gate = g.gate
    BY <1>3, <1>7 DEF Firmware
  <2>4. ~fw'.gate /\ fw'.state \in Flowing
    BY <1>3, <1>4, <2>2, <2>3 DEF Flowing, Writing
  <2> QED BY <1>1, <1>5, <2>1, <2>2, <2>4, FilledGoesOn DEF g
<1> QED BY <1>5, <1>6, <1>7

LEMMA WriteKeeps ==
  ASSUME StreamInv, Write
  PROVE  StreamInv'
<1>1. fw.state = "write" /\ host' = host
  BY DEF Write
<1>2. PICK r \in Fill :
       LET g    == r.fw
           stop == g.status = "okay" /\ g.term /\ g.idx
           done == [FluxEnd(g) EXCEPT !.state = "drain"]
       IN  /\ fw' = IF g.status # "okay" THEN g
                    ELSE IF stop \/ RingDrained(g) THEN done
                    ELSE IF ~g.fin /\ Underflow(g) THEN [done EXCEPT !.status = "underflow"]
                    ELSE g
           /\ Count(r.decoded, stop)
  BY DEF Write
<1> DEFINE g == r.fw
           stop == g.status = "okay" /\ g.term /\ g.idx
           done == [[g EXCEPT !.gate = FALSE] EXCEPT !.state = "drain"]
<1>3. g \in Firmware
      /\ \/ g.state = fw.state /\ g.status = fw.status /\ g.gate = fw.gate
         \/ g.state = "drain" /\ g.status = "badCommand" /\ ~g.gate
  BY <1>1, FillKeeps DEF Filled
<1>4. fw.status = "okay"
  BY <1>1, FillKeeps
<1>5. Count(r.decoded, stop) /\ stop \in BOOLEAN
  BY <1>2
<1>6. \/ fw' = g
      \/ g.status = "okay" /\ (stop \/ RingDrained(g)) /\ fw' = done
      \/ fw' = [done EXCEPT !.status = "underflow"]
  BY <1>2 DEF FluxEnd
<1> HIDE DEF g, stop
<1>7. done \in Firmware /\ done.state = "drain" /\ done.status = g.status /\ ~done.gate
      /\ done = [g EXCEPT !.state = done.state, !.status = done.status, !.gate = done.gate, !.idx = done.idx]
  <2>1. done = [g EXCEPT !.gate = FALSE, !.state = "drain"]
    BY <1>3 DEF Firmware
  <2> HIDE DEF done
  <2>2. done \in Firmware /\ done.state = "drain" /\ done.status = g.status
    BY <1>3, <2>1 DEF Firmware, Flowing, Writing
  <2>3. ~done.gate
    BY <1>3, <2>1 DEF Firmware
  <2>4. done.idx = g.idx
    BY <1>3, <2>1 DEF Firmware
  <2>5. done = [g EXCEPT !.state = done.state, !.status = done.status, !.gate = done.gate, !.idx = done.idx]
    <3>1. [g EXCEPT !.state = "drain", !.status = g.status, !.gate = FALSE, !.idx = g.idx]
           = [g EXCEPT !.gate = FALSE, !.state = "drain"]
      BY <1>3 DEF Firmware
    <3>2. done.gate = FALSE
      BY <1>3, <2>1 DEF Firmware
    <3> QED BY <2>1, <2>2, <2>4, <3>1, <3>2
  <2> QED BY <2>2, <2>3, <2>5
<1> HIDE DEF done
<1>8. CASE fw' = g
  <2>1. fw' = [g EXCEPT !.state = fw'.state, !.status = fw'.status, !.gate = fw'.gate, !.idx = fw'.idx]
    BY <1>3, <1>8 DEF Firmware
  <2>2. fw' \in Firmware /\ fw'.state \in Flowing
    BY <1>1, <1>3, <1>8 DEF Flowing, Writing
  <2>3. fw'.gate => fw'.state = "write"
    BY <1>1, <1>3, <1>8
  <2>4. fw'.state \in Writing => fw'.status = "okay"
    BY <1>1, <1>3, <1>4, <1>8 DEF Writing
  <2>5. ~(fw'.state = "drain" /\ fw'.status = "okay")
    BY <1>1, <1>3, <1>8
  <2> QED BY <1>1, <1>5, <2>1, <2>2, <2>3, <2>4, <2>5, FilledGoesOn DEF g
<1>9. CASE g.status = "okay" /\ (stop \/ RingDrained(g)) /\ fw' = done
  <2>1. fw' = [g EXCEPT !.state = fw'.state, !.status = fw'.status, !.gate = fw'.gate, !.idx = fw'.idx]
    BY <1>7, <1>9
  <2>2. fw' \in Firmware /\ fw'.state \in Flowing /\ ~fw'.gate /\ fw'.state \notin Writing
    BY <1>7, <1>9 DEF Flowing, Writing
  <2>3. stop \/ g.dma = <<>>
    BY <1>9 DEF RingDrained
  <2> QED BY <1>1, <1>5, <2>1, <2>2, <2>3, FilledGoesOn DEF g
<1>10. CASE fw' = [done EXCEPT !.status = "underflow"]
  <2>1. fw' \in Firmware /\ fw'.state = "drain" /\ fw'.status = "underflow"
    BY <1>7, <1>10 DEF Firmware, Status
  <2>2. ~fw'.gate /\ fw'.idx = done.idx /\ fw'.gate = done.gate
    BY <1>7, <1>10 DEF Firmware
  <2>3. fw' = [g EXCEPT !.state = "drain", !.status = "underflow", !.gate = done.gate, !.idx = done.idx]
    <3>1. done = [g EXCEPT !.state = "drain", !.status = g.status, !.gate = done.gate, !.idx = done.idx]
      BY <1>7
    <3> QED BY <1>3, <1>10, <3>1 DEF Firmware
  <2>4. fw' = [g EXCEPT !.state = fw'.state, !.status = fw'.status, !.gate = fw'.gate, !.idx = fw'.idx]
    BY <2>1, <2>2, <2>3
  <2>5. fw'.state \in Flowing /\ fw'.state \notin Writing
    BY <2>1 DEF Flowing, Writing
  <2> QED BY <1>1, <1>5, <2>1, <2>2, <2>4, <2>5, FilledGoesOn DEF g
<1> QED BY <1>6, <1>8, <1>9, <1>10

LEMMA WaitIndexKeeps ==
  ASSUME StreamInv, WaitIndex
  PROVE  StreamInv'
<1>1. fw.state = "waitIndex" /\ host' = host /\ seen' = seen
  BY DEF WaitIndex
<1>2. fw.state \in Flowing /\ fw.state \in Writing
  BY <1>1 DEF Flowing, Writing
<1>3. fw \in Firmware /\ Flows(fw, host) /\ Pulsed(fw, seen) /\ seen \in History /\ ~fw.gate
  BY <1>1, <1>2, FlowingHolds
<1>4. \/ fw' = [fw EXCEPT !.gate = TRUE, !.idx = FALSE, !.state = "write"]
      \/ fw' = [[fw EXCEPT !.gate = FALSE] EXCEPT !.status = "noIndex", !.state = "drain"]
  BY DEF WaitIndex, FluxEnd
<1>5. /\ fw' \in Firmware /\ fw'.state \in {"write", "drain"}
      /\ fw'.state = "write" => fw'.status = fw.status
      /\ fw'.state = "drain" => fw'.status = "noIndex"
      /\ fw'.toks = fw.toks /\ fw'.cons = fw.cons /\ fw'.total = fw.total /\ fw'.prod = fw.prod
      /\ fw'.pkt = fw.pkt /\ fw'.rx = fw.rx /\ fw'.tx = fw.tx /\ fw'.dma = fw.dma /\ fw'.ticks = fw.ticks
  <2>1. "write" \in Flowing /\ "drain" \in Flowing /\ "noIndex" \in Status
    BY DEF Flowing, Writing, Status
  <2>2. CASE fw' = [fw EXCEPT !.gate = TRUE, !.idx = FALSE, !.state = "write"]
    BY <1>3, <2>1, <2>2 DEF Firmware
  <2>3. CASE fw' = [[fw EXCEPT !.gate = FALSE] EXCEPT !.status = "noIndex", !.state = "drain"]
    BY <1>3, <2>1, <2>3 DEF Firmware
  <2> QED BY <1>4, <2>2, <2>3
<1>6. fw'.fin = fw.fin
  BY <1>3, <1>4 DEF Firmware
<1>7. fw'.gate => fw'.state = "write"
  BY <1>3, <1>4 DEF Firmware
<1>8. Pulsed(fw', seen')
  BY <1>1, <1>2, <1>3, <1>5 DEF Pulsed, Writing
<1>9. Remains(fw'.toks, fw'.cons, fw'.fin, fw'.total) /\ fw'.cons <= fw'.prod /\ Len(fw'.dma) < DmaSize
  BY <1>3, <1>5, <1>6 DEF Flows
<1>10. fw'.state \in Flowing
  BY <1>5 DEF Flowing, Writing
<1> QED BY <1>1, <1>2, <1>3, <1>5, <1>7, <1>8, <1>9, <1>10, StreamGoesOn

LEMMA IndexKeeps ==
  ASSUME StreamInv, Index
  PROVE  StreamInv'
<1>1. fw.state \in Flowing /\ host' = host /\ seen' = seen /\ fw' = [fw EXCEPT !.idx = TRUE]
  BY DEF Index, Flowing, Writing
<1>2. fw \in Firmware /\ Flows(fw, host) /\ Pulsed(fw, seen) /\ seen \in History
      /\ (fw.gate => fw.state = "write")
  BY <1>1, FlowingHolds
<1>3. /\ fw' \in Firmware /\ fw'.state = fw.state /\ fw'.status = fw.status
      /\ fw'.toks = fw.toks /\ fw'.cons = fw.cons /\ fw'.total = fw.total /\ fw'.prod = fw.prod
      /\ fw'.pkt = fw.pkt /\ fw'.rx = fw.rx /\ fw'.tx = fw.tx /\ fw'.dma = fw.dma /\ fw'.ticks = fw.ticks
  BY <1>1, <1>2 DEF Firmware
<1>4. fw'.fin = fw.fin /\ fw'.gate = fw.gate
  BY <1>1, <1>2 DEF Firmware
<1>5. Pulsed(fw', seen')
  BY <1>1, <1>2, <1>3 DEF Pulsed
<1>6. Remains(fw'.toks, fw'.cons, fw'.fin, fw'.total) /\ fw'.cons <= fw'.prod /\ Len(fw'.dma) < DmaSize
  BY <1>2, <1>3, <1>4 DEF Flows
<1>7. fw'.gate => fw'.state = "write"
  BY <1>2, <1>3, <1>4
<1> QED BY <1>1, <1>2, <1>3, <1>5, <1>6, <1>7, StreamGoesOn

LEMMA DmaPulseKeeps ==
  ASSUME StreamInv, DmaPulse
  PROVE  StreamInv'
<1>1. /\ fw.state = "write" /\ fw.dma # <<>> /\ host' = host
      /\ fw' = [fw EXCEPT !.dma = Tail(fw.dma)]
      /\ seen' = [seen EXCEPT !.out = seen.out + Head(fw.dma),
                              !.at = seen.at \cup {seen.out + Head(fw.dma)}]
  BY DEF DmaPulse
<1>2. fw.state \in Flowing /\ fw.state \in Writing /\ fw.state # "drain"
  BY <1>1 DEF Flowing, Writing
<1>3. fw \in Firmware /\ Flows(fw, host) /\ Pulsed(fw, seen) /\ seen \in History
  BY <1>2, FlowingHolds
<1>4. fw.dma \in Seq(Nat)
  BY <1>3 DEF Firmware
<1>5. /\ Tail(fw.dma) \in Seq(Nat) /\ Head(fw.dma) \in Nat
      /\ Total(fw.dma) = Head(fw.dma) + Total(Tail(fw.dma)) /\ Total(Tail(fw.dma)) \in Nat
  BY <1>1, <1>4, TotalTail, TotalType
<1>6. Len(Tail(fw.dma)) < DmaSize
  <2>1. Len(fw.dma) \in Nat /\ Len(Tail(fw.dma)) = Len(fw.dma) - 1
    BY <1>1, <1>4, HeadTailProperties, LenProperties
  <2> QED BY <1>3, <2>1, StreamsAssumption DEF Flows
<1>7. /\ fw' \in Firmware /\ fw'.state = fw.state /\ fw'.status = fw.status
      /\ fw'.toks = fw.toks /\ fw'.cons = fw.cons /\ fw'.total = fw.total /\ fw'.prod = fw.prod
      /\ fw'.pkt = fw.pkt /\ fw'.rx = fw.rx /\ fw'.tx = fw.tx /\ fw'.dma = Tail(fw.dma)
      /\ fw'.ticks = fw.ticks
  BY <1>1, <1>3, <1>5 DEF Firmware
<1>8. fw'.fin = fw.fin
  BY <1>1, <1>3 DEF Firmware
<1>9. seen.out \in Nat /\ seen.made \in Nat
  BY <1>3 DEF History
<1>10. /\ seen' \in History /\ seen'.made = seen.made /\ seen'.read = seen.read
       /\ seen'.out = seen.out + Head(fw.dma) /\ seen'.late = seen.late /\ seen'.ran = seen.ran
  <2>1. seen.out + Head(fw.dma) \in Nat /\ seen.at \cup {seen.out + Head(fw.dma)} \in SUBSET Nat
    BY <1>3, <1>5, <1>9 DEF History
  <2> QED BY <1>1, <1>3, <2>1 DEF History
<1>11. Pulsed(fw', seen')
  <2>1. fw.status = "okay" /\ seen.made + fw.ticks = seen.read /\ seen.out + Total(fw.dma) = seen.made
    BY <1>2, <1>3 DEF Pulsed
  <2>2. seen'.out + Total(fw'.dma) = seen'.made
    BY <1>5, <1>7, <1>9, <1>10, <2>1
  <2>3. seen'.made + fw'.ticks = seen'.read
    BY <1>7, <1>10, <2>1
  <2> QED BY <1>2, <1>7, <2>1, <2>2, <2>3 DEF Pulsed
<1>12. Remains(fw'.toks, fw'.cons, fw'.fin, fw'.total) /\ fw'.cons <= fw'.prod /\ Len(fw'.dma) < DmaSize
  BY <1>3, <1>6, <1>7, <1>8 DEF Flows
<1> QED BY <1>1, <1>2, <1>3, <1>7, <1>10, <1>11, <1>12, StreamGoesOn

-----------------------------------------------------------------------------
(* The steps that begin and end a command. *)

LEMMA IdleHolds ==
  /\ Idle \in Firmware /\ Idle.state = "wait" /\ Idle.tx = <<>> /\ Idle.rx = 0 /\ Idle.dma = <<>>
  /\ Idle.toks = <<>> /\ Idle.cons = 0 /\ Idle.prod = 0 /\ Idle.pkt = 0 /\ Idle.ticks = 0
  /\ Idle.status = "okay" /\ Idle.todo = 0
  /\ Idle.gate = FALSE /\ Idle.fin = FALSE
<1>1. <<>> \in Seq(Token) /\ <<>> \in Seq(Nat) /\ <<>> \in Seq(Answer)
  OBVIOUS
<1>2. "wait" \in Flowing \cup {"wait", "erase", "sink", "source"} /\ "okay" \in Status /\ "idle" \in Modes
  BY DEF Status, Modes
<1>3. Idle \in Firmware
  BY <1>1, <1>2 DEF Idle, Firmware
<1>4. Idle.gate = FALSE /\ Idle.fin = FALSE
  BY DEF Idle
<1> QED BY <1>3, <1>4 DEF Idle

LEMMA EndCommandKeeps ==
  ASSUME NEW f \in Firmware, NEW reply \in Answer
  PROVE  LET g == EndCommand(f, reply)
         IN /\ g \in Firmware /\ g.tx = Append(f.tx, reply) /\ g.state = f.state /\ g.rx = f.rx
            /\ g.todo = f.todo /\ g.total = f.total /\ g.gate = f.gate
<1> DEFINE g == EndCommand(f, reply)
<1>1. f.tx \in Seq(Answer)
  BY DEF Firmware
<1>2. Append(f.tx, reply) \in Seq(Answer)
  BY <1>1, AppendProperties
<1>3. g = [f EXCEPT !.tx = Append(f.tx, reply), !.cons = 0, !.prod = 0]
  BY DEF EndCommand
<1> HIDE DEF g
<1>4. g \in Firmware
  BY <1>2, <1>3 DEF Firmware
<1>5. g.gate = f.gate
  BY <1>3 DEF Firmware
<1>6. g.tx = Append(f.tx, reply) /\ g.state = f.state /\ g.rx = f.rx /\ g.todo = f.todo /\ g.total = f.total
  BY <1>3 DEF Firmware
<1> QED BY <1>4, <1>5, <1>6 DEF g

\* The end of a write, an erasure or a sink that leaves nothing of a stream behind.
LEMMA CommandEnds ==
  ASSUME StreamInv, host' = host, seen' = seen, fw.state # "wait", NEW reply \in Status,
         fw' \in Firmware, fw'.state = "wait", fw'.tx = Append(fw.tx, reply), fw'.rx = 0, ~fw'.gate,
         host.op \in {"write", "erase", "sink"}, host.sent = host.total,
         host.op = "write" /\ reply = "okay" => Whole(seen)
  PROVE  StreamInv'
<1>1. host.stage # "idle" /\ ~seen.late /\ ~seen.ran
  BY DEF StreamInv, AtWork, NothingLeftToRun
<1>2. fw.tx = Ack
  BY <1>1 DEF StreamInv, Answered
<1>3. fw'.state \notin Flowing
  BY DEF Flowing, Writing
<1>4. StreamTypes'
  BY DEF StreamInv, StreamTypes
<1>5. StreamKnown' /\ PulsesKnown'
  BY <1>3 DEF StreamKnown, PulsesKnown, Pulsed, Flowing
<1>6. SentKnown'
  <2>1. SentKnown
    BY DEF StreamInv
  <2> QED BY <2>1 DEF SentKnown
<1>7. AtWork'
  BY <1>1, <1>3 DEF StreamInv, AtWork
<1>8. Answered'
  <2>1. Append(Ack, reply) = Ack \o <<reply>>
    BY DEF Ack
  <2>2. Ack' = Ack
    BY DEF Ack
  <2>3. fw'.tx = Ack' \o <<reply>>
    BY <1>2, <2>1, <2>2
  <2>4. Finished'
    BY <2>3 DEF Finished, Whole
  <2> QED BY <1>1, <2>4 DEF Answered
<1>9. SourceKnown' /\ Balanced' /\ NothingLeftToRun'
  BY <1>1 DEF SourceKnown, Balanced, NothingLeftToRun
<1> QED BY <1>4, <1>5, <1>6, <1>7, <1>8, <1>9 DEF StreamInv

LEMMA WriteDrainKeeps ==
  ASSUME StreamInv, WriteDrain
  PROVE  StreamInv'
<1>1. fw.state = "drain" /\ host' = host /\ seen' = seen /\ fw.state \in Flowing
      /\ fw.state \notin Writing /\ fw.state # "wait"
  BY DEF WriteDrain, Flowing, Writing
<1>2. /\ fw \in Firmware /\ host \in HostSide /\ Flows(fw, host) /\ Pulsed(fw, seen) /\ seen \in History
      /\ ~fw.gate /\ host.op = "write"
  BY <1>1, FlowingHolds
<1>3. /\ fw.total = host.total /\ Remains(fw.toks, fw.cons, fw.fin, fw.total)
      /\ fw.cons <= fw.prod /\ fw.prod + fw.pkt + fw.rx = host.sent /\ Len(fw.dma) < DmaSize
  BY <1>2 DEF Flows
<1>4. CASE ~Drained(fw)
  <2>1. PICK d \in Decoded(TakePacket(fw), DmaSize) : fw' = After(TakePacket(fw), d, FALSE)
    BY <1>4 DEF WriteDrain
  <2>2. d \in Decoded(TakePacket(fw), IF FALSE THEN Room(TakePacket(fw)) ELSE DmaSize)
    BY <2>1
  <2>3. Filled(fw', fw, d)
    BY <1>2, <1>3, <2>1, <2>2, FillHolds
  <2>4. /\ fw' \in Firmware /\ fw'.total = fw.total /\ Remains(fw'.toks, fw'.cons, fw'.fin, fw'.total)
        /\ fw'.cons <= fw'.prod /\ fw'.prod + fw'.pkt + fw'.rx = fw.prod + fw.pkt + fw.rx
        /\ fw'.rx \in {0, fw.rx} /\ fw'.tx = fw.tx /\ Len(fw'.dma) < DmaSize
    BY <2>3 DEF Filled
  <2>5. ~fw'.gate /\ fw'.state = "drain" /\ fw'.status \in {fw.status, "badCommand"}
    BY <1>1, <1>2, <2>3 DEF Filled
  <2>6. Pulsed(fw', seen')
    BY <1>1, <1>2, <2>5 DEF Pulsed
  <2> QED BY <1>1, <1>2, <2>4, <2>5, <2>6, StreamGoesOn
<1>5. CASE Drained(fw)
  <2>1. fw' = EndCommand([Idle EXCEPT !.tx = fw.tx, !.rx = fw.rx], fw.status) /\ fw.fin
    BY <1>5 DEF WriteDrain, Drained
  <2> DEFINE f == [Idle EXCEPT !.tx = fw.tx, !.rx = fw.rx]
  <2>2. fw.status \in Status /\ fw.tx \in Seq(Answer) /\ fw.rx \in Nat /\ fw.pkt \in Nat
        /\ fw.prod \in Nat /\ fw.cons \in Nat
    BY <1>2 DEF Firmware
  <2>3. f \in Firmware /\ f.tx = fw.tx /\ f.rx = fw.rx /\ f.state = "wait"
    BY <2>2, IdleHolds DEF Firmware
  <2>4. f.gate = FALSE
    BY IdleHolds DEF Firmware
  <2>4a. fw' = EndCommand(f, fw.status)
    BY <2>1
  <2> HIDE DEF f
  <2>5. fw.status \in Answer
    BY <2>2 DEF Answer
  <2>6. /\ fw' \in Firmware /\ fw'.tx = Append(fw.tx, fw.status) /\ fw'.state = "wait"
        /\ fw'.rx = fw.rx
    BY <2>4a, <2>3, <2>5, EndCommandKeeps
  <2>7. ~fw'.gate
    BY <2>4a, <2>3, <2>4, <2>5, EndCommandKeeps
  <2>8. fw.rx = 0 /\ host.sent = host.total
    <3>1. fw.cons + BytesOf(fw.toks) = fw.total /\ fw.toks = <<>>
      BY <1>3, <2>1 DEF Remains
    <3>2. BytesOf(<<>>) = 0
      <4>1. <<>> \in Seq(Token)
        OBVIOUS
      <4> QED BY <4>1, BytesLeft
    <3>3. fw.cons = host.total
      BY <1>3, <2>2, <3>1, <3>2
    <3>4. host.sent <= host.total /\ host.sent \in Nat /\ host.total \in Nat
      BY <1>2 DEF StreamInv, SentKnown, HostSide
    <3> QED BY <1>3, <2>2, <3>3, <3>4
  <2>9. fw.status = "okay" => Whole(seen)
    BY <1>1, <1>2 DEF Pulsed
  <2> QED BY <1>1, <1>2, <2>2, <2>6, <2>7, <2>8, <2>9, CommandEnds
<1> QED BY <1>4, <1>5

LEMMA ErasedKeeps ==
  ASSUME StreamInv, Erased
  PROVE  StreamInv'
<1>1. fw.state = "erase" /\ host' = host /\ seen' = seen
      /\ fw' = EndCommand([[fw EXCEPT !.gate = FALSE] EXCEPT !.state = "wait"], "okay")
  BY DEF Erased, FluxEnd
<1>2. fw \in Firmware /\ host \in HostSide
  BY DEF StreamInv, StreamTypes
<1> DEFINE f == [[fw EXCEPT !.gate = FALSE] EXCEPT !.state = "wait"]
<1>3. f \in Firmware /\ f.tx = fw.tx /\ f.rx = fw.rx /\ f.state = "wait"
  BY <1>2 DEF Firmware
<1>4. f.gate = FALSE
  BY <1>2 DEF Firmware
<1> HIDE DEF f
<1>5. "okay" \in Status /\ "okay" \in Answer
  BY DEF Answer, Status
<1>6. fw' \in Firmware /\ fw'.tx = Append(fw.tx, "okay") /\ fw'.state = "wait" /\ fw'.rx = fw.rx
  BY <1>1, <1>3, <1>5, EndCommandKeeps DEF f
<1>7. ~fw'.gate
  BY <1>1, <1>3, <1>4, <1>5, EndCommandKeeps DEF f
<1>8. host.op = "erase"
  BY <1>1 DEF StreamInv, AtWork
<1>9. fw.rx = 0 /\ host.sent = host.total
  <2>1. fw.rx = 0 /\ host.total = 0 /\ host.sent <= host.total /\ host.sent \in Nat
    BY <1>2, <1>8 DEF StreamInv, SentKnown, HostSide
  <2> QED BY <2>1
<1> QED BY <1>1, <1>5, <1>6, <1>7, <1>8, <1>9, CommandEnds

LEMMA SinkKeeps ==
  ASSUME StreamInv, Sink
  PROVE  StreamInv'
<1>1. fw.state = "sink" /\ host' = host /\ seen' = seen
  BY DEF Sink
<1>2. fw \in Firmware /\ host \in HostSide /\ seen \in History
  BY DEF StreamInv, StreamTypes
<1>3. fw.rx \in Nat /\ fw.todo \in Nat /\ host.sent \in Nat /\ host.total \in Nat
  BY <1>2 DEF Firmware, HostSide
<1>4. /\ host.op = "sink" /\ host.stage # "idle" /\ ~seen.late /\ ~seen.ran
      /\ host.sent + fw.todo = host.total + fw.rx /\ host.sent <= host.total /\ ~fw.gate
  BY <1>1 DEF StreamInv, AtWork, SentKnown, NothingLeftToRun
<1>5. CASE fw.todo = 0
  <2>1. fw' = EndCommand([fw EXCEPT !.state = "wait"], "okay")
    BY <1>5 DEF Sink
  <2> DEFINE f == [fw EXCEPT !.state = "wait"]
  <2>2. f \in Firmware /\ f.tx = fw.tx /\ f.rx = fw.rx /\ f.state = "wait"
    BY <1>2 DEF Firmware
  <2>3. f.gate = fw.gate
    BY <1>2 DEF Firmware
  <2> HIDE DEF f
  <2>4. "okay" \in Status /\ "okay" \in Answer
    BY DEF Answer, Status
  <2>5. fw' \in Firmware /\ fw'.tx = Append(fw.tx, "okay") /\ fw'.state = "wait" /\ fw'.rx = fw.rx
    BY <2>1, <2>2, <2>4, EndCommandKeeps DEF f
  <2>6. ~fw'.gate
    BY <1>4, <2>1, <2>2, <2>3, <2>4, EndCommandKeeps DEF f
  <2>7. fw.rx = 0 /\ host.sent = host.total
    BY <1>3, <1>4, <1>5
  <2> QED BY <1>1, <1>4, <2>4, <2>5, <2>6, <2>7, CommandEnds
<1>6. CASE fw.todo # 0
  <2>1. fw.rx > 0 /\ fw' = [fw EXCEPT !.rx = 0, !.todo = fw.todo - Smaller(fw.todo, fw.rx)]
    BY <1>6 DEF Sink
  <2>2. fw.rx <= fw.todo /\ Smaller(fw.todo, fw.rx) = fw.rx
    BY <1>3, <1>4 DEF Smaller
  <2>3. fw' = [fw EXCEPT !.rx = 0, !.todo = fw.todo - fw.rx] /\ fw.todo - fw.rx \in Nat
    BY <1>3, <2>1, <2>2
  <2>4. /\ fw' \in Firmware /\ fw'.state = fw.state /\ fw'.rx = 0 /\ fw'.todo = fw.todo - fw.rx
        /\ fw'.tx = fw.tx
    BY <1>2, <2>3 DEF Firmware
  <2>5. fw'.gate = fw.gate
    BY <1>2, <2>3 DEF Firmware
  <2>6. fw'.state \notin Flowing
    BY <1>1, <2>4 DEF Flowing, Writing
  <2>7. StreamTypes'
    BY <1>1, <1>2, <2>4 DEF StreamTypes
  <2>8. StreamKnown' /\ PulsesKnown'
    BY <2>6 DEF StreamKnown, PulsesKnown, Pulsed, Flowing
  <2>9. SentKnown'
    <3>1. host.sent + fw'.todo = host.total + fw'.rx
      BY <1>3, <1>4, <2>4
    <3>2. SentKnown
      BY DEF StreamInv
    <3> QED BY <1>1, <2>4, <3>1, <3>2 DEF SentKnown
  <2>10. AtWork'
    <3>1. AtWork
      BY DEF StreamInv
    <3> QED BY <1>1, <1>4, <2>4, <3>1 DEF AtWork
  <2>11. Answered'
    <3>1. fw.tx = Ack
      BY <1>1, <1>4 DEF StreamInv, Answered
    <3> QED BY <1>1, <2>4, <3>1 DEF Answered, Ack
  <2>12. SourceKnown' /\ Balanced' /\ NothingLeftToRun'
    BY <1>1, <1>4, <2>5 DEF SourceKnown, Balanced, NothingLeftToRun
  <2> QED BY <2>7, <2>8, <2>9, <2>10, <2>11, <2>12 DEF StreamInv
<1> QED BY <1>5, <1>6

\* Before a command the firmware is at rest.
LEMMA AtRest ==
  ASSUME StreamInv, fw.state = "wait"
  PROVE  /\ fw \in Firmware /\ ~fw.gate
         /\ host.stage = "idle" => fw.rx = 0 /\ fw.tx = <<>>
BY DEF StreamInv, StreamTypes, NothingLeftToRun, SentKnown, AtWork

LEMMA NothingSeenHolds ==
  /\ NothingSeen \in History /\ NothingSeen.made = 0 /\ NothingSeen.read = 0 /\ NothingSeen.out = 0
  /\ NothingSeen.cut = FALSE /\ NothingSeen.late = FALSE /\ NothingSeen.ran = FALSE
<1>1. NothingSeen.cut = FALSE /\ NothingSeen.late = FALSE /\ NothingSeen.ran = FALSE
  BY DEF NothingSeen
<1> QED BY <1>1 DEF NothingSeen, History

\* A command that is refused.
LEMMA NoTokens == <<>> \in Seq(Token)
BY EmptySeq

LEMMA RefusalKeeps ==
  ASSUME StreamInv, fw.state = "wait", host.stage = "idle", fw' = EndCommand(fw, "wrprot"),
         host' \in HostSide, host'.stage = "asked", host'.op \in {"write", "erase"}, host'.sent = 0,
         host'.op = "erase" => host'.total = 0, seen' = NothingSeen
  PROVE  StreamInv'
<1>1. fw \in Firmware /\ ~fw.gate /\ fw.rx = 0 /\ fw.tx = <<>>
  BY AtRest
<1>2. "wrprot" \in Answer
  BY DEF Answer
<1>3. fw' \in Firmware /\ fw'.tx = Append(fw.tx, "wrprot") /\ fw'.state = fw.state /\ fw'.rx = fw.rx
  BY <1>1, <1>2, EndCommandKeeps
<1>4. ~fw'.gate
  BY <1>1, <1>2, EndCommandKeeps
<1>5. fw'.tx = <<"wrprot">>
  BY <1>1, <1>3
<1>6. fw'.state \notin Flowing /\ fw'.state = "wait" /\ fw'.rx = 0
  BY <1>1, <1>3 DEF Flowing, Writing
<1>7. StreamTypes'
  BY <1>3, NothingSeenHolds DEF StreamTypes
<1>8. StreamKnown' /\ PulsesKnown'
  BY <1>6 DEF StreamKnown, PulsesKnown, Pulsed, Flowing
<1>9. SentKnown'
  <2>1. host'.total \in Nat
    BY DEF HostSide
  <2> QED BY <1>6, <2>1 DEF SentKnown
<1>10. AtWork'
  BY <1>6 DEF AtWork
<1>11. Answered'
  BY <1>5, <1>6, NothingSeenHolds DEF Answered, Finished
<1>12. SourceKnown' /\ Balanced' /\ NothingLeftToRun'
  BY <1>4, NothingSeenHolds DEF SourceKnown, Balanced, NothingLeftToRun
<1> QED BY <1>7, <1>8, <1>9, <1>10, <1>11, <1>12 DEF StreamInv

LEMMA WritePrepKeeps ==
  ASSUME StreamInv, NEW s \in Streams, WritePrep(s)
  PROVE  StreamInv'
<1>1. /\ fw.state = "wait" /\ host.stage = "idle" /\ seen' = NothingSeen
      /\ host' = [NoStream EXCEPT !.stage = "asked", !.op = "write", !.stream = s, !.total = BytesOf(s)]
  BY DEF WritePrep
<1>2. s \in Seq(Token) /\ s # <<>> /\ EndsOnce(s)
  BY StreamsAssumption DEF EndsOnce
<1>3. BytesOf(s) \in Nat
  BY <1>2, BytesLeft
<1>4. /\ host' \in HostSide /\ host'.stage = "asked" /\ host'.op = "write" /\ host'.sent = 0
      /\ host'.total = BytesOf(s)
  BY <1>1, <1>2, <1>3 DEF NoStream, HostSide
<1>5. PICK wrprot, cue, term \in BOOLEAN :
       fw' = IF wrprot THEN EndCommand(fw, "wrprot")
             ELSE [Idle EXCEPT !.state = "waitData", !.toks = s, !.total = BytesOf(s), !.cue = cue,
                               !.term = term, !.tx = <<"ack">>]
  BY DEF WritePrep
<1>6. CASE wrprot
  BY <1>1, <1>4, <1>5, <1>6, RefusalKeeps
<1>7. CASE ~wrprot
  <2>1. fw' = [Idle EXCEPT !.state = "waitData", !.toks = s, !.total = BytesOf(s), !.cue = cue,
                           !.term = term, !.tx = <<"ack">>]
    BY <1>5, <1>7
  <2>2. <<"ack">> \in Seq(Answer) /\ "waitData" \in Flowing
    BY DEF Answer, Flowing, Writing
  <2>3. fw' \in Firmware
    BY <1>2, <1>3, <2>1, <2>2, IdleHolds DEF Firmware
  <2>4. /\ fw'.state = "waitData" /\ fw'.toks = s /\ fw'.total = BytesOf(s) /\ fw'.tx = <<"ack">>
        /\ fw'.cons = 0 /\ fw'.prod = 0 /\ fw'.pkt = 0 /\ fw'.rx = 0 /\ fw'.dma = <<>> /\ fw'.ticks = 0
        /\ fw'.status = "okay"
    BY <2>1, IdleHolds DEF Firmware
  <2>5. fw'.fin = FALSE /\ fw'.gate = FALSE
    BY <2>1, IdleHolds DEF Firmware
  <2>6. StreamTypes'
    BY <1>1, <1>4, <2>3, NothingSeenHolds DEF StreamTypes
  <2>7. StreamKnown'
    <3>1. Remains(fw'.toks, fw'.cons, fw'.fin, fw'.total)
      BY <1>2, <1>3, <2>4, <2>5 DEF Remains
    <3>2. Len(fw'.dma) < DmaSize
      <4>1. Len(<<>>) = 0
        BY EmptySeq
      <4> QED BY <2>4, <4>1, StreamsAssumption
    <3> QED BY <1>4, <2>4, <3>1, <3>2 DEF StreamKnown, Flows
  <2>8. PulsesKnown'
    <3>1. seen'.made + fw'.ticks = seen'.read /\ seen'.out + Total(fw'.dma) = seen'.made
      BY <1>1, <2>4, NothingSeenHolds, TotalSmall
    <3> QED BY <2>4, <3>1 DEF PulsesKnown, Pulsed
  <2>9. SentKnown'
    BY <1>3, <1>4, <2>4 DEF SentKnown
  <2>10. AtWork'
    BY <1>1, <1>4, <2>4, NothingSeenHolds DEF AtWork
  <2>11. Answered'
    BY <1>4, <2>4 DEF Answered, Ack
  <2>12. SourceKnown' /\ Balanced' /\ NothingLeftToRun'
    BY <1>1, <1>4, <2>5, NothingSeenHolds DEF SourceKnown, Balanced, NothingLeftToRun
  <2> QED BY <2>6, <2>7, <2>8, <2>9, <2>10, <2>11, <2>12 DEF StreamInv
<1> QED BY <1>6, <1>7

LEMMA ErasePrepKeeps ==
  ASSUME StreamInv, ErasePrep
  PROVE  StreamInv'
<1>1. /\ fw.state = "wait" /\ host.stage = "idle" /\ seen' = NothingSeen
      /\ host' = [NoStream EXCEPT !.stage = "asked", !.op = "erase"]
  BY DEF ErasePrep
<1>2. /\ host' \in HostSide /\ host'.stage = "asked" /\ host'.op = "erase" /\ host'.sent = 0
      /\ host'.total = 0
  BY <1>1, NoTokens DEF NoStream, HostSide
<1>3. PICK wrprot \in BOOLEAN :
        fw' = IF wrprot THEN EndCommand(fw, "wrprot")
              ELSE EndCommand([Idle EXCEPT !.state = "erase", !.gate = TRUE], "ack")
  BY DEF ErasePrep
<1>4. CASE wrprot
  BY <1>1, <1>2, <1>3, <1>4, RefusalKeeps
<1>5. CASE ~wrprot
  <2> DEFINE f == [Idle EXCEPT !.state = "erase", !.gate = TRUE]
  <2>1. f \in Firmware /\ f.state = "erase" /\ f.tx = <<>> /\ f.rx = 0
    BY IdleHolds DEF Firmware
  <2>2. fw' = EndCommand(f, "ack")
    BY <1>3, <1>5
  <2> HIDE DEF f
  <2>3. "ack" \in Answer
    BY DEF Answer
  <2>4. fw' \in Firmware /\ fw'.tx = Append(f.tx, "ack") /\ fw'.state = "erase" /\ fw'.rx = 0
    BY <2>1, <2>2, <2>3, EndCommandKeeps
  <2>5. fw'.tx = <<"ack">> /\ fw'.state \notin Flowing
    BY <2>1, <2>4 DEF Flowing, Writing
  <2>6. StreamTypes'
    BY <1>1, <1>2, <2>4, NothingSeenHolds DEF StreamTypes
  <2>7. StreamKnown' /\ PulsesKnown'
    BY <2>5 DEF StreamKnown, PulsesKnown, Pulsed, Flowing
  <2>8. SentKnown'
    BY <1>2, <2>4 DEF SentKnown
  <2>9. AtWork'
    BY <1>1, <1>2, <2>4, <2>5, NothingSeenHolds DEF AtWork
  <2>10. Answered'
    BY <1>2, <2>4, <2>5 DEF Answered, Ack
  <2>11. SourceKnown' /\ Balanced' /\ NothingLeftToRun'
    BY <1>1, <1>2, <2>4, NothingSeenHolds DEF SourceKnown, Balanced, NothingLeftToRun
  <2> QED BY <2>6, <2>7, <2>8, <2>9, <2>10, <2>11 DEF StreamInv
<1> QED BY <1>4, <1>5

LEMMA BytesPrepKeeps ==
  ASSUME StreamInv, NEW kind \in {"sink", "source"}, NEW n \in 0..MaxBytes, BytesPrep(kind, n)
  PROVE  StreamInv'
<1>1. /\ fw.state = "wait" /\ host.stage = "idle" /\ seen' = NothingSeen
      /\ host' = [NoStream EXCEPT !.stage = "asked", !.op = kind, !.total = n]
      /\ fw' = EndCommand([Idle EXCEPT !.state = kind, !.todo = n], "ack")
  BY DEF BytesPrep
<1>2. n \in Nat
  BY StreamsAssumption
<1>3. /\ host' \in HostSide /\ host'.stage = "asked" /\ host'.op = kind /\ host'.sent = 0
      /\ host'.total = n /\ host'.got = 0
  BY <1>1, <1>2, NoTokens DEF NoStream, HostSide
<1> DEFINE f == [Idle EXCEPT !.state = kind, !.todo = n]
<1>4. f \in Firmware /\ f.state = kind /\ f.tx = <<>> /\ f.rx = 0 /\ f.todo = n
  BY <1>2, IdleHolds DEF Firmware
<1>5. f.gate = FALSE
  BY IdleHolds DEF Firmware
<1>6. fw' = EndCommand(f, "ack")
  BY <1>1
<1> HIDE DEF f
<1>7. "ack" \in Answer
  BY DEF Answer
<1>8. fw' \in Firmware /\ fw'.tx = Append(f.tx, "ack") /\ fw'.state = kind /\ fw'.rx = 0 /\ fw'.todo = n
  BY <1>4, <1>6, <1>7, EndCommandKeeps
<1>9. ~fw'.gate
  BY <1>4, <1>5, <1>6, <1>7, EndCommandKeeps
<1>10. fw'.tx = <<"ack">> /\ fw'.state \notin Flowing /\ kind # "wait"
  BY <1>4, <1>8 DEF Flowing, Writing
<1>11. StreamTypes'
  BY <1>1, <1>3, <1>8, NothingSeenHolds DEF StreamTypes
<1>12. StreamKnown' /\ PulsesKnown'
  BY <1>10 DEF StreamKnown, PulsesKnown, Pulsed, Flowing
<1>13. SentKnown'
  BY <1>2, <1>3, <1>8 DEF SentKnown
<1>14. AtWork'
  BY <1>1, <1>3, <1>8, <1>10, NothingSeenHolds DEF AtWork
<1>15. Answered'
  BY <1>3, <1>8, <1>10 DEF Answered, Ack
<1>16. SourceKnown'
  <2>1. Owed' = Tail(fw'.tx) /\ Ack' = <<"ack">>
    BY <1>3 DEF Owed, Ack
  <2>2. Tail(<<"ack">>) = <<>> /\ <<"ack">> = <<"ack">> \o <<>> /\ <<>> \in Seq(Nat) /\ DOMAIN <<>> = {}
    OBVIOUS
  <2>3. Owed' = <<>> /\ fw'.tx = Ack' \o Owed' /\ Total(Owed') = 0
    BY <1>10, <2>1, <2>2, TotalSmall
  <2> QED BY <1>2, <1>3, <1>8, <1>10, <2>2, <2>3 DEF SourceKnown
<1>17. Balanced' /\ NothingLeftToRun'
  BY <1>1, <1>3, <1>9, NothingSeenHolds DEF Balanced, NothingLeftToRun
<1> QED BY <1>11, <1>12, <1>13, <1>14, <1>15, <1>16, <1>17 DEF StreamInv

LEMMA WatchdogKeeps ==
  ASSUME StreamInv, Watchdog
  PROVE  StreamInv'
<1>1. /\ fw.state # "wait" /\ host' = host /\ fw' = [Idle EXCEPT !.rx = fw.rx, !.tx = fw.tx]
      /\ seen' = [seen EXCEPT !.late = TRUE]
  BY DEF Watchdog
<1>2. fw \in Firmware /\ host \in HostSide /\ seen \in History
  BY DEF StreamInv, StreamTypes
<1>3. fw.rx \in Nat /\ fw.tx \in Seq(Answer)
  BY <1>2 DEF Firmware
<1>4. /\ fw' \in Firmware /\ fw'.state = "wait" /\ fw'.rx = fw.rx /\ fw'.tx = fw.tx
  BY <1>1, <1>3, IdleHolds DEF Firmware
<1>5. fw'.gate = FALSE
  BY <1>1, IdleHolds DEF Firmware
<1>6. seen' \in History /\ seen'.late = TRUE /\ host.stage # "idle"
  BY <1>1, <1>2 DEF History, StreamInv, AtWork
<1>7. fw'.state \notin Flowing
  BY <1>4 DEF Flowing, Writing
<1>8. StreamTypes'
  BY <1>1, <1>2, <1>4, <1>6 DEF StreamTypes
<1>9. StreamKnown' /\ PulsesKnown'
  BY <1>7 DEF StreamKnown, PulsesKnown, Pulsed, Flowing
<1>10. SentKnown'
  <2>1. SentKnown
    BY DEF StreamInv
  <2> QED BY <1>1, <1>4, <2>1 DEF SentKnown
<1>11. AtWork'
  <2>1. AtWork
    BY DEF StreamInv
  <2> QED BY <1>1, <1>4, <1>6, <1>7, <2>1 DEF AtWork
<1>12. Answered'
  <2>1. Answered
    BY DEF StreamInv
  <2> QED BY <1>1, <1>4, <1>6, <2>1 DEF Answered, Ack
<1>13. SourceKnown'
  <2>1. SourceKnown
    BY DEF StreamInv
  <2>2. Owed' = Owed /\ Ack' = Ack
    BY <1>1, <1>4 DEF Owed, Ack
  <2> QED BY <1>1, <1>4, <1>6, <2>1, <2>2 DEF SourceKnown
<1>14. Balanced' /\ NothingLeftToRun'
  BY <1>5, <1>6 DEF Balanced, NothingLeftToRun
<1> QED BY <1>8, <1>9, <1>10, <1>11, <1>12, <1>13, <1>14 DEF StreamInv

\* Only after the watchdog there are bytes of a stream where a command is read.
LEMMA CommandKeeps ==
  ASSUME StreamInv, Command
  PROVE  StreamInv'
<1>1. /\ fw.state = "wait" /\ fw.rx > 0 /\ host' = host /\ fw' = [fw EXCEPT !.rx = 0]
      /\ seen' = [seen EXCEPT !.ran = TRUE]
  BY DEF Command
<1>2. fw \in Firmware /\ host \in HostSide /\ seen \in History
  BY DEF StreamInv, StreamTypes
<1>3. fw.rx # 0
  BY <1>1, <1>2 DEF Firmware
<1>4. host.stage \notin {"idle", "asked"} /\ host.op \in {"write", "sink"}
  BY <1>3 DEF StreamInv, SentKnown
<1>5. seen.late
  <2> SUFFICES ASSUME ~seen.late PROVE FALSE
    OBVIOUS
  <2>1. Finished
    BY <1>1, <1>4 DEF StreamInv, Answered
  <2> QED BY <1>3, <1>4, <2>1 DEF Finished
<1>6. fw' \in Firmware /\ fw'.state = "wait" /\ fw'.rx = 0 /\ fw'.tx = fw.tx
  BY <1>1, <1>2 DEF Firmware
<1>7. fw'.gate = fw.gate
  BY <1>1, <1>2 DEF Firmware
<1>8. seen' \in History /\ seen'.late
  BY <1>1, <1>2, <1>5 DEF History
<1>9. fw'.state \notin Flowing
  BY <1>6 DEF Flowing, Writing
<1>10. StreamTypes'
  BY <1>1, <1>2, <1>6, <1>8 DEF StreamTypes
<1>11. StreamKnown' /\ PulsesKnown'
  BY <1>9 DEF StreamKnown, PulsesKnown, Pulsed, Flowing
<1>12. SentKnown'
  <2>1. SentKnown
    BY DEF StreamInv
  <2> QED BY <1>1, <1>6, <2>1 DEF SentKnown
<1>13. AtWork'
  BY <1>1, <1>4, <1>6, <1>9 DEF AtWork
<1>14. Answered'
  <2>1. fw.tx = Ack
    BY <1>4, <1>5 DEF StreamInv, Answered
  <2> QED BY <1>1, <1>6, <1>8, <2>1 DEF Answered, Ack
<1>15. SourceKnown' /\ Balanced'
  BY <1>1, <1>4, <1>8 DEF SourceKnown, Balanced
<1>16. NothingLeftToRun'
  BY <1>1, <1>7, <1>8 DEF StreamInv, NothingLeftToRun
<1> QED BY <1>10, <1>11, <1>12, <1>13, <1>14, <1>15, <1>16 DEF StreamInv

\* Nothing is under way.
LEMMA AtStart ==
  ASSUME fw = Idle, host = NoStream, seen \in History, seen.ran => seen.late
  PROVE  StreamInv
<1>1. host \in HostSide /\ host.stage = "idle" /\ host.op = "none" /\ host.sent = 0 /\ host.total = 0
  BY DEF NoStream, HostSide
<1>2. fw \in Firmware /\ fw.state = "wait" /\ fw.tx = <<>> /\ fw.rx = 0
  BY IdleHolds
<1>3. ~fw.gate
  BY IdleHolds
<1>4. fw.state \notin Flowing
  BY <1>2 DEF Flowing, Writing
<1>5. StreamTypes /\ StreamKnown /\ PulsesKnown
  BY <1>1, <1>2, <1>4 DEF StreamTypes, StreamKnown, PulsesKnown, Pulsed, Flowing
<1>6. SentKnown /\ AtWork /\ Answered /\ SourceKnown
  BY <1>1, <1>2, <1>4 DEF SentKnown, AtWork, Answered, SourceKnown
<1>7. NothingLeftToRun /\ Balanced
  BY <1>1, <1>3 DEF NothingLeftToRun, Balanced
<1> QED BY <1>5, <1>6, <1>7 DEF StreamInv

LEMMA GiveUpKeeps ==
  ASSUME StreamInv, GiveUp
  PROVE  StreamInv'
<1>1. fw' = Idle /\ host' = NoStream /\ seen' = seen /\ seen.late
  BY DEF GiveUp
<1>2. seen' \in History
  BY <1>1 DEF StreamInv, StreamTypes
<1>3. host' \in HostSide /\ host'.stage = "idle" /\ host'.op = "none" /\ host'.sent = 0 /\ host'.total = 0
  BY <1>1 DEF NoStream, HostSide
<1>4. fw' \in Firmware /\ fw'.state = "wait" /\ fw'.tx = <<>> /\ fw'.rx = 0
  BY <1>1, IdleHolds
<1>5. ~fw'.gate
  BY <1>1, IdleHolds
<1>6. fw'.state \notin Flowing
  BY <1>4 DEF Flowing, Writing
<1>7. StreamTypes' /\ StreamKnown' /\ PulsesKnown'
  BY <1>2, <1>3, <1>4, <1>6 DEF StreamTypes, StreamKnown, PulsesKnown, Pulsed, Flowing
<1>8. SentKnown' /\ AtWork' /\ Answered' /\ SourceKnown'
  BY <1>3, <1>4, <1>6 DEF SentKnown, AtWork, Answered, SourceKnown
<1>9. NothingLeftToRun' /\ Balanced'
  BY <1>1, <1>3, <1>5 DEF NothingLeftToRun, Balanced
<1> QED BY <1>7, <1>8, <1>9 DEF StreamInv

-----------------------------------------------------------------------------
(* The host's steps. *)

LEMMA SendKeeps ==
  ASSUME StreamInv, Send
  PROVE  StreamInv'
<1>1. host.stage = "sending" /\ fw.rx = 0 /\ seen' = seen
  BY DEF Send
<1>2. PICK n \in 1..Smaller(Mps, host.total - host.sent) :
       /\ fw' = [fw EXCEPT !.rx = n]
       /\ host' = [host EXCEPT !.sent = host.sent + n,
                               !.stage = IF host.sent + n = host.total THEN "sent" ELSE host.stage]
  BY DEF Send
<1>3. fw \in Firmware /\ host \in HostSide /\ seen \in History
  BY DEF StreamInv, StreamTypes
<1>4. host.sent \in Nat /\ host.total \in Nat /\ fw.prod \in Nat /\ fw.pkt \in Nat /\ fw.todo \in Nat
  BY <1>3 DEF Firmware, HostSide
<1>5. host.op \in {"write", "sink"} /\ host.sent < host.total
  BY <1>1 DEF StreamInv, SentKnown
<1>6. n \in Nat /\ n >= 1 /\ host.sent + n <= host.total /\ host.sent + n \in Nat
  BY <1>4, <1>5, StreamsAssumption DEF Smaller
<1>7. /\ fw' \in Firmware /\ fw'.state = fw.state /\ fw'.tx = fw.tx /\ fw'.rx = n /\ fw'.todo = fw.todo
      /\ fw'.total = fw.total /\ fw'.toks = fw.toks /\ fw'.cons = fw.cons /\ fw'.prod = fw.prod
      /\ fw'.pkt = fw.pkt /\ fw'.dma = fw.dma /\ fw'.status = fw.status /\ fw'.ticks = fw.ticks
  BY <1>2, <1>3, <1>6 DEF Firmware
<1>8. fw'.gate = fw.gate /\ fw'.fin = fw.fin
  BY <1>2, <1>3 DEF Firmware
<1>9. /\ host' \in HostSide /\ host'.op = host.op /\ host'.total = host.total
      /\ host'.sent = host.sent + n
      /\ host'.stage = IF host.sent + n = host.total THEN "sent" ELSE "sending"
  BY <1>1, <1>2, <1>3, <1>6 DEF HostSide
<1>10. host'.stage \in {"sent", "sending"}
  BY <1>9
<1>11. StreamTypes'
  BY <1>1, <1>3, <1>7, <1>9 DEF StreamTypes
<1>12. StreamKnown'
  <2> SUFFICES ASSUME fw.state \in Flowing PROVE Flows(fw', host')
    BY <1>7 DEF StreamKnown
  <2>1. Flows(fw, host)
    BY FlowingHolds
  <2>2. fw'.prod + fw'.pkt + fw'.rx = host'.sent
    BY <1>1, <1>4, <1>6, <1>7, <1>9, <2>1 DEF Flows
  <2>3. Remains(fw'.toks, fw'.cons, fw'.fin, fw'.total)
    BY <1>7, <1>8, <2>1 DEF Flows
  <2> QED BY <1>7, <1>9, <2>1, <2>2, <2>3 DEF Flows
<1>13. PulsesKnown'
  <2>1. Pulsed(fw, seen)
    BY DEF StreamInv, PulsesKnown
  <2> QED BY <1>1, <1>7, <2>1 DEF PulsesKnown, Pulsed
<1>14. SentKnown'
  <2>1. SentKnown
    BY DEF StreamInv
  <2>2. fw'.state = "sink" => host'.sent + fw'.todo = host'.total + fw'.rx
    <3>1. ASSUME fw.state = "sink" PROVE host.sent + fw.todo = host.total
      BY <1>1, <1>4, <2>1, <3>1 DEF SentKnown
    <3> QED BY <1>4, <1>6, <1>7, <1>9, <3>1
  <2>3. host'.stage = "sending" => host'.sent < host'.total
    BY <1>4, <1>6, <1>9
  <2>4. host'.stage = "sent" => host'.sent = host'.total
    BY <1>9
  <2>5. host'.sent <= host'.total
    BY <1>6, <1>9
  <2> QED BY <1>5, <1>9, <1>10, <2>2, <2>3, <2>4, <2>5 DEF SentKnown
<1>15. AtWork'
  <2>1. AtWork
    BY DEF StreamInv
  <2> QED BY <1>1, <1>5, <1>7, <1>9, <1>10, <2>1 DEF AtWork
<1>16. Answered'
  <2>1. fw.state # "wait" \/ seen.late
    <3> SUFFICES ASSUME ~(fw.state # "wait" \/ seen.late) PROVE FALSE
      OBVIOUS
    <3>1. Finished
      BY <1>1, <1>5 DEF StreamInv, Answered
    <3>2. host.stage = "asked" \/ host.sent = host.total
      BY <3>1 DEF Finished
    <3> QED BY <1>1, <1>4, <1>5, <3>2
  <2>2. fw.tx = Ack
    BY <1>1, <1>5, <2>1 DEF StreamInv, Answered
  <2>3. Ack = <<>> /\ Ack' = <<>>
    BY <1>1, <1>10 DEF Ack
  <2> QED BY <1>1, <1>7, <2>1, <2>2, <2>3 DEF Answered
<1>17. SourceKnown' /\ Balanced'
  BY <1>5, <1>9, <1>10 DEF SourceKnown, Balanced
<1>18. NothingLeftToRun'
  BY <1>1, <1>7, <1>8 DEF StreamInv, NothingLeftToRun
<1> QED BY <1>11, <1>12, <1>13, <1>14, <1>15, <1>16, <1>17, <1>18 DEF StreamInv

\* A packet or the last bytes of a source go behind those that are on their way.
LEMMA SourceKeeps ==
  ASSUME StreamInv, Source
  PROVE  StreamInv'
<1>1. /\ fw.state = "source" /\ host' = host /\ seen' = seen
      /\ fw' = IF fw.todo < Mps THEN EndCommand([fw EXCEPT !.state = "wait", !.todo = 0], fw.todo)
               ELSE [fw EXCEPT !.tx = Append(fw.tx, Mps), !.todo = fw.todo - Mps]
  BY DEF Source
<1>2. fw \in Firmware /\ host \in HostSide /\ seen \in History
  BY DEF StreamInv, StreamTypes
<1>3. /\ host.op = "source" /\ host.stage # "idle" /\ ~seen.late /\ ~seen.ran /\ ~fw.gate /\ fw.rx = 0
  BY <1>1 DEF StreamInv, AtWork, SentKnown, NothingLeftToRun
<1>4. /\ host.stage \in {"asked", "sent"} /\ fw.tx = Ack \o Owed /\ Owed \in Seq(Nat)
      /\ \A i \in DOMAIN Owed : Owed[i] = Mps
      /\ host.got + Total(Owed) + fw.todo = host.total
  BY <1>1, <1>3 DEF StreamInv, SourceKnown
<1>5. fw.todo \in Nat /\ Mps \in Nat \ {0} /\ fw.tx \in Seq(Answer) /\ host.got \in Nat
  BY <1>2, StreamsAssumption DEF Firmware, HostSide
\* Both ways: x is what goes, and rest is left.
<1> DEFINE x == IF fw.todo < Mps THEN fw.todo ELSE Mps
           rest == IF fw.todo < Mps THEN 0 ELSE fw.todo - Mps
<1>6. x \in Nat /\ rest \in Nat /\ x + rest = fw.todo /\ x \in Answer
  BY <1>5 DEF Answer
<1>7. /\ fw' \in Firmware /\ fw'.tx = Append(fw.tx, x) /\ fw'.todo = rest /\ fw'.rx = 0
      /\ fw'.state = IF fw.todo < Mps THEN "wait" ELSE "source"
      /\ ~fw'.gate
  <2>1. CASE fw.todo < Mps
    <3> DEFINE f == [fw EXCEPT !.state = "wait", !.todo = 0]
    <3>1. f \in Firmware /\ f.tx = fw.tx /\ f.rx = fw.rx /\ f.state = "wait" /\ f.todo = 0
      BY <1>2 DEF Firmware
    <3>2. f.gate = fw.gate
      BY <1>2 DEF Firmware
    <3>3. fw' = EndCommand(f, x) /\ rest = 0
      BY <1>1, <2>1
    <3> HIDE DEF f, x, rest
    <3>4. /\ fw' \in Firmware /\ fw'.tx = Append(fw.tx, x) /\ fw'.state = "wait" /\ fw'.rx = 0
          /\ fw'.todo = 0
      BY <1>3, <1>6, <3>1, <3>3, EndCommandKeeps
    <3>5. ~fw'.gate
      BY <1>3, <1>6, <3>1, <3>2, <3>3, EndCommandKeeps
    <3> QED BY <2>1, <3>3, <3>4, <3>5
  <2>2. CASE ~(fw.todo < Mps)
    <3>1. fw' = [fw EXCEPT !.tx = Append(fw.tx, x), !.todo = rest]
      BY <1>1, <2>2
    <3> HIDE DEF x, rest
    <3>2. Append(fw.tx, x) \in Seq(Answer)
      BY <1>5, <1>6, AppendProperties
    <3>3. /\ fw' \in Firmware /\ fw'.tx = Append(fw.tx, x) /\ fw'.state = "source" /\ fw'.rx = 0
          /\ fw'.todo = rest
      BY <1>1, <1>2, <1>3, <1>6, <3>1, <3>2 DEF Firmware
    <3>4. fw'.gate = fw.gate
      BY <1>2, <3>1 DEF Firmware
    <3> QED BY <1>3, <2>2, <3>3, <3>4
  <2> QED BY <2>1, <2>2
<1>8. fw'.state = "wait" => x < Mps /\ rest = 0
  BY <1>7
<1>9. fw'.state # "wait" => x = Mps
  BY <1>7
<1> HIDE DEF x, rest
<1>10. fw'.state \in {"wait", "source"} /\ fw'.state \notin Flowing
  BY <1>7 DEF Flowing, Writing
<1>11. StreamTypes'
  BY <1>1, <1>2, <1>7 DEF StreamTypes
<1>12. StreamKnown' /\ PulsesKnown'
  BY <1>10 DEF StreamKnown, PulsesKnown, Pulsed, Flowing
<1>13. SentKnown'
  <2>1. SentKnown
    BY DEF StreamInv
  <2> QED BY <1>1, <1>7, <1>10, <2>1 DEF SentKnown
<1>14. AtWork'
  BY <1>1, <1>3, <1>10 DEF AtWork
<1>15. Answered' /\ Balanced' /\ NothingLeftToRun'
  BY <1>1, <1>3, <1>7 DEF Answered, Balanced, NothingLeftToRun
<1>16. SourceKnown'
  <2>1. Owed' = Append(Owed, x) /\ Ack' = Ack
    <3>1. CASE host.stage = "asked"
      <4>1. Owed = Tail(fw.tx) /\ fw.tx = <<"ack">> \o Owed
        BY <1>4, <3>1 DEF Owed, Ack
      <4>2. Len(fw.tx) > 0
        BY <1>4, <4>1, ConcatProperties
      <4>3. Tail(Append(fw.tx, x)) = Append(Tail(fw.tx), x)
        BY <1>5, <1>6, <4>2, HeadTailAppend, EmptySeq
      <4> QED BY <1>1, <1>7, <3>1, <4>1, <4>3 DEF Owed, Ack
    <3>2. CASE host.stage # "asked"
      BY <1>1, <1>7, <3>2 DEF Owed, Ack
    <3> QED BY <3>1, <3>2
  <2>2. fw'.tx = Ack' \o Owed'
    <3>1. Append(Ack \o Owed, x) = Ack \o Append(Owed, x)
      BY <1>4, <1>6 DEF Ack
    <3> QED BY <1>4, <1>7, <2>1, <3>1
  <2> DEFINE owed == Append(Owed, x)
  <2>3. /\ owed \in Seq(Nat) /\ Len(owed) = Len(Owed) + 1 /\ owed[Len(owed)] = x /\ owed # <<>>
        /\ \A i \in 1..Len(Owed) : owed[i] = Owed[i]
        /\ DOMAIN owed = 1..Len(owed) /\ DOMAIN Owed = 1..Len(Owed) /\ Len(Owed) \in Nat
        /\ Total(owed) = Total(Owed) + x
    <3>1. Total(owed) = Total(Owed) + x
      BY <1>4, <1>6, TotalAppend
    <3>2. /\ owed \in Seq(Nat) /\ Len(owed) = Len(Owed) + 1 /\ owed[Len(Owed) + 1] = x
          /\ \A i \in 1..Len(Owed) : owed[i] = Owed[i]
      BY <1>4, <1>6, AppendProperties
    <3>3. Len(Owed) \in Nat /\ DOMAIN Owed = 1..Len(Owed)
      BY <1>4, LenProperties
    <3> HIDE DEF owed
    <3>4. DOMAIN owed = 1..Len(owed) /\ owed # <<>>
      BY <3>2, <3>3, LenProperties, EmptySeq
    <3> QED BY <3>1, <3>2, <3>3, <3>4
  <2> HIDE DEF owed
  <2>4. \A i \in DOMAIN owed :
          owed[i] = Mps \/ (owed[i] < Mps /\ i = Len(owed) /\ fw'.state = "wait" /\ ~seen'.late)
    <3> TAKE i \in DOMAIN owed
    <3>1. i \in 1..Len(Owed) \/ i = Len(owed)
      BY <2>3
    <3>2. CASE i \in 1..Len(Owed)
      BY <1>4, <2>3, <3>2
    <3>3. CASE i = Len(owed)
      BY <1>1, <1>3, <1>8, <1>9, <2>3, <3>3
    <3> QED BY <3>1, <3>2, <3>3
  <2>5. host'.got + Total(owed) + fw'.todo = host'.total
    <3>1. Total(Owed) \in Nat
      BY <1>4, TotalType
    <3>2. host.got + Total(Owed) + fw.todo = host.total
      BY <1>4
    <3>3. fw'.todo = rest /\ x + rest = fw.todo /\ Total(owed) = Total(Owed) + x
      BY <1>6, <1>7, <2>3
    <3>4. host.got + (Total(Owed) + x) + rest = host.got + Total(Owed) + (x + rest)
      BY <1>5, <1>6, <3>1
    <3> QED BY <1>1, <3>2, <3>3, <3>4
  <2>6. fw'.state = "wait" => fw'.todo = 0 /\ owed # <<>> /\ owed[Len(owed)] < Mps
    BY <1>7, <1>8, <2>3
  <2>7. Owed' = owed
    BY <2>1 DEF owed
  <2> QED BY <1>1, <1>4, <2>2, <2>3, <2>4, <2>5, <2>6, <2>7 DEF SourceKnown
<1> QED BY <1>11, <1>12, <1>13, <1>14, <1>15, <1>16 DEF StreamInv

\* An acknowledgement that is read, and what is left behind it.
LEMMA AcknowledgementRead ==
  ASSUME StreamInv, Acknowledged, Head(fw.tx) = "ack"
  PROVE  StreamInv'
<1>1. /\ host.stage = "asked" /\ fw.tx # <<>> /\ seen' = seen /\ fw' = [fw EXCEPT !.tx = Tail(fw.tx)]
      /\ host' = [host EXCEPT !.stage = IF host.op \in {"write", "sink"} /\ host.total > 0
                                        THEN "sending" ELSE "sent"]
  BY DEF Acknowledged
<1>2. fw \in Firmware /\ host \in HostSide /\ seen \in History
  BY DEF StreamInv, StreamTypes
<1>3. Tail(fw.tx) \in Seq(Answer)
  BY <1>1, <1>2, HeadTailProperties DEF Firmware
<1>4. /\ fw' \in Firmware /\ fw'.state = fw.state /\ fw'.tx = Tail(fw.tx) /\ fw'.rx = fw.rx
      /\ fw'.todo = fw.todo
      /\ fw'.total = fw.total /\ fw'.toks = fw.toks /\ fw'.cons = fw.cons /\ fw'.prod = fw.prod
      /\ fw'.pkt = fw.pkt /\ fw'.dma = fw.dma /\ fw'.status = fw.status /\ fw'.ticks = fw.ticks
  BY <1>1, <1>2, <1>3 DEF Firmware
<1>5. fw'.gate = fw.gate /\ fw'.fin = fw.fin
  BY <1>1, <1>2 DEF Firmware
<1>6. /\ host' \in HostSide /\ host'.op = host.op /\ host'.total = host.total /\ host'.sent = host.sent
      /\ host'.got = host.got
      /\ host'.stage = IF host.op \in {"write", "sink"} /\ host.total > 0 THEN "sending" ELSE "sent"
  BY <1>1, <1>2 DEF HostSide
<1>7. host'.stage \in {"sending", "sent"} /\ host.op # "none" /\ host.total \in Nat
  BY <1>1, <1>2, <1>6 DEF HostSide, StreamInv, AtWork
<1>8. host.sent = 0 /\ fw.rx = 0
  BY <1>1 DEF StreamInv, SentKnown
<1>9. StreamTypes'
  BY <1>1, <1>2, <1>4, <1>6 DEF StreamTypes
<1>10. StreamKnown'
  <2> SUFFICES ASSUME fw.state \in Flowing PROVE Flows(fw', host')
    BY <1>4 DEF StreamKnown
  <2>1. Flows(fw, host)
    BY FlowingHolds
  <2>2. Remains(fw'.toks, fw'.cons, fw'.fin, fw'.total)
    BY <1>4, <1>5, <2>1 DEF Flows
  <2> QED BY <1>4, <1>6, <2>1, <2>2 DEF Flows
<1>11. PulsesKnown'
  <2>1. Pulsed(fw, seen)
    BY DEF StreamInv, PulsesKnown
  <2> QED BY <1>1, <1>4, <2>1 DEF PulsesKnown, Pulsed
<1>12. SentKnown'
  <2>1. SentKnown
    BY DEF StreamInv
  <2> QED BY <1>4, <1>6, <1>7, <1>8, <2>1 DEF SentKnown
<1>13. AtWork'
  <2>1. AtWork
    BY DEF StreamInv
  <2> QED BY <1>1, <1>4, <1>6, <1>7, <2>1 DEF AtWork
<1>14. Ack = <<"ack">> /\ Ack' = <<>>
  BY <1>1, <1>7 DEF Ack
<1>15. Answered'
  <2> SUFFICES ASSUME host.op \in {"write", "erase", "sink"}
               PROVE  IF fw.state # "wait" \/ seen.late THEN fw'.tx = Ack' ELSE Finished'
    BY <1>1, <1>4, <1>6 DEF Answered
  <2>1. CASE fw.state # "wait" \/ seen.late
    <3>1. fw.tx = <<"ack">>
      BY <1>1, <1>14, <2>1 DEF StreamInv, Answered
    <3> QED BY <1>4, <1>14, <2>1, <3>1
  <2>2. CASE ~(fw.state # "wait" \/ seen.late)
    <3>1. Finished
      BY <1>1, <2>2 DEF StreamInv, Answered
    <3>2. fw.tx # <<"wrprot">>
      OBVIOUS
    <3>3. PICK reply \in Status :
            /\ fw.tx = Ack \o <<reply>> /\ host.sent = host.total /\ fw.rx = 0
            /\ host.op = "write" /\ reply = "okay" => Whole(seen)
      BY <3>1, <3>2 DEF Finished
    <3>4. fw.tx = <<"ack", reply>>
      <4>1. <<"ack", reply>> = <<"ack">> \o <<reply>>
        OBVIOUS
      <4> QED BY <1>14, <3>3, <4>1
    <3>5. fw'.tx = <<reply>> /\ <<reply>> = <<>> \o <<reply>>
      BY <1>4, <3>4
    <3>6. fw'.tx = Ack' \o <<reply>>
      BY <1>14, <3>5
    <3>7. Finished'
      BY <1>1, <1>4, <1>6, <3>3, <3>6 DEF Finished, Whole
    <3> QED BY <2>2, <3>7
  <2> QED BY <2>1, <2>2
<1>16. SourceKnown'
  <2> SUFFICES ASSUME host.op = "source" PROVE SourceKnown'
    BY <1>6 DEF SourceKnown
  <2>1. /\ fw.tx = Ack \o Owed /\ Owed \in Seq(Nat)
        /\ \A i \in DOMAIN Owed :
             Owed[i] = Mps \/ (Owed[i] < Mps /\ i = Len(Owed) /\ fw.state = "wait" /\ ~seen.late)
        /\ ~seen.late => host.got + Total(Owed) + fw.todo = host.total
        /\ ~seen.late /\ fw.state = "wait" =>
             fw.todo = 0 /\ Owed # <<>> /\ Owed[Len(Owed)] < Mps
    BY <1>1 DEF StreamInv, SourceKnown
  <2>2. Owed' = Tail(fw.tx) /\ Owed = Tail(fw.tx) /\ host'.stage = "sent"
    BY <1>1, <1>4, <1>6, <1>7 DEF Owed
  <2>3. fw'.tx = Ack' \o Owed'
    <3>1. <<>> \o Owed = Owed
      BY <2>1, ConcatEmptySeq
    <3> QED BY <1>4, <1>14, <2>2, <3>1
  <2>4. Owed' = Owed
    BY <2>2
  <2> HIDE DEF Owed
  <2>5. /\ \A i \in DOMAIN Owed' :
             \/ Owed'[i] = Mps
             \/ (Owed'[i] < Mps /\ i = Len(Owed') /\ fw'.state = "wait" /\ ~seen'.late)
        /\ ~seen'.late /\ fw'.state = "wait" =>
             fw'.todo = 0 /\ Owed' # <<>> /\ Owed'[Len(Owed')] < Mps
    BY <1>1, <1>4, <2>1, <2>4
  <2>6. ~seen'.late => host'.got + Total(Owed') + fw'.todo = host'.total
    BY <1>1, <1>4, <1>6, <2>1, <2>4
  <2> QED BY <2>1, <2>2, <2>3, <2>4, <2>5, <2>6 DEF SourceKnown
<1>17. Balanced' /\ NothingLeftToRun'
  <2>1. NothingLeftToRun
    BY DEF StreamInv
  <2> QED BY <1>1, <1>4, <1>5, <1>7, <2>1 DEF Balanced, NothingLeftToRun
<1> QED BY <1>9, <1>10, <1>11, <1>12, <1>13, <1>15, <1>16, <1>17 DEF StreamInv

LEMMA AcknowledgedKeeps ==
  ASSUME StreamInv, Acknowledged
  PROVE  StreamInv'
<1>1. CASE Head(fw.tx) = "ack"
  BY <1>1, AcknowledgementRead
<1>2. CASE Head(fw.tx) # "ack"
  <2>1. /\ host.stage = "asked" /\ fw.tx # <<>> /\ seen' = seen
        /\ fw' = [fw EXCEPT !.tx = Tail(fw.tx)] /\ host' = NoStream
    BY <1>2 DEF Acknowledged
  <2>2. fw \in Firmware /\ host \in HostSide /\ seen \in History
    BY DEF StreamInv, StreamTypes
  <2>3. Ack = <<"ack">> /\ host.op # "none"
    BY <2>1 DEF Ack, StreamInv, AtWork
  <2>4. host.op # "source"
    <3> SUFFICES ASSUME host.op = "source" PROVE FALSE
      OBVIOUS
    <3>1. fw.tx = Ack \o Owed /\ Owed \in Seq(Nat)
      BY <2>1 DEF StreamInv, SourceKnown
    <3>2. fw.tx[1] = "ack"
      BY <2>3, <3>1
    <3>3. Head(fw.tx) = fw.tx[1]
      BY <2>1, <2>2, HeadTailProperties DEF Firmware
    <3> QED BY <1>2, <3>2, <3>3
  <2>5. host.op \in {"write", "erase", "sink"}
    BY <2>2, <2>3, <2>4 DEF HostSide
  <2>6. fw.tx # Ack
    BY <1>2, <2>3
  <2>7. fw.state = "wait" /\ ~seen.late /\ Finished
    BY <2>1, <2>5, <2>6 DEF StreamInv, Answered
  <2>8. fw.tx = <<"wrprot">>
    <3> SUFFICES ASSUME NEW reply \in Status, fw.tx = Ack \o <<reply>> PROVE FALSE
      BY <2>7 DEF Finished
    <3>1. fw.tx = <<"ack", reply>>
      <4>1. <<"ack", reply>> = <<"ack">> \o <<reply>>
        OBVIOUS
      <4> QED BY <2>3, <4>1
    <3> QED BY <1>2, <3>1
  <2>9. fw.rx = 0 /\ ~seen.ran /\ ~fw.gate
    BY <2>1, <2>7 DEF StreamInv, SentKnown, NothingLeftToRun
  <2>10. fw' = [fw EXCEPT !.tx = <<>>]
    BY <2>1, <2>8
  <2>11. fw' \in Firmware /\ fw'.state = "wait" /\ fw'.tx = <<>> /\ fw'.rx = 0
    <3>1. <<>> \in Seq(Answer)
      OBVIOUS
    <3> QED BY <2>2, <2>7, <2>9, <2>10, <3>1 DEF Firmware
  <2>12. fw'.gate = fw.gate
    BY <2>2, <2>10 DEF Firmware
  <2>13. host' \in HostSide /\ host'.stage = "idle" /\ host'.op = "none" /\ host'.sent = 0 /\ host'.total = 0
    BY <2>1 DEF NoStream, HostSide
  <2>14. fw'.state \notin Flowing
    BY <2>11 DEF Flowing, Writing
  <2>15. StreamTypes' /\ StreamKnown' /\ PulsesKnown'
    BY <2>1, <2>2, <2>11, <2>13, <2>14 DEF StreamTypes, StreamKnown, PulsesKnown, Pulsed, Flowing
  <2>16. SentKnown' /\ AtWork' /\ Answered' /\ SourceKnown'
    BY <2>11, <2>13, <2>14 DEF SentKnown, AtWork, Answered, SourceKnown
  <2>17. NothingLeftToRun' /\ Balanced'
    BY <2>1, <2>9, <2>12, <2>13 DEF NothingLeftToRun, Balanced
  <2> QED BY <2>15, <2>16, <2>17 DEF StreamInv
<1> QED BY <1>1, <1>2

\* An answer, or a packet of a source, that is read.
LEMMA ReceiveKeeps ==
  ASSUME StreamInv, Receive
  PROVE  StreamInv'
<1>1. /\ host.stage = "sent" /\ fw.tx # <<>> /\ seen' = seen /\ fw' = [fw EXCEPT !.tx = Tail(fw.tx)]
  BY DEF Receive
<1>2. fw \in Firmware /\ host \in HostSide /\ seen \in History
  BY DEF StreamInv, StreamTypes
<1>3. Tail(fw.tx) \in Seq(Answer) /\ Head(fw.tx) \in Answer
  BY <1>1, <1>2, HeadTailProperties DEF Firmware
<1>4. /\ fw' \in Firmware /\ fw'.state = fw.state /\ fw'.tx = Tail(fw.tx) /\ fw'.rx = fw.rx
      /\ fw'.todo = fw.todo
  BY <1>1, <1>2, <1>3 DEF Firmware
<1>5. fw'.gate = fw.gate
  BY <1>1, <1>2 DEF Firmware
<1>6. Ack = <<>> /\ host.op # "none"
  BY <1>1 DEF Ack, StreamInv, AtWork
<1>7. NothingLeftToRun'
  BY <1>1, <1>4, <1>5 DEF StreamInv, NothingLeftToRun
<1>8. CASE host.op = "source"
  <2>1. host' = [host EXCEPT !.got = host.got + Head(fw.tx),
                             !.stage = IF Head(fw.tx) < Mps THEN "idle" ELSE host.stage]
    BY <1>8 DEF Receive
  <2>2. /\ fw.tx = Ack \o Owed /\ Owed \in Seq(Nat)
        /\ \A i \in DOMAIN Owed :
             Owed[i] = Mps \/ (Owed[i] < Mps /\ i = Len(Owed) /\ fw.state = "wait" /\ ~seen.late)
        /\ ~seen.late => host.got + Total(Owed) + fw.todo = host.total
        /\ ~seen.late /\ fw.state = "wait" =>
             fw.todo = 0 /\ Owed # <<>> /\ Owed[Len(Owed)] < Mps
    BY <1>1, <1>8 DEF StreamInv, SourceKnown
  <2>3. Owed = fw.tx
    BY <1>1 DEF Owed
  <2> DEFINE owed == fw.tx
             rest == Tail(owed)
  <2>4. /\ owed \in Seq(Nat) /\ owed # <<>>
        /\ \A i \in DOMAIN owed :
             owed[i] = Mps \/ (owed[i] < Mps /\ i = Len(owed) /\ fw.state = "wait" /\ ~seen.late)
        /\ ~seen.late => host.got + Total(owed) + fw.todo = host.total
        /\ ~seen.late /\ fw.state = "wait" => fw.todo = 0 /\ owed[Len(owed)] < Mps
    BY <1>1, <2>2, <2>3
  <2>5. fw'.tx = rest /\ host' = [host EXCEPT !.got = host.got + Head(owed),
                                              !.stage = IF Head(owed) < Mps THEN "idle" ELSE "sent"]
    BY <1>1, <1>4, <2>1
  <2> HIDE DEF owed
  <2>6. /\ Total(owed) = owed[1] + Total(rest) /\ owed[1] \in Nat /\ rest \in Seq(Nat)
        /\ Head(owed) = owed[1] /\ Total(rest) \in Nat
    BY <2>4, TotalTail, TotalType
  <2>7. /\ Len(owed) \in Nat \ {0} /\ Len(rest) = Len(owed) - 1 /\ DOMAIN owed = 1..Len(owed)
        /\ DOMAIN rest = 1..Len(rest) /\ \A i \in 1..Len(rest) : rest[i] = owed[i + 1]
    BY <2>4, <2>6, HeadTailProperties, LenProperties, EmptySeq
  <2> HIDE DEF rest
  <2>8. host.got \in Nat /\ Mps \in Nat /\ fw.todo \in Nat /\ host.total \in Nat
    BY <1>2, StreamsAssumption DEF HostSide, Firmware
  <2>9. /\ host' \in HostSide /\ host'.op = "source" /\ host'.total = host.total
        /\ host'.sent = host.sent /\ host'.got = host.got + owed[1]
        /\ host'.stage = IF owed[1] < Mps THEN "idle" ELSE "sent"
    <3>1. host.got + owed[1] \in Nat
      BY <2>6, <2>8
    <3> QED BY <1>2, <1>8, <2>5, <2>6, <3>1 DEF HostSide
  <2>10. \A i \in 1..Len(owed) :
           owed[i] = Mps \/ (owed[i] < Mps /\ i = Len(owed) /\ fw.state = "wait" /\ ~seen.late)
    BY <2>4, <2>7
  <2>11. fw.rx = 0
    BY <1>8 DEF StreamInv, SentKnown
  <2>12. fw.state \notin Flowing /\ fw.state \notin {"erase", "sink"}
    BY <1>8 DEF StreamInv, AtWork
  \* The short packet is the last.
  <2>13. ASSUME owed[1] < Mps
         PROVE  fw.state = "wait" /\ ~seen.late /\ rest = <<>> /\ host'.got = host.total
    <3>1. 1 \in 1..Len(owed) /\ owed[1] # Mps
      BY <2>6, <2>7, <2>8, <2>13
    <3>2. 1 = Len(owed) /\ fw.state = "wait" /\ ~seen.late
      BY <2>10, <3>1
    <3>3. rest = <<>>
      <4>1. Len(rest) = 0
        <5>1. Len(rest) = Len(owed) - 1
          BY <2>7
        <5>2. Len(owed) = 1
          BY <3>2
        <5> QED BY <5>1, <5>2
      <4> QED BY <2>6, <4>1, EmptySeq
    <3>4. Total(rest) = 0
      BY <3>3, TotalSmall
    <3>5. host.got + Total(owed) + fw.todo = host.total /\ fw.todo = 0
      BY <2>4, <3>2
    <3> QED BY <2>6, <2>8, <2>9, <3>2, <3>3, <3>4, <3>5
  <2>14. StreamTypes'
    BY <1>1, <1>2, <1>4, <2>9 DEF StreamTypes
  <2>15. StreamKnown' /\ PulsesKnown'
    BY <1>4, <2>12 DEF StreamKnown, PulsesKnown, Pulsed, Flowing
  <2>16. SentKnown'
    <3>1. SentKnown
      BY DEF StreamInv
    <3> QED BY <1>1, <1>4, <1>8, <2>9, <2>11, <2>12, <3>1 DEF SentKnown
  <2>17. AtWork'
    <3>1. AtWork
      BY DEF StreamInv
    <3> QED BY <1>1, <1>4, <1>8, <2>5, <2>9, <2>12, <2>13, <3>1 DEF AtWork
  <2>18. Answered'
    BY <2>9 DEF Answered
  <2>19. Balanced'
    BY <1>1, <2>9, <2>13 DEF Balanced
  <2>20. SourceKnown'
    <3> SUFFICES ASSUME host'.stage # "idle" PROVE SourceKnown'
      BY DEF SourceKnown
    <3>1. ~(owed[1] < Mps) /\ host'.stage = "sent"
      BY <2>9
    <3>2. owed[1] = Mps
      BY <2>7, <2>10, <3>1
    <3>3. Owed' = rest /\ Ack' = <<>>
      BY <2>5, <3>1 DEF Owed, Ack
    <3>4. fw'.tx = Ack' \o Owed'
      <4>1. <<>> \o rest = rest
        BY <2>6, ConcatEmptySeq
      <4> QED BY <2>5, <3>3, <4>1
    <3>5. \A i \in DOMAIN rest :
            rest[i] = Mps \/ (rest[i] < Mps /\ i = Len(rest) /\ fw'.state = "wait" /\ ~seen'.late)
      <4> TAKE i \in DOMAIN rest
      <4>1. i \in 1..Len(rest) /\ i + 1 \in 1..Len(owed) /\ rest[i] = owed[i + 1]
        BY <2>7
      <4>2. \/ owed[i + 1] = Mps
            \/ (owed[i + 1] < Mps /\ i + 1 = Len(owed) /\ fw.state = "wait" /\ ~seen.late)
        BY <2>10, <4>1
      <4>3. i + 1 = Len(owed) => i = Len(rest)
        BY <2>7, <4>1
      <4> QED BY <1>1, <1>4, <4>1, <4>2, <4>3
    <3>6. ~seen.late => host'.got + Total(rest) + fw.todo = host.total
      BY <2>4, <2>6, <2>8, <2>9
    <3>7. ASSUME ~seen.late, fw.state = "wait"
          PROVE  fw.todo = 0 /\ rest # <<>> /\ rest[Len(rest)] < Mps
      <4>1. fw.todo = 0 /\ owed[Len(owed)] < Mps
        BY <2>4, <3>7
      <4>2. Len(owed) # 1
        BY <3>1, <4>1
      <4>3. Len(rest) \in 1..Len(rest) /\ Len(rest) + 1 = Len(owed)
        BY <2>7, <4>2
      <4>4. rest[Len(rest)] = owed[Len(owed)]
        BY <2>7, <4>3
      <4>5. rest # <<>>
        BY <2>6, <4>3, EmptySeq
      <4> QED BY <4>1, <4>4, <4>5
    <3> QED BY <1>1, <1>4, <2>6, <2>9, <3>1, <3>3, <3>4, <3>5, <3>6, <3>7 DEF SourceKnown
  <2> QED BY <1>7, <2>14, <2>15, <2>16, <2>17, <2>18, <2>19, <2>20 DEF StreamInv
<1>9. CASE host.op # "source"
  <2>1. host' = [host EXCEPT !.status = Head(fw.tx), !.stage = "idle"]
    BY <1>9 DEF Receive
  <2>2. host.op \in {"write", "erase", "sink"}
    BY <1>2, <1>6, <1>9 DEF HostSide
  <2>3. fw.state = "wait" /\ ~seen.late /\ Finished
    BY <1>1, <1>6, <2>2 DEF StreamInv, Answered
  <2>4. PICK reply \in Status :
          /\ fw.tx = Ack \o <<reply>> /\ host.sent = host.total /\ fw.rx = 0
          /\ host.op = "write" /\ reply = "okay" => Whole(seen)
    BY <1>1, <2>3 DEF Finished
  <2>5. fw.tx = <<reply>>
    BY <1>6, <2>4
  <2>6. fw'.tx = <<>> /\ Head(fw.tx) = reply
    BY <1>4, <2>5
  <2>7. /\ host' \in HostSide /\ host'.op = host.op /\ host'.total = host.total /\ host'.sent = host.sent
        /\ host'.stage = "idle" /\ host'.status = reply
    BY <1>2, <1>3, <2>1, <2>6 DEF HostSide
  <2>8. fw'.state = "wait" /\ fw'.rx = 0 /\ fw'.state \notin Flowing
    BY <1>4, <2>3, <2>4 DEF Flowing, Writing
  <2>9. StreamTypes'
    BY <1>1, <1>2, <1>4, <2>7 DEF StreamTypes
  <2>10. StreamKnown' /\ PulsesKnown'
    BY <2>8 DEF StreamKnown, PulsesKnown, Pulsed, Flowing
  <2>11. SentKnown'
    <3>1. SentKnown
      BY DEF StreamInv
    <3> QED BY <2>7, <2>8, <3>1 DEF SentKnown
  <2>12. AtWork' /\ Answered' /\ SourceKnown'
    BY <2>6, <2>7, <2>8 DEF AtWork, Answered, SourceKnown
  <2>13. Balanced'
    BY <1>1, <1>9, <2>4, <2>7 DEF Balanced, Whole
  <2> QED BY <1>7, <2>9, <2>10, <2>11, <2>12, <2>13 DEF StreamInv
<1> QED BY <1>8, <1>9

-----------------------------------------------------------------------------
LEMMA StreamNext ==
  ASSUME StreamInv, Next
  PROVE  StreamInv'
<1>1. ASSUME NEW s \in Streams, WritePrep(s) PROVE StreamInv'
  BY <1>1, WritePrepKeeps
<1>2. ASSUME NEW kind \in {"sink", "source"}, NEW n \in 0..MaxBytes, BytesPrep(kind, n) PROVE StreamInv'
  BY <1>2, BytesPrepKeeps
<1>3. CASE ErasePrep
  BY <1>3, ErasePrepKeeps
<1>4. CASE Device
  <2>1. CASE WaitData
    BY <2>1, WaitDataKeeps
  <2>2. CASE WaitIndex
    BY <2>2, WaitIndexKeeps
  <2>3. CASE Write
    BY <2>3, WriteKeeps
  <2>4. CASE WriteDrain
    BY <2>4, WriteDrainKeeps
  <2>5. CASE Erased
    BY <2>5, ErasedKeeps
  <2>6. CASE Sink
    BY <2>6, SinkKeeps
  <2>7. CASE Source
    BY <2>7, SourceKeeps
  <2>8. CASE Command
    BY <2>8, CommandKeeps
  <2> QED BY <1>4, <2>1, <2>2, <2>3, <2>4, <2>5, <2>6, <2>7, <2>8 DEF Device
<1>5. CASE Host
  BY <1>5, AcknowledgedKeeps, SendKeeps, ReceiveKeeps DEF Host
<1>6. CASE DmaPulse
  BY <1>6, DmaPulseKeeps
<1>7. CASE Index
  BY <1>7, IndexKeeps
<1>8. CASE Watchdog
  BY <1>8, WatchdogKeeps
<1>9. CASE GiveUp
  BY <1>9, GiveUpKeeps
<1> QED BY <1>1, <1>2, <1>3, <1>4, <1>5, <1>6, <1>7, <1>8, <1>9 DEF Next

LEMMA StreamInvAlways == MCSpec => []StreamInv
<1>1. MCInit => StreamInv
  <2> SUFFICES ASSUME MCInit PROVE StreamInv
    OBVIOUS
  <2>1. fw = Idle /\ host = NoStream /\ seen = NothingSeen
    BY DEF MCInit, Init
  <2> QED BY <2>1, AtStart, NothingSeenHolds
<1>2. StreamInv /\ [MCNext]_allVars => StreamInv'
  <2> SUFFICES ASSUME StreamInv, [MCNext]_allVars PROVE StreamInv'
    OBVIOUS
  <2>1. Next \/ UNCHANGED vars
    BY DEF MCNext, allVars
  <2>2. CASE UNCHANGED vars
    <3>1. fw' = fw /\ host' = host /\ seen' = seen
      BY <2>2 DEF vars
    <3>2. StreamTypes' /\ StreamKnown' /\ PulsesKnown' /\ SentKnown' /\ AtWork'
      BY <3>1 DEF StreamInv, StreamTypes, StreamKnown, PulsesKnown, SentKnown, AtWork
    <3>3. Ack' = Ack /\ Owed' = Owed /\ Finished' = Finished
      BY <3>1 DEF Ack, Owed, Finished
    <3>4. Answered' /\ NothingLeftToRun' /\ Balanced'
      BY <3>1, <3>3 DEF StreamInv, Answered, NothingLeftToRun, Balanced
    <3>5. SourceKnown'
      BY <3>1, <3>3 DEF StreamInv, SourceKnown
    <3> QED BY <3>2, <3>4, <3>5 DEF StreamInv
  <2> QED BY <2>1, <2>2, StreamNext
<1> QED BY <1>1, <1>2, PTL DEF MCSpec

-----------------------------------------------------------------------------
(* Where the flux changes of a stream are due, and where those of pulses are. *)

\* The changes that pulses make, of which the first begins at base.
TimesOf(base, p) == {base + Total(SubSeq(p, 1, k)) : k \in 1..Len(p)}
\* The changes that are due of the tokens that are left when base ticks have been read.
DueFrom(base, toks) ==
  {base + TimeOf(SubSeq(toks, 1, i)) : i \in {j \in DOMAIN toks : toks[j].kind = "flux"}}

LEMMA NatSubSeq ==
  ASSUME NEW S, NEW s \in Seq(S), NEW m \in Nat \ {0}, NEW n \in Nat, n <= Len(s)
  PROVE  SubSeq(s, m, n) \in Seq(S)
<1>1. \A i \in m .. n : s[i] \in S
  BY LenProperties, ElementOfSeq
<1> QED BY <1>1, SubSeqProperties

LEMMA TimesOfType ==
  ASSUME NEW base \in Nat, NEW p \in Seq(Nat)
  PROVE  TimesOf(base, p) \in SUBSET Nat
<1> SUFFICES ASSUME NEW k \in 1..Len(p) PROVE base + Total(SubSeq(p, 1, k)) \in Nat
  BY DEF TimesOf
<1>1. SubSeq(p, 1, k) \in Seq(Nat)
  BY NatSubSeq, LenProperties
<1>2. Total(SubSeq(p, 1, k)) \in Nat
  BY <1>1, TotalType
<1> QED BY <1>2

LEMMA TimesOfNone ==
  ASSUME NEW base
  PROVE  TimesOf(base, <<>>) = {}
BY EmptySeq DEF TimesOf

\* The changes of pulses that follow others come after theirs.
LEMMA TimesOfConcat ==
  ASSUME NEW base \in Nat, NEW p \in Seq(Nat), NEW q \in Seq(Nat)
  PROVE  TimesOf(base, p) \cup TimesOf(base + Total(p), q) = TimesOf(base, p \o q)
<1> DEFINE c == p \o q
<1>1. c \in Seq(Nat) /\ Len(p) \in Nat /\ Len(q) \in Nat /\ Len(c) = Len(p) + Len(q)
  BY ConcatProperties, LenProperties
<1>2. ASSUME NEW k \in 1..Len(p) PROVE Total(SubSeq(c, 1, k)) = Total(SubSeq(p, 1, k))
  <2>1. 1 \in 1..Len(p)
    BY <1>1
  <2>2. SubSeq(p \o q, 1, k) = SubSeq(p, 1, k)
    BY <2>1, SubSeqOfConcat1
  <2> QED BY <2>2
<1>3. ASSUME NEW k \in 1..Len(q)
      PROVE  base + Total(SubSeq(c, 1, Len(p) + k)) = (base + Total(p)) + Total(SubSeq(q, 1, k))
  <2>1. /\ 1 \in 1..(Len(c) + 1) /\ Len(p) \in 0..Len(c)
        /\ Len(p) + k \in Len(p)..Len(c)
    BY <1>1
  <2>2. SubSeq(c, 1, Len(p)) \o SubSeq(c, Len(p) + 1, Len(p) + k) = SubSeq(c, 1, Len(p) + k)
    <3>1. Len(p) \in (1 - 1)..Len(c)
      BY <2>1
    <3> HIDE DEF c
    <3> QED BY <1>1, <2>1, <3>1, ConcatAdjacentSubSeq
  <2>3. SubSeq(c, 1, Len(p)) = p
    <3>1. CASE Len(p) = 0
      <4>1. p = <<>>
        BY <3>1, EmptySeq
      <4>2. SubSeq(c, 1, 0) = <<>>
        BY SubSeqEmpty
      <4> QED BY <3>1, <4>1, <4>2
    <3>2. CASE Len(p) # 0
      <4>1. 1 \in 1..Len(p) /\ Len(p) \in 1..Len(p)
        BY <1>1, <3>2
      <4>2. SubSeq(p \o q, 1, Len(p)) = SubSeq(p, 1, Len(p))
        BY <4>1, SubSeqOfConcat1
      <4> QED BY <4>2, SubSeqFull
    <3> QED BY <3>1, <3>2
  <2>4. SubSeq(c, Len(p) + 1, Len(p) + k) = SubSeq(q, 1, k)
    <3>1. Len(p) + 1 \in Len(p) + 1 .. Len(p) + Len(q) /\ Len(p) + k \in Len(p) + 1 .. Len(p) + Len(q)
      BY <1>1
    <3>2. SubSeq(p \o q, Len(p) + 1, Len(p) + k)
            = SubSeq(q, (Len(p) + 1) - Len(p), (Len(p) + k) - Len(p))
      BY <3>1, SubSeqOfConcat2
    <3>3. (Len(p) + 1) - Len(p) = 1 /\ (Len(p) + k) - Len(p) = k
      BY <1>1
    <3> QED BY <3>2, <3>3
  <2>5. SubSeq(q, 1, k) \in Seq(Nat)
    BY <1>1, NatSubSeq
  <2>6. Total(SubSeq(c, 1, Len(p) + k)) = Total(p) + Total(SubSeq(q, 1, k))
    <3> HIDE DEF c
    <3> QED BY <2>2, <2>3, <2>4, <2>5, TotalConcat
  <2>7. Total(p) \in Nat /\ Total(SubSeq(q, 1, k)) \in Nat
    BY <2>5, TotalType
  <2> HIDE DEF c
  <2> QED BY <2>6, <2>7
<1> HIDE DEF c
<1>4. ASSUME NEW t \in TimesOf(base, p) PROVE t \in TimesOf(base, c)
  <2>1. PICK k \in 1..Len(p) : t = base + Total(SubSeq(p, 1, k))
    BY DEF TimesOf
  <2>2. t = base + Total(SubSeq(c, 1, k)) /\ k \in 1..Len(c)
    BY <1>1, <1>2, <2>1
  <2> QED BY <2>2 DEF TimesOf
<1>5. ASSUME NEW t \in TimesOf(base + Total(p), q) PROVE t \in TimesOf(base, c)
  <2>1. PICK k \in 1..Len(q) : t = (base + Total(p)) + Total(SubSeq(q, 1, k))
    BY DEF TimesOf
  <2>2. t = base + Total(SubSeq(c, 1, Len(p) + k)) /\ Len(p) + k \in 1..Len(c)
    BY <1>1, <1>3, <2>1
  <2> QED BY <2>2 DEF TimesOf
<1>6. ASSUME NEW t \in TimesOf(base, c)
      PROVE  t \in TimesOf(base, p) \cup TimesOf(base + Total(p), q)
  <2>1. PICK k \in 1..Len(c) : t = base + Total(SubSeq(c, 1, k))
    BY DEF TimesOf
  <2>2. CASE k \in 1..Len(p)
    <3>1. t = base + Total(SubSeq(p, 1, k))
      BY <1>2, <2>1, <2>2
    <3> QED BY <2>2, <3>1 DEF TimesOf
  <2>3. CASE k \notin 1..Len(p)
    <3>1. k - Len(p) \in 1..Len(q) /\ Len(p) + (k - Len(p)) = k
      BY <1>1, <2>3
    <3>2. t = (base + Total(p)) + Total(SubSeq(q, 1, k - Len(p)))
      BY <1>3, <2>1, <3>1
    <3> QED BY <3>1, <3>2 DEF TimesOf
  <2> QED BY <2>2, <2>3
<1>7. TimesOf(base, p) \cup TimesOf(base + Total(p), q) = TimesOf(base, c)
  BY <1>4, <1>5, <1>6
<1> QED BY <1>7 DEF c

LEMMA TimesOfOne ==
  ASSUME NEW base \in Nat, NEW x \in Nat
  PROVE  TimesOf(base, <<x>>) = {base + x}
<1> DEFINE p == <<x>>
<1>1. p \in Seq(Nat) /\ Len(p) = 1
  OBVIOUS
<1>2. SubSeq(p, 1, 1) = p /\ Total(p) = x
  <2>1. SubSeq(p, 1, Len(p)) = p
    BY <1>1, SubSeqFull
  <2> QED BY <1>1, <2>1, TotalSmall
<1> HIDE DEF p
<1>3. \A k \in 1..Len(p) : k = 1
  BY <1>1
<1>4. 1 \in 1..Len(p)
  BY <1>1
<1>5. TimesOf(base, p) = {base + x}
  BY <1>2, <1>3, <1>4 DEF TimesOf
<1> QED BY <1>5 DEF p

\* A pulse more, and a pulse that has gone.
LEMMA TimesOfAppend ==
  ASSUME NEW base \in Nat, NEW p \in Seq(Nat), NEW x \in Nat
  PROVE  TimesOf(base, Append(p, x)) = TimesOf(base, p) \cup {base + (Total(p) + x)}
<1> DEFINE one == <<x>>
<1>1. Append(p, x) = p \o one /\ one \in Seq(Nat)
  BY AppendIsConcat
<1>2. Total(p) \in Nat /\ base + Total(p) \in Nat
  BY TotalType
<1>3. TimesOf(base + Total(p), one) = {(base + Total(p)) + x}
  BY <1>2, TimesOfOne
<1> HIDE DEF one
<1>4. (base + Total(p)) + x = base + (Total(p) + x)
  BY <1>2
<1>5. TimesOf(base, p) \cup TimesOf(base + Total(p), one) = TimesOf(base, p \o one)
  <2>1. one \in Seq(Nat)
    BY <1>1
  <2> QED BY <2>1, TimesOfConcat
<1> QED BY <1>1, <1>3, <1>4, <1>5

LEMMA TimesOfTail ==
  ASSUME NEW base \in Nat, NEW p \in Seq(Nat), p # <<>>
  PROVE  TimesOf(base, p) = {base + Head(p)} \cup TimesOf(base + Head(p), Tail(p))
<1>1. Tail(p) \in Seq(Nat) /\ Len(p) \in Nat \ {0} /\ Head(p) = p[1] /\ p[1] \in Nat
  BY HeadTailProperties, TotalTail, EmptySeq
<1>2. 1 \in 1..Len(p) /\ Len(p) \in 1..Len(p)
  BY <1>1
<1>3. SubSeq(p, 1, Len(p)) = <<p[1]>> \o SubSeq(p, 1 + 1, Len(p))
  BY <1>2, SubSeqRecursiveFirst
<1>4. SubSeq(p, 1, Len(p)) = p /\ Tail(p) = SubSeq(p, 2, Len(p))
  BY SubSeqFull, TailIsSubSeq
<1>5. p = <<p[1]>> \o Tail(p)
  BY <1>3, <1>4
<1>6. <<p[1]>> \in Seq(Nat) /\ Total(<<p[1]>>) = p[1] /\ TimesOf(base, <<p[1]>>) = {base + p[1]}
  BY <1>1, TotalSmall, TimesOfOne
<1>7. TimesOf(base, <<p[1]>>) \cup TimesOf(base + Total(<<p[1]>>), Tail(p)) = TimesOf(base, <<p[1]>> \o Tail(p))
  BY <1>1, <1>6, TimesOfConcat
<1> QED BY <1>1, <1>5, <1>6, <1>7

\* The time of what is left: of nothing, and after a token.
LEMMA TimeLeft ==
  ASSUME NEW toks \in Seq(Token)
  PROVE  /\ TimeOf(toks) \in Nat /\ TimeOf(<<>>) = 0
         /\ toks # <<>> => /\ TicksOf(toks[1]) \in Nat
                           /\ TimeOf(toks) = TicksOf(toks[1]) + TimeOf(Tail(toks))
<1> DEFINE Ticks(s) == [i \in DOMAIN s |-> TicksOf(s[i])]
<1>1. ASSUME NEW s \in Seq(Token)
      PROVE  Ticks(s) \in Seq(Nat) /\ Len(Ticks(s)) = Len(s) /\ Len(s) \in Nat
             /\ \A i \in 1..Len(s) : Ticks(s)[i] = TicksOf(s[i]) /\ TicksOf(s[i]) \in Nat
  <2>1. Len(s) \in Nat /\ DOMAIN s = 1..Len(s) /\ \A i \in 1..Len(s) : s[i] \in Token
    BY LenProperties, ElementOfSeq
  <2>2. \A i \in 1..Len(s) : TicksOf(s[i]) \in Nat
    BY <2>1 DEF Token, TicksOf
  <2> QED BY <2>1, <2>2
<1>2. TimeOf(toks) = Total(Ticks(toks)) /\ TimeOf(Tail(toks)) = Total(Ticks(Tail(toks)))
      /\ TimeOf(<<>>) = Total(Ticks(<<>>))
  BY DEF TimeOf
<1>3. Ticks(<<>>) = <<>>
  OBVIOUS
<1>4. ASSUME toks # <<>>
      PROVE  /\ TicksOf(toks[1]) \in Nat
             /\ TimeOf(toks) = TicksOf(toks[1]) + TimeOf(Tail(toks))
  <2>1. /\ Tail(toks) \in Seq(Token) /\ Len(toks) \in Nat \ {0} /\ Len(Tail(toks)) = Len(toks) - 1
        /\ \A i \in 1..Len(Tail(toks)) : Tail(toks)[i] = toks[i + 1]
    BY <1>4, HeadTailProperties, EmptySeq
  <2> DEFINE a == Ticks(toks)
             b == Ticks(Tail(toks))
  <2>2. /\ a \in Seq(Nat) /\ Len(a) = Len(toks)
        /\ \A i \in 1..Len(toks) : a[i] = TicksOf(toks[i]) /\ TicksOf(toks[i]) \in Nat
        /\ b \in Seq(Nat) /\ Len(b) = Len(toks) - 1
        /\ \A i \in 1..(Len(toks) - 1) : b[i] = TicksOf(Tail(toks)[i])
    BY <1>1, <2>1
  <2> HIDE DEF a, b
  <2>3. a # <<>>
    BY <2>1, <2>2
  <2>4. /\ Tail(a) \in Seq(Nat) /\ Len(Tail(a)) = Len(toks) - 1
        /\ \A i \in 1..Len(Tail(a)) : Tail(a)[i] = a[i + 1]
    BY <2>2, <2>3, HeadTailProperties
  <2>5. \A i \in 1..Len(Tail(a)) : Tail(a)[i] = b[i]
    <3> TAKE i \in 1..Len(Tail(a))
    <3>1. i \in 1..(Len(toks) - 1) /\ i + 1 \in 1..Len(toks)
      BY <2>1, <2>4
    <3> QED BY <2>1, <2>2, <2>4, <3>1
  <2>6. Tail(a) = b
    BY <2>2, <2>4, <2>5, SeqEqual
  <2>7. Total(a) = a[1] + Total(Tail(a))
    BY <2>2, <2>3, TotalTail
  <2>8. a[1] = TicksOf(toks[1]) /\ TicksOf(toks[1]) \in Nat
    BY <2>1, <2>2
  <2>9. Total(a) = TicksOf(toks[1]) + Total(b)
    BY <2>6, <2>7, <2>8
  <2> QED BY <1>2, <2>8, <2>9 DEF a, b
<1>5. TimeOf(toks) \in Nat
  BY <1>1, <1>2, TotalType
<1> QED BY <1>2, <1>3, <1>4, <1>5, TotalSmall

LEMMA DueFromStart ==
  ASSUME NEW toks \in Seq(Token)
  PROVE  DueFrom(0, toks) = Due(toks)
<1>1. \A i \in DOMAIN toks : TimeOf(SubSeq(toks, 1, i)) \in Nat
  <2> TAKE i \in DOMAIN toks
  <2>1. SubSeq(toks, 1, i) \in Seq(Token)
    BY NatSubSeq, LenProperties
  <2> QED BY <2>1, TimeLeft
<1>2. \A i \in DOMAIN toks : 0 + TimeOf(SubSeq(toks, 1, i)) = TimeOf(SubSeq(toks, 1, i))
  BY <1>1
<1> QED BY <1>2 DEF DueFrom, Due

LEMMA DueFromNone == \A base : DueFrom(base, <<>>) = {}
BY EmptySeq DEF DueFrom

\* What is due is due of the next token, or of those after it.
LEMMA DueNext ==
  ASSUME NEW base \in Nat, NEW toks \in Seq(Token), toks # <<>>, NEW t \in DueFrom(base, toks)
  PROVE  \/ toks[1].kind = "flux" /\ t = base + TicksOf(toks[1])
         \/ t \in DueFrom(base + TicksOf(toks[1]), Tail(toks))
<1>1. PICK i \in DOMAIN toks : toks[i].kind = "flux" /\ t = base + TimeOf(SubSeq(toks, 1, i))
  BY DEF DueFrom
<1>2. /\ Tail(toks) \in Seq(Token) /\ Len(toks) \in Nat \ {0} /\ DOMAIN toks = 1..Len(toks)
      /\ Len(Tail(toks)) = Len(toks) - 1 /\ DOMAIN Tail(toks) = 1..(Len(toks) - 1)
      /\ \A j \in 1..Len(Tail(toks)) : Tail(toks)[j] = toks[j + 1]
  BY HeadTailProperties, LenProperties, EmptySeq
<1> DEFINE s == SubSeq(toks, 1, i)
<1>3. i \in 1..Len(toks) /\ 1 \in 1..Len(toks)
  BY <1>1, <1>2
<1>4. /\ s \in Seq(Token) /\ Len(s) = i /\ s[1] = toks[1]
  <2>1. \A j \in 1 .. i : toks[j] \in Token
    BY <1>2, <1>3, ElementOfSeq
  <2>2. /\ s \in Seq(Token) /\ Len(s) = IF 1 <= i THEN i - 1 + 1 ELSE 0
        /\ \A j \in 1 .. i - 1 + 1 : s[j] = toks[1 + j - 1]
    BY <1>3, <2>1, SubSeqProperties
  <2>3. 1 \in 1 .. i - 1 + 1 /\ 1 + 1 - 1 = 1 /\ i - 1 + 1 = i /\ 1 <= i
    BY <1>3
  <2> HIDE DEF s
  <2> QED BY <2>2, <2>3
<1>5. Tail(s) = SubSeq(toks, 2, i)
  <2>1. i \in 1 .. Len(toks)
    BY <1>3
  <2>2. Tail(SubSeq(toks, 1, i)) = SubSeq(toks, 1 + 1, i)
    BY <1>3, <2>1, HeadTailOfSubSeq
  <2> QED BY <2>2
<1> HIDE DEF s
<1>6. s # <<>>
  BY <1>3, <1>4
<1>7. /\ TicksOf(toks[1]) \in Nat /\ TimeOf(s) = TicksOf(toks[1]) + TimeOf(Tail(s))
      /\ Tail(s) \in Seq(Token) /\ TimeOf(Tail(s)) \in Nat
  <2>1. Tail(s) \in Seq(Token)
    BY <1>4, <1>6, HeadTailProperties
  <2> QED BY <1>4, <1>6, <2>1, TimeLeft
<1>8. CASE i = 1
  <2>1. Tail(s) = <<>>
    BY <1>5, <1>8, SubSeqEmpty
  <2>2. TimeOf(<<>>) = 0
    BY TimeLeft
  <2>3. TimeOf(s) = TicksOf(toks[1]) + 0
    BY <1>7, <2>1, <2>2
  <2>4. TimeOf(s) = TicksOf(toks[1])
    BY <1>7, <2>3
  <2> QED BY <1>1, <1>8, <2>4 DEF s
<1>9. CASE i # 1
  <2>1. i - 1 \in 1..Len(Tail(toks)) /\ 1 \in 1..Len(Tail(toks))
    BY <1>2, <1>3, <1>9
  <2>2. SubSeq(toks, 2, i) = SubSeq(Tail(toks), 1, i - 1)
    <3>1. /\ 2 \in 1..Len(toks) /\ Len(toks) \in 1..Len(toks)
          /\ 1 \in 1 .. Len(toks) - 2 + 1 /\ i - 1 \in 1 .. Len(toks) - 2 + 1
      BY <1>2, <1>3, <2>1
    <3>2. SubSeq(SubSeq(toks, 2, Len(toks)), 1, i - 1) = SubSeq(toks, 2 + 1 - 1, 2 + (i - 1) - 1)
      BY <3>1, SubSeqOfSubSeq
    <3>3. Tail(toks) = SubSeq(toks, 2, Len(toks))
      BY TailIsSubSeq
    <3>4. 2 + 1 - 1 = 2 /\ 2 + (i - 1) - 1 = i
      BY <1>3
    <3> QED BY <3>2, <3>3, <3>4
  <2>3. t = (base + TicksOf(toks[1])) + TimeOf(SubSeq(Tail(toks), 1, i - 1))
    <3>1. t = base + TimeOf(s) /\ TimeOf(s) = TicksOf(toks[1]) + TimeOf(SubSeq(Tail(toks), 1, i - 1))
      BY <1>1, <1>5, <1>7, <2>2 DEF s
    <3>2. TimeOf(SubSeq(Tail(toks), 1, i - 1)) \in Nat
      BY <1>5, <1>7, <2>2
    <3> QED BY ONLY <1>7, <3>1, <3>2, base \in Nat
  <2>4. i - 1 \in DOMAIN Tail(toks) /\ Tail(toks)[i - 1].kind = "flux"
    <3>1. Tail(toks)[i - 1] = toks[(i - 1) + 1] /\ (i - 1) + 1 = i
      BY <1>2, <1>3, <2>1
    <3> QED BY <1>1, <1>2, <2>1, <3>1
  <2> QED BY <2>3, <2>4 DEF DueFrom
<1> QED BY <1>8, <1>9

-----------------------------------------------------------------------------
(* What a decoder knows of its stream when it has read some of it. *)

\* All that is left takes what is left of the time, the last pulse was the last change that
\* was made, and every change that was due is there, or is still to come: of a token that
\* is left, or of the flux that is being split.
Told(toks, mode, read, made, P, stream) ==
  /\ read + TimeOf(toks) = TimeOf(stream)
  /\ made \in {0} \cup P
  /\ mode = "oneshot" => toks # <<>>
  /\ \A t \in Due(stream) : Near(t, P) \/ t \in DueFrom(read, toks) \/ (mode = "oneshot" /\ t = read)

LEMMA NearMore ==
  ASSUME NEW t, NEW P, NEW Q, P \subseteq Q, Near(t, P)
  PROVE  Near(t, Q)
BY DEF Near

\* More pulses.
LEMMA ToldMore ==
  ASSUME NEW toks, NEW mode, NEW read, NEW made, NEW P, NEW stream,
         Told(toks, mode, read, made, P, stream), NEW Q, P \subseteq Q, NEW last \in {0} \cup Q
  PROVE  Told(toks, mode, read, last, Q, stream)
BY NearMore DEF Told

\* Another mode, when a flux that was split is there.
LEMMA ToldMode ==
  ASSUME NEW toks, NEW mode, NEW read, NEW made, NEW P, NEW stream,
         Told(toks, mode, read, made, P, stream), mode = "oneshot" => Near(read, P),
         NEW next, next # "oneshot"
  PROVE  Told(toks, next, read, made, P, stream)
BY DEF Told

\* Another token.
LEMMA ToldNext ==
  ASSUME NEW toks \in Seq(Token), NEW mode, NEW read \in Nat, NEW made, NEW P, NEW stream,
         Told(toks, mode, read, made, P, stream), mode # "oneshot", toks # <<>>,
         NEW next, next = "oneshot" => Tail(toks) # <<>>,
         toks[1].kind = "flux" => Near(read + TicksOf(toks[1]), P) \/ next = "oneshot"
  PROVE  Told(Tail(toks), next, read + TicksOf(toks[1]), made, P, stream)
<1> DEFINE after == read + TicksOf(toks[1])
<1>1. /\ read + TimeOf(toks) = TimeOf(stream) /\ made \in {0} \cup P
      /\ \A t \in Due(stream) : Near(t, P) \/ t \in DueFrom(read, toks)
  BY DEF Told
<1>2. after + TimeOf(Tail(toks)) = TimeOf(stream)
  <2>1. TicksOf(toks[1]) \in Nat /\ TimeOf(toks) = TicksOf(toks[1]) + TimeOf(Tail(toks))
    BY TimeLeft
  <2>2. TimeOf(Tail(toks)) \in Nat
    BY TimeLeft, HeadTailProperties
  <2> QED BY <1>1, <2>1, <2>2
<1>3. ASSUME NEW t \in Due(stream)
      PROVE  Near(t, P) \/ t \in DueFrom(after, Tail(toks)) \/ (next = "oneshot" /\ t = after)
  <2>1. Near(t, P) \/ t \in DueFrom(read, toks)
    BY <1>1
  <2>2. CASE t \in DueFrom(read, toks)
    <3>1. (toks[1].kind = "flux" /\ t = after) \/ t \in DueFrom(after, Tail(toks))
      BY <2>2, DueNext
    <3> QED BY <3>1
  <2> QED BY <2>1, <2>2
<1> HIDE DEF after
<1>4. Told(Tail(toks), next, after, made, P, stream)
  BY <1>1, <1>2, <1>3 DEF Told
<1> QED BY <1>4 DEF after

\* A stream that was read to its end is there.
LEMMA ToldAll ==
  ASSUME NEW mode, NEW read \in Nat, NEW made, NEW P, NEW stream,
         Told(<<>>, mode, read, made, P, stream)
  PROVE  read = TimeOf(stream) /\ \A t \in Due(stream) : Near(t, P)
<1>1. <<>> \in Seq(Token)
  BY EmptySeq
<1>2. TimeOf(<<>>) = 0
  BY <1>1, TimeLeft
<1>3. read + 0 = TimeOf(stream)
  BY <1>2 DEF Told
<1>4. \A t \in Due(stream) : Near(t, P)
  BY DueFromNone DEF Told
<1> QED BY <1>3, <1>4

\* At the start all of it is due.
LEMMA ToldNothing ==
  ASSUME NEW stream \in Seq(Token), NEW P
  PROVE  Told(stream, "idle", 0, 0, P, stream)
<1>1. 0 + TimeOf(stream) = TimeOf(stream)
  BY TimeLeft
<1> QED BY <1>1, DueFromStart DEF Told

\* The decoder, which began with a stream of which read0 ticks had been read and made0 of
\* them were those of the pulses that made the changes P0.
Tells(d, read0, made0, P0, stream) ==
  Told(d.toks, d.mode, read0 + d.read, made0 + Total(d.pulses), P0 \cup TimesOf(made0, d.pulses), stream)

\* A pulse of what is carried.
LEMMA EmitTells ==
  ASSUME NEW d \in Decoder, NEW p \in Nat, p <= d.ticks, NEW read0 \in Nat, NEW made0 \in Nat,
         NEW P0, NEW stream, Tells(d, read0, made0, P0, stream)
  PROVE  LET e == Emit(d, p)
         IN  /\ Tells(e, read0, made0, P0, stream) /\ e.mode = d.mode
             /\ made0 + (Total(d.pulses) + p) \in TimesOf(made0, e.pulses)
<1> DEFINE e == Emit(d, p)
           P == P0 \cup TimesOf(made0, d.pulses)
           Q == P0 \cup TimesOf(made0, e.pulses)
<1>1. d.pulses \in Seq(Nat) /\ d.ticks \in Nat
  BY DEF Decoder
<1>2. e = [d EXCEPT !.ticks = d.ticks - p, !.pulses = Append(d.pulses, p)]
  BY DEF Emit
<1>3. e.toks = d.toks /\ e.read = d.read /\ e.mode = d.mode /\ e.pulses = Append(d.pulses, p)
  BY <1>2 DEF Decoder
<1> HIDE DEF e
<1>4. TimesOf(made0, e.pulses) = TimesOf(made0, d.pulses) \cup {made0 + (Total(d.pulses) + p)}
  BY <1>1, <1>3, TimesOfAppend
<1>5. Total(e.pulses) = Total(d.pulses) + p
  BY <1>1, <1>3, TotalAppend
<1>6. P \subseteq Q /\ made0 + Total(e.pulses) \in {0} \cup Q
  BY <1>4, <1>5
<1>7. Told(d.toks, d.mode, read0 + d.read, made0 + Total(d.pulses), P, stream)
  BY DEF Tells
<1> HIDE DEF P, Q
<1>8. Told(d.toks, d.mode, read0 + d.read, made0 + Total(e.pulses), Q, stream)
  BY <1>6, <1>7, ToldMore
<1>9. Told(e.toks, e.mode, read0 + e.read, made0 + Total(e.pulses), Q, stream)
  BY <1>3, <1>8
<1>10. Tells(e, read0, made0, P0, stream)
  BY <1>9 DEF Tells, Q
<1> QED BY <1>3, <1>4, <1>10 DEF e

\* The time of the pulses and what is carried is the time that was read.
LEMMA CarriedIs ==
  ASSUME NEW d \in Decoder, NEW read0 \in Nat, NEW made0 \in Nat, NEW given \in Nat,
         made0 + given = read0, Timed(d, given)
  PROVE  /\ (made0 + Total(d.pulses)) + d.ticks = read0 + d.read
         /\ Total(d.pulses) \in Nat /\ d.ticks \in Nat /\ d.read \in Nat
<1>1. d.pulses \in Seq(Nat) /\ d.ticks \in Nat /\ d.read \in Nat
  BY DEF Decoder
<1>2. Total(d.pulses) \in Nat
  BY <1>1, TotalType
<1>3. Total(d.pulses) + d.ticks = d.read + given
  BY DEF Timed
<1> QED BY <1>1, <1>2, <1>3

\* What is carried is less than a pulse: the change was made with the last one.
LEMMA CarriedIsNear ==
  ASSUME NEW d \in Decoder, NEW read0 \in Nat, NEW made0 \in Nat, NEW P0, NEW stream,
         Tells(d, read0, made0, P0, stream), NEW ticks \in Nat, ticks <= MinPulse,
         NEW t \in Nat, (made0 + Total(d.pulses)) + ticks = t
  PROVE  Near(t, P0 \cup TimesOf(made0, d.pulses))
<1> DEFINE c == made0 + Total(d.pulses)
<1>1. c \in {0} \cup (P0 \cup TimesOf(made0, d.pulses))
  BY DEF Tells, Told
<1>2. Total(d.pulses) \in Nat
  BY TotalType DEF Decoder
<1>3. MinPulse \in Nat
  BY StreamsAssumption
<1>4. c <= t /\ t - c <= MinPulse
  BY <1>2, <1>3
<1> QED BY <1>1, <1>4 DEF Near

\* A token, of a decoder that has no mode to leave.
LEMMA TokenTells ==
  ASSUME NEW d \in Decoder, d.toks # <<>>, d.mode = "idle",
         d.toks[1].kind # "nul" => Tail(d.toks) # <<>>,
         NEW read0 \in Nat, NEW made0 \in Nat, NEW P0, NEW stream, Tells(d, read0, made0, P0, stream),
         (made0 + Total(d.pulses)) + d.ticks = read0 + d.read
  PROVE  Tells(OneToken(d, d.toks[1]), read0, made0, P0, stream)
<1> DEFINE t == d.toks[1]
           r == OneToken(d, t)
           more == TicksOf(t)
           ticks == d.ticks + t.ticks
           e == [d EXCEPT !.cons = d.cons + t.bytes, !.toks = Tail(d.toks), !.read = d.read + more]
           known == read0 + d.read
           P == P0 \cup TimesOf(made0, d.pulses)
<1>1. /\ d.toks \in Seq(Token) /\ d.cons \in Nat /\ d.read \in Nat /\ d.ticks \in Nat
      /\ d.pulses \in Seq(Nat)
  BY DEF Decoder
<1>2. t \in Token /\ Tail(d.toks) \in Seq(Token)
  BY <1>1, BytesLeft
<1>3. /\ t.kind \in {"nul", "flux", "space", "astable", "bad"} /\ t.ticks \in Nat /\ t.bytes \in Nat
  <2> HIDE DEF t
  <2> QED BY <1>2 DEF Token
<1>4. more \in Nat /\ (t.kind \in {"flux", "space"} => more = t.ticks) /\ ticks \in Nat
  <2> HIDE DEF t
  <2> QED BY <1>1, <1>3 DEF TicksOf
<1>5. /\ e \in Decoder /\ e.toks = Tail(d.toks) /\ e.read = d.read + more /\ e.pulses = d.pulses
      /\ e.mode = d.mode
  <2>1. d.cons + t.bytes \in Nat /\ d.read + more \in Nat
    <3>1. d.cons \in Nat /\ d.read \in Nat /\ t.bytes \in Nat /\ more \in Nat
      BY <1>1, <1>3, <1>4
    <3> HIDE DEF t, more
    <3> QED BY <3>1
  <2> HIDE DEF t, more
  <2> QED BY <1>2, <2>1 DEF Decoder
<1>6. r = CASE t.kind = "nul"     -> [e EXCEPT !.fin = TRUE, !.stop = TRUE]
            [] t.kind = "space"   -> [e EXCEPT !.ticks = ticks]
            [] t.kind = "astable" -> [e EXCEPT !.mode = "astable", !.period = t.ticks, !.stop = TRUE]
            [] t.kind = "bad"     -> [e EXCEPT !.error = TRUE, !.stop = TRUE]
            [] OTHER ->
                 IF ticks < MinPulse THEN [e EXCEPT !.ticks = ticks]
                 ELSE IF ticks > MaxPulse
                 THEN [e EXCEPT !.ticks = ticks, !.mode = "oneshot", !.stop = TRUE]
                 ELSE Emit([e EXCEPT !.ticks = ticks], ticks)
  BY DEF OneToken
<1>7. Total(d.pulses) \in Nat
  BY <1>1, TotalType
<1>8. Told(d.toks, d.mode, known, made0 + Total(d.pulses), P, stream) /\ known \in Nat
  BY <1>1 DEF Tells
<1>9. known + more = read0 + (d.read + more) /\ known + more \in Nat
  BY <1>1, <1>4
\* The other modes that a token may lead to.
<1>10. ASSUME NEW next, t.kind = "flux" => Near(known + more, P) \/ next = "oneshot",
              next = "oneshot" => Tail(d.toks) # <<>>
       PROVE  Told(Tail(d.toks), next, read0 + (d.read + more), made0 + Total(d.pulses), P, stream)
  <2>1. d.toks[1].kind = "flux" => Near(known + TicksOf(d.toks[1]), P) \/ next = "oneshot"
    BY <1>10
  <2>2. Told(Tail(d.toks), next, known + TicksOf(d.toks[1]), made0 + Total(d.pulses), P, stream)
    <3> HIDE DEF known, P
    <3>1. d.mode # "oneshot"
      OBVIOUS
    <3> QED BY <1>1, <1>8, <1>10, <2>1, <3>1, ToldNext
  <2> QED BY <1>9, <2>2
<1> DEFINE Goal == Tells(r, read0, made0, P0, stream)
<1> SUFFICES Goal
  OBVIOUS
<1>11. ASSUME r.toks = Tail(d.toks), r.read = d.read + more, r.pulses = d.pulses,
              t.kind = "flux" => Near(known + more, P) \/ r.mode = "oneshot",
              r.mode = "oneshot" => Tail(d.toks) # <<>>
       PROVE  Goal
  <2>1. Told(Tail(d.toks), r.mode, read0 + (d.read + more), made0 + Total(d.pulses), P, stream)
    BY <1>10, <1>11
  <2> HIDE DEF r
  <2> QED BY <1>11, <2>1 DEF Tells, P
<1> HIDE DEF t, r, e, more
<1>12. CASE t.kind \in {"nul", "space", "astable", "bad"}
  <2>1. r.toks = e.toks /\ r.read = e.read /\ r.pulses = e.pulses /\ r.mode \in {e.mode, "astable"}
    BY <1>5, <1>6, <1>12 DEF Decoder
  <2> QED BY <1>5, <1>11, <1>12, <2>1
<1>13. CASE t.kind = "flux"
  <2>1. r = IF ticks < MinPulse THEN [e EXCEPT !.ticks = ticks]
            ELSE IF ticks > MaxPulse
            THEN [e EXCEPT !.ticks = ticks, !.mode = "oneshot", !.stop = TRUE]
            ELSE Emit([e EXCEPT !.ticks = ticks], ticks)
    BY <1>6, <1>13
  <2>2. (made0 + Total(d.pulses)) + ticks = known + more /\ Tail(d.toks) # <<>>
    <3>1. Tail(d.toks) # <<>>
      BY <1>13 DEF t
    <3>2. more = t.ticks
      BY <1>4, <1>13
    <3>3. d.ticks \in Nat /\ t.ticks \in Nat /\ d.read \in Nat
      BY <1>1, <1>3
    <3>4. (made0 + Total(d.pulses)) + d.ticks = read0 + d.read
      OBVIOUS
    <3>5. \A a, b, c, x, y, m \in Nat : (a + b) + c = x + y => (a + b) + (c + m) = (x + y) + m
      BY ONLY TRUE
    <3>6. more \in Nat /\ made0 \in Nat /\ read0 \in Nat
      BY <1>4
    <3>7. (made0 + Total(d.pulses)) + (d.ticks + more) = (read0 + d.read) + more
      BY ONLY <1>7, <3>3, <3>4, <3>5, <3>6
    <3> QED BY <3>1, <3>2, <3>7
  <2> HIDE DEF ticks
  <2>3. CASE ticks < MinPulse
    <3>1. r.toks = e.toks /\ r.read = e.read /\ r.pulses = e.pulses /\ r.mode = e.mode
      BY <1>5, <2>1, <2>3 DEF Decoder
    <3>2. MinPulse \in Nat /\ ticks <= MinPulse
      BY <1>4, <2>3, StreamsAssumption
    <3>3. Near(known + more, P)
      BY <1>4, <1>9, <2>2, <3>2, CarriedIsNear
    <3> QED BY <1>5, <1>11, <3>1, <3>3
  <2>4. CASE ~(ticks < MinPulse) /\ ticks > MaxPulse
    <3>1. r.toks = e.toks /\ r.read = e.read /\ r.pulses = e.pulses /\ r.mode = "oneshot"
      BY <1>5, <2>1, <2>4 DEF Decoder
    <3> QED BY <1>5, <1>11, <2>2, <3>1
  <2>5. CASE ~(ticks < MinPulse) /\ ~(ticks > MaxPulse)
    <3> DEFINE f == [e EXCEPT !.ticks = ticks]
    <3>1. r = Emit(f, ticks)
      BY <2>1, <2>5
    <3>2. /\ f \in Decoder /\ f.toks = e.toks /\ f.read = e.read /\ f.pulses = e.pulses
          /\ f.ticks = ticks /\ f.mode = e.mode
      BY <1>4, <1>5 DEF Decoder
    <3> HIDE DEF f
    <3>3. r = [f EXCEPT !.ticks = f.ticks - ticks, !.pulses = Append(f.pulses, ticks)]
      BY <3>1 DEF Emit
    <3>4. r.toks = Tail(d.toks) /\ r.read = d.read + more /\ r.pulses = Append(d.pulses, ticks) /\ r.mode = "idle"
      BY <1>5, <3>2, <3>3 DEF Decoder
    <3> DEFINE Q == P0 \cup TimesOf(made0, r.pulses)
    <3>5. TimesOf(made0, r.pulses) = TimesOf(made0, d.pulses) \cup {made0 + (Total(d.pulses) + ticks)}
      BY <1>1, <1>4, <3>4, TimesOfAppend
    <3>6. Total(r.pulses) = Total(d.pulses) + ticks /\ made0 + (Total(d.pulses) + ticks) = known + more
      <4>1. Total(r.pulses) = Total(d.pulses) + ticks
        BY <1>1, <1>4, <3>4, TotalAppend
      <4> QED BY <1>4, <1>7, <2>2, <4>1
    <3>7. P \subseteq Q /\ known + more \in Q /\ made0 + Total(r.pulses) \in {0} \cup Q
      BY <3>5, <3>6
    <3>8. Near(known + more, Q)
      <4>1. (known + more) - (known + more) <= MinPulse /\ known + more <= known + more
        BY <1>9, StreamsAssumption
      <4> HIDE DEF known, Q
      <4> QED BY <3>7, <4>1 DEF Near
    <3> HIDE DEF P, Q, known
    <3>9. Told(d.toks, d.mode, known, made0 + Total(r.pulses), Q, stream)
      BY <1>8, <3>7, ToldMore
    <3>10. Told(Tail(d.toks), "idle", known + TicksOf(d.toks[1]), made0 + Total(r.pulses), Q, stream)
      <4>1. Near(known + TicksOf(d.toks[1]), Q)
        BY <3>8 DEF more, t
      <4>2. d.mode # "oneshot" /\ "idle" # "oneshot"
        OBVIOUS
      <4> QED BY <1>1, <1>8, <3>9, <4>1, <4>2, ToldNext
    <3>11. known + TicksOf(d.toks[1]) = read0 + (d.read + more)
      BY <1>9 DEF more, t
    <3>12. Told(r.toks, r.mode, read0 + r.read, made0 + Total(r.pulses), Q, stream)
      BY <3>4, <3>10, <3>11
    <3> QED BY <3>12 DEF Tells, Q
  <2> QED BY <2>3, <2>4, <2>5
<1> QED BY <1>3, <1>12, <1>13

\* A turn.
LEMMA TurnTells ==
  ASSUME NEW d, NEW total \in Nat, NEW given \in Nat, NEW prod \in Nat, NEW nr \in Nat,
         Decodes(d, total, given, prod, nr), NEW e \in Turn(d, nr),
         NEW read0 \in Nat, NEW made0 \in Nat, made0 + given = read0,
         NEW P0, NEW stream, Tells(d, read0, made0, P0, stream)
  PROVE  Tells(e, read0, made0, P0, stream)
<1>1. d \in Decoder /\ Remains(d.toks, d.cons, d.fin, total) /\ Timed(d, given)
  BY DEF Decodes
<1>2. d.toks \in Seq(Token) /\ d.ticks \in Nat /\ d.period \in Nat /\ d.mode \in Modes
  BY <1>1 DEF Decoder
<1>3. ~(Len(d.pulses) = nr \/ d.stop)
  <2>1. Turn(d, nr) # {}
    OBVIOUS
  <2> QED BY ONLY <2>1 DEF Turn
<1>4. /\ (made0 + Total(d.pulses)) + d.ticks = read0 + d.read
      /\ Total(d.pulses) \in Nat /\ d.read \in Nat
  BY <1>1, CarriedIs
\* A mode that is left.
<1>5. ASSUME NEW x \in Decoder, Tells(x, read0, made0, P0, stream),
             x.mode = "oneshot" => Near(read0 + x.read, P0 \cup TimesOf(made0, x.pulses))
      PROVE  Tells([x EXCEPT !.mode = "idle"], read0, made0, P0, stream)
  <2> DEFINE y == [x EXCEPT !.mode = "idle"]
             Q == P0 \cup TimesOf(made0, x.pulses)
  <2>1. y.toks = x.toks /\ y.read = x.read /\ y.pulses = x.pulses /\ y.mode = "idle"
    BY DEF Decoder
  <2> HIDE DEF y
  <2>2. Told(x.toks, x.mode, read0 + x.read, made0 + Total(x.pulses), Q, stream)
    BY <1>5 DEF Tells
  <2>3. x.mode = "oneshot" => Near(read0 + x.read, Q)
    BY <1>5
  <2> HIDE DEF Q
  <2>4. Told(x.toks, "idle", read0 + x.read, made0 + Total(x.pulses), Q, stream)
    BY <2>2, <2>3, ToldMode
  <2>5. Told(y.toks, y.mode, read0 + y.read, made0 + Total(y.pulses), P0 \cup TimesOf(made0, y.pulses), stream)
    BY <2>1, <2>4 DEF Q
  <2>6. Tells(y, read0, made0, P0, stream)
    BY <2>5 DEF Tells
  <2> QED BY <2>6 DEF y
<1>6. CASE d.mode = "astable"
  <2>1. e = IF d.ticks >= d.period THEN Emit(d, d.period) ELSE [d EXCEPT !.mode = "idle"]
    BY <1>3, <1>6 DEF Turn
  <2>2. CASE d.ticks >= d.period
    <3>1. d.period <= d.ticks /\ e = Emit(d, d.period)
      BY <1>2, <2>1, <2>2
    <3> QED BY <1>1, <1>2, <3>1, EmitTells
  <2>3. CASE ~(d.ticks >= d.period)
    <3>1. e = [d EXCEPT !.mode = "idle"] /\ d.mode # "oneshot"
      BY <1>6, <2>1, <2>3
    <3> QED BY <1>1, <1>5, <3>1
  <2> QED BY <2>2, <2>3
<1>7. CASE d.mode = "oneshot"
  <2>1. e = IF d.ticks > MaxPulse THEN Emit(d, MaxPulse)
            ELSE [(IF d.ticks > MinPulse THEN Emit(d, d.ticks) ELSE d) EXCEPT !.mode = "idle"]
    BY <1>3, <1>7 DEF Turn
  <2>2. MaxPulse \in Nat /\ MinPulse \in Nat
    BY StreamsAssumption
  <2>3. CASE d.ticks > MaxPulse
    <3>1. MaxPulse <= d.ticks /\ e = Emit(d, MaxPulse)
      BY <1>2, <2>1, <2>2, <2>3
    <3> QED BY <1>1, <2>2, <3>1, EmitTells
  <2>4. CASE ~(d.ticks > MaxPulse) /\ d.ticks > MinPulse
    <3> DEFINE x == Emit(d, d.ticks)
    <3>1. e = [x EXCEPT !.mode = "idle"] /\ d.ticks <= d.ticks
      BY <1>2, <2>1, <2>4
    <3>2. x \in Decoder /\ x.read = d.read
      BY <1>1, <1>2, <3>1, EmitHolds
    <3>3. Tells(x, read0, made0, P0, stream) /\ made0 + (Total(d.pulses) + d.ticks) \in TimesOf(made0, x.pulses)
      BY <1>1, <1>2, <3>1, EmitTells
    <3> HIDE DEF x
    <3>4. made0 + (Total(d.pulses) + d.ticks) = read0 + x.read /\ read0 + x.read \in Nat
      BY <1>2, <1>4, <3>2
    <3>5. Near(read0 + x.read, P0 \cup TimesOf(made0, x.pulses))
      <4> DEFINE n == read0 + x.read
                 Q == P0 \cup TimesOf(made0, x.pulses)
      <4>1. n \in {0} \cup Q
        BY <3>3, <3>4
      <4>2. n <= n /\ n - n <= MinPulse
        BY <2>2, <3>4
      <4> HIDE DEF n, Q
      <4>3. Near(n, Q)
        BY <4>1, <4>2 DEF Near
      <4> QED BY <4>3 DEF n, Q
    <3> QED BY <1>5, <3>1, <3>2, <3>3, <3>5
  <2>5. CASE ~(d.ticks > MaxPulse) /\ ~(d.ticks > MinPulse)
    <3>1. e = [d EXCEPT !.mode = "idle"]
      BY <2>1, <2>5
    <3>2. d.ticks <= MinPulse /\ read0 + d.read \in Nat
      <4>1. d.ticks <= MinPulse
        BY <1>2, <2>2, <2>5
      <4>2. d.read \in Nat
        BY <1>4
      <4>3. read0 + d.read \in Nat
        BY ONLY <4>2, read0 \in Nat
      <4> QED BY <4>1, <4>3
    <3>3. Near(read0 + d.read, P0 \cup TimesOf(made0, d.pulses))
      BY <1>1, <1>2, <1>4, <3>2, CarriedIsNear
    <3> QED BY <1>1, <1>5, <3>1, <3>3
  <2> QED BY <2>3, <2>4, <2>5
<1>8. CASE d.mode \notin {"astable", "oneshot"}
  <2>1. d.toks # <<>> /\ e = OneToken(d, d.toks[1])
    BY <1>3, <1>8 DEF Turn
  <2>2. d.mode = "idle"
    BY <1>2, <1>8 DEF Modes
  <2>3. d.toks[1].kind # "nul" => Tail(d.toks) # <<>>
    <3>1. /\ Len(d.toks) \in Nat \ {0} /\ Len(Tail(d.toks)) = Len(d.toks) - 1
          /\ DOMAIN d.toks = 1..Len(d.toks)
      BY <1>2, <2>1, HeadTailProperties, LenProperties, EmptySeq
    <3>2. \A i \in DOMAIN d.toks : d.toks[i].kind = "nul" <=> i = Len(d.toks)
      BY <1>1 DEF Remains, EndsOnce
    <3>3. 1 \in DOMAIN d.toks
      BY <3>1
    <3>4. ASSUME d.toks[1].kind # "nul" PROVE Len(Tail(d.toks)) # 0
      BY <3>1, <3>2, <3>3, <3>4
    <3>5. Len(<<>>) = 0
      BY EmptySeq
    <3> QED BY <3>4, <3>5
  <2>4. Tells(OneToken(d, d.toks[1]), read0, made0, P0, stream)
    BY <1>1, <1>4, <2>1, <2>2, <2>3, TokenTells
  <2> QED BY <2>1, <2>4
<1> QED BY <1>6, <1>7, <1>8

\* Decoding.
LEMMA DecodedTells ==
  ASSUME NEW f \in Firmware, NEW total \in Nat, NEW nr \in Nat, f.cons <= f.prod,
         Remains(f.toks, f.cons, f.fin, total), NEW d \in Decoded(f, nr),
         NEW read0 \in Nat, NEW made0 \in Nat, made0 + f.ticks = read0,
         NEW P0, NEW stream, Told(f.toks, f.mode, read0, made0, P0, stream)
  PROVE  Tells(d, read0, made0, P0, stream)
<1> DEFINE start == [toks |-> f.toks, cons |-> f.cons, prod |-> f.prod, ticks |-> f.ticks,
                     mode |-> f.mode, period |-> f.period, fin |-> f.fin, stop |-> FALSE,
                     error |-> FALSE, pulses |-> <<>>, read |-> 0]
           Good(x) == Decodes(x, total, f.ticks, f.prod, nr) /\ Tells(x, read0, made0, P0, stream)
           S == {x \in Decoder : Good(x)}
<1>1. /\ f.toks \in Seq(Token) /\ f.cons \in Nat /\ f.prod \in Nat /\ f.ticks \in Nat
      /\ f.mode \in Modes /\ f.period \in Nat
  BY DEF Firmware
<1>2. f.fin \in BOOLEAN
  BY DEF Firmware
<1>3. <<>> \in Seq(Nat) /\ Len(<<>>) = 0 /\ Total(<<>>) = 0
  BY TotalSmall, EmptySeq
<1>4. start \in Decoder
  BY <1>1, <1>2, <1>3 DEF Decoder
<1>5. /\ start.toks = f.toks /\ start.cons = f.cons /\ start.prod = f.prod /\ start.ticks = f.ticks
      /\ start.mode = f.mode /\ start.pulses = <<>> /\ start.read = 0
  OBVIOUS
<1>6. start.fin = f.fin
  OBVIOUS
<1>7. d \in Turns(start, nr)
  BY DEF Decoded
<1> HIDE DEF start
<1>8. Timed(start, f.ticks)
  BY <1>1, <1>3, <1>5 DEF Timed
<1>9. Decodes(start, total, f.ticks, f.prod, nr)
  <2>1. start.prod = f.prod /\ start.cons <= f.prod /\ Remains(start.toks, start.cons, start.fin, total)
    BY <1>5, <1>6
  <2>2. Len(start.pulses) <= nr
    BY <1>3, <1>5
  <2> QED BY <1>4, <1>8, <2>1, <2>2 DEF Decodes
<1>10. Tells(start, read0, made0, P0, stream)
  <2>1. read0 + start.read = read0 /\ made0 + Total(start.pulses) = made0
    BY <1>3, <1>5
  <2>2. P0 \cup TimesOf(made0, start.pulses) = P0
    BY <1>5, TimesOfNone
  <2>3. Told(start.toks, start.mode, read0 + start.read, made0 + Total(start.pulses),
             P0 \cup TimesOf(made0, start.pulses), stream)
    BY <1>5, <2>1, <2>2
  <2> QED BY <2>3 DEF Tells
<1>11. start \in S /\ MostTurns(start, nr) \in Nat
  BY <1>4, <1>9, <1>10, MostTurnsType
<1>12. ASSUME NEW x \in S, NEW e \in Turn(x, nr) PROVE e \in S
  <2>1. Decodes(x, total, f.ticks, f.prod, nr) /\ Tells(x, read0, made0, P0, stream)
    OBVIOUS
  <2>2. Decodes(e, total, f.ticks, f.prod, nr)
    BY <1>1, <2>1, TurnKeeps
  <2>3. Tells(e, read0, made0, P0, stream)
    BY <1>1, <2>1, TurnTells
  <2> QED BY <2>2, <2>3 DEF Decodes
<1> HIDE DEF S
<1>13. Turns(start, nr) \subseteq S
  BY <1>11, <1>12, TurnsWithin
<1> QED BY <1>7, <1>13 DEF S

-----------------------------------------------------------------------------
(* The second invariant of the streams, beside the first: what is told of one. *)

\* The changes that the pulses in the ring make come after those on the disk.
TellsOf(f, s, stream) == Told(f.toks, f.mode, s.read, s.made, s.at \cup TimesOf(s.out, f.dma), stream)
AllThere(s, stream) == ~s.cut => s.read = TimeOf(stream) /\ \A t \in Due(stream) : Near(t, s.at)
OkayIsComing == \E i \in DOMAIN fw.tx : fw.tx[i] = "okay"

StreamTold ==
  /\ fw.state \in Writing => TellsOf(fw, seen, host.stream)
  /\ fw.state = "drain" /\ fw.status = "okay" => AllThere(seen, host.stream)
  /\ host.stage # "idle" => host.status = "none"
  /\ host.op = "write" /\ ~seen.late /\ (host.status = "okay" \/ OkayIsComing) =>
       AllThere(seen, host.stream)

\* Nothing else is told of a stream when it is not being written.
LEMMA NothingToTellAfter ==
  ASSUME fw'.state \notin Flowing, host'.stage # "idle" => host'.status = "none",
         host'.op = "write" /\ ~seen'.late /\ (host'.status = "okay" \/ OkayIsComing') =>
           AllThere(seen', host'.stream)
  PROVE  StreamTold'
BY DEF StreamTold, Flowing, Writing

\* While a stream flows no status is on its way.
LEMMA NoStatusYet ==
  ASSUME StreamInv, StreamTold, fw.state \in Flowing
  PROVE  ~OkayIsComing /\ host.status = "none"
<1>1. fw.tx = Ack /\ host.stage # "idle"
  BY FlowingHolds
<1>2. ~OkayIsComing
  BY <1>1 DEF Ack, OkayIsComing
<1> QED BY <1>1, <1>2 DEF StreamTold

\* What a state that writes begins with.
LEMMA FillTells ==
  ASSUME StreamInv, StreamTold, fw.state \in {"waitData", "write"}, NEW r \in Fill
  PROVE  /\ Told(r.fw.toks, r.fw.mode, seen.read + r.decoded.read, seen.made + Made(r.decoded),
                 seen.at \cup TimesOf(seen.out, r.fw.dma), host.stream)
         /\ seen.read + r.decoded.read \in Nat
         /\ r.fw.fin => r.fw.toks = <<>>
<1>1. PICK d \in Decoded(TakePacket(fw), Room(TakePacket(fw))) :
        r = [decoded |-> d, fw |-> After(TakePacket(fw), d, TRUE)]
  BY DEF Fill
<1>2. /\ fw \in Firmware /\ seen \in History /\ Flows(fw, host) /\ Pulsed(fw, seen)
  BY FlowingHolds DEF Flowing, Writing
<1>3. /\ fw.cons <= fw.prod /\ Remains(fw.toks, fw.cons, fw.fin, fw.total) /\ Len(fw.dma) < DmaSize
      /\ seen.made + fw.ticks = seen.read /\ seen.out + Total(fw.dma) = seen.made
  BY <1>2 DEF Flows, Pulsed, Writing
<1>4. r.decoded = d /\ r.fw = After(TakePacket(fw), d, TRUE)
  BY <1>1
<1> DEFINE f == TakePacket(fw)
           g == After(f, d, TRUE)
           nr == Room(f)
           P0 == seen.at \cup TimesOf(seen.out, fw.dma)
<1>5. /\ f \in Firmware /\ f.prod >= fw.prod /\ f = [fw EXCEPT !.prod = f.prod, !.pkt = f.pkt, !.rx = f.rx]
  BY <1>2, TakePacketKeeps
<1> HIDE DEF f
<1>6. /\ f.toks = fw.toks /\ f.cons = fw.cons /\ f.total = fw.total /\ f.ticks = fw.ticks
      /\ f.dma = fw.dma /\ f.mode = fw.mode
  BY <1>2, <1>5 DEF Firmware
<1>7. f.fin = fw.fin
  BY <1>2, <1>5 DEF Firmware
<1>8. /\ seen.read \in Nat /\ seen.made \in Nat /\ seen.out \in Nat /\ fw.total \in Nat
      /\ fw.cons \in Nat /\ fw.prod \in Nat /\ f.prod \in Nat /\ fw.dma \in Seq(Nat) /\ fw.ticks \in Nat
  BY <1>2, <1>5 DEF History, Firmware
<1>9. nr \in Nat
  <2>1. Len(fw.dma) \in Nat
    BY <1>8, LenProperties
  <2>2. nr = DmaSize - 1 - Len(fw.dma)
    BY <1>6 DEF Room
  <2> HIDE DEF nr
  <2> QED BY <1>3, <2>1, <2>2, StreamsAssumption
<1>10. f.cons <= f.prod /\ Remains(f.toks, f.cons, f.fin, fw.total)
  BY <1>3, <1>5, <1>6, <1>7, <1>8
<1>11. Told(f.toks, f.mode, seen.read, seen.made, P0, host.stream)
  BY <1>6 DEF StreamTold, TellsOf, Writing
<1>12. d \in Decoded(f, nr)
  BY DEF f
<1>13. Tells(d, seen.read, seen.made, P0, host.stream)
  <2>1. seen.made + f.ticks = seen.read
    BY <1>3, <1>6
  <2> HIDE DEF P0, nr
  <2> QED BY <1>5, <1>8, <1>9, <1>10, <1>11, <1>12, <2>1, DecodedTells
<1>14. d \in Decoder /\ Remains(d.toks, d.cons, d.fin, fw.total)
  <2>1. Decodes(d, fw.total, f.ticks, f.prod, nr)
    <3> HIDE DEF nr
    <3> QED BY <1>5, <1>8, <1>9, <1>10, <1>12, DecodedIsTimed
  <2> QED BY <2>1 DEF Decodes
<1>15. g.toks = d.toks /\ g.mode = d.mode /\ g.dma = fw.dma \o d.pulses
  <2>1. AfterDecoding(g, f, d, TRUE)
    BY <1>5, <1>14, AfterKeeps
  <2> HIDE DEF g
  <2> QED BY <1>6, <2>1 DEF AfterDecoding
<1>16. g.fin = d.fin
  <2>1. AfterDecoding(g, f, d, TRUE)
    BY <1>5, <1>14, AfterKeeps
  <2> HIDE DEF g
  <2> QED BY <2>1 DEF AfterDecoding
<1>17. r.decoded = d /\ r.fw = g
  BY <1>4 DEF f
<1> HIDE DEF g
<1>18. d.pulses \in Seq(Nat) /\ d.read \in Nat
  BY <1>14 DEF Decoder
<1>19. P0 \cup TimesOf(seen.made, d.pulses) = seen.at \cup TimesOf(seen.out, g.dma)
  <2>1. TimesOf(seen.out, fw.dma) \cup TimesOf(seen.out + Total(fw.dma), d.pulses)
          = TimesOf(seen.out, fw.dma \o d.pulses)
    BY <1>8, <1>18, TimesOfConcat
  <2> QED BY <1>3, <1>15, <2>1
<1>20. Told(g.toks, g.mode, seen.read + d.read, seen.made + Made(d),
            seen.at \cup TimesOf(seen.out, g.dma), host.stream)
  BY <1>13, <1>15, <1>19 DEF Tells, Made
<1>21. seen.read + d.read \in Nat
  BY <1>8, <1>18
<1>22. g.fin => g.toks = <<>>
  BY <1>14, <1>15, <1>16 DEF Remains
<1> QED BY <1>17, <1>20, <1>21, <1>22

\* The firmware that has filled its ring, in a state of the write and with other flags.
LEMMA FilledTells ==
  ASSUME StreamInv, StreamTold, fw.state \in {"waitData", "write"}, host' = host, NEW r \in Fill,
         NEW cut \in BOOLEAN, Count(r.decoded, cut),
         fw' = [r.fw EXCEPT !.state = fw'.state, !.status = fw'.status, !.gate = fw'.gate,
                            !.idx = fw'.idx],
         fw'.state \in Flowing,
         fw'.state = "drain" /\ fw'.status = "okay" => cut \/ RingDrained(r.fw)
  PROVE  StreamTold'
<1> DEFINE g == r.fw
           P == seen.at \cup TimesOf(seen.out, g.dma)
<1>1. /\ Told(g.toks, g.mode, seen.read + r.decoded.read, seen.made + Made(r.decoded), P, host.stream)
      /\ seen.read + r.decoded.read \in Nat
      /\ g.fin => g.toks = <<>>
  BY FillTells
<1>2. g \in Firmware /\ g.tx = fw.tx
  BY FillKeeps DEF Filled
<1>3. seen \in History /\ fw.state \in Flowing
  BY FlowingHolds DEF Flowing, Writing
<1>4. /\ seen'.read = seen.read + r.decoded.read /\ seen'.made = seen.made + Made(r.decoded)
      /\ seen'.out = seen.out /\ seen'.at = seen.at
  BY <1>3 DEF Count, History
<1>5. seen'.cut <=> seen.cut \/ cut
  BY <1>3 DEF Count, History
<1> HIDE DEF g
<1>6. fw'.toks = g.toks /\ fw'.mode = g.mode /\ fw'.dma = g.dma /\ fw'.tx = fw.tx
  <2>1. fw' = [g EXCEPT !.state = fw'.state, !.status = fw'.status, !.gate = fw'.gate, !.idx = fw'.idx]
    BY DEF g
  <2> QED BY <1>2, <2>1 DEF Firmware
<1>7. TellsOf(fw', seen', host'.stream)
  <2>1. seen'.at \cup TimesOf(seen'.out, fw'.dma) = P
    BY <1>4, <1>6
  <2> HIDE DEF P
  <2> QED BY <1>1, <1>4, <1>6, <2>1 DEF TellsOf
<1>8. ASSUME fw'.state = "drain", fw'.status = "okay" PROVE AllThere(seen', host'.stream)
  <2>1. CASE cut
    BY <1>5, <2>1 DEF AllThere
  <2>2. CASE RingDrained(g)
    <3>1. g.toks = <<>> /\ P = seen.at
      <4>1. g.fin /\ g.dma = <<>>
        BY <2>2 DEF RingDrained
      <4> QED BY <1>1, <4>1, TimesOfNone
    <3> HIDE DEF P
    <3>2. Told(<<>>, g.mode, seen'.read, seen.made + Made(r.decoded), seen.at, host.stream)
      BY <1>1, <1>4, <3>1
    <3>3. seen'.read = TimeOf(host.stream) /\ \A t \in Due(host.stream) : Near(t, seen.at)
      BY <1>1, <1>4, <3>2, ToldAll
    <3> QED BY <1>4, <3>3 DEF AllThere
  <2> QED BY <1>8, <2>1, <2>2 DEF g
<1>9. ~OkayIsComing' /\ host'.status = "none"
  BY <1>3, <1>6, NoStatusYet DEF OkayIsComing
<1>10. ASSUME host'.op = "write", host'.status = "okay" \/ OkayIsComing' PROVE FALSE
  BY <1>9, <1>10
<1> QED BY <1>7, <1>8, <1>9, <1>10 DEF StreamTold

LEMMA WaitDataTells ==
  ASSUME StreamInv, StreamTold, WaitData
  PROVE  StreamTold'
<1>1. fw.state = "waitData" /\ host' = host
  BY DEF WaitData
<1>2. PICK r \in Fill :
        LET g        == r.fw
            finished == IF g.cons = g.prod THEN g.fin ELSE EndIsThere(g)
            full     == Room(g) = 0 /\ g.prod - g.cons >= U_BUF_SZ - Mps
        IN  /\ fw' = IF g.status = "okay" /\ (full \/ finished)
                     THEN [g EXCEPT !.state = "waitIndex", !.idx = FALSE] ELSE g
            /\ Count(r.decoded, FALSE)
  BY DEF WaitData
<1> DEFINE g == r.fw
<1>3. g \in Firmware
      /\ \/ g.state = fw.state /\ g.status = fw.status
         \/ g.state = "drain" /\ g.status = "badCommand"
  BY <1>1, FillKeeps DEF Filled
<1>4. Count(r.decoded, FALSE)
      /\ (fw' = g \/ (g.status = "okay" /\ fw' = [g EXCEPT !.state = "waitIndex", !.idx = FALSE]))
  BY <1>2
<1> HIDE DEF g
<1>5. fw' = [g EXCEPT !.state = fw'.state, !.status = fw'.status, !.gate = fw'.gate, !.idx = fw'.idx]
  <2>1. CASE fw' = g
    BY <1>3, <2>1 DEF Firmware
  <2>2. CASE fw' = [g EXCEPT !.state = "waitIndex", !.idx = FALSE]
    BY <1>3, <2>2 DEF Firmware
  <2> QED BY <1>4, <2>1, <2>2
<1>6. fw'.state \in Flowing /\ ~(fw'.state = "drain" /\ fw'.status = "okay")
  <2>1. CASE fw' = g
    BY <1>1, <1>3, <2>1 DEF Flowing, Writing
  <2>2. CASE fw' = [g EXCEPT !.state = "waitIndex", !.idx = FALSE]
    <3>1. fw'.state = "waitIndex"
      BY <1>3, <2>2 DEF Firmware
    <3> QED BY <3>1 DEF Flowing, Writing
  <2> QED BY <1>4, <2>1, <2>2
<1> QED BY <1>1, <1>4, <1>5, <1>6, FilledTells DEF g

LEMMA WriteTells ==
  ASSUME StreamInv, StreamTold, Write
  PROVE  StreamTold'
<1>1. fw.state = "write" /\ host' = host
  BY DEF Write
<1>2. PICK r \in Fill :
        LET g    == r.fw
            stop == g.status = "okay" /\ g.term /\ g.idx
            done == [FluxEnd(g) EXCEPT !.state = "drain"]
        IN  /\ fw' = IF g.status # "okay" THEN g
                     ELSE IF stop \/ RingDrained(g) THEN done
                     ELSE IF ~g.fin /\ Underflow(g) THEN [done EXCEPT !.status = "underflow"]
                     ELSE g
            /\ Count(r.decoded, stop)
  BY DEF Write
<1> DEFINE g    == r.fw
           stop == g.status = "okay" /\ g.term /\ g.idx
           done == [[g EXCEPT !.gate = FALSE] EXCEPT !.state = "drain"]
<1>3. g \in Firmware
      /\ \/ g.state = fw.state /\ g.status = fw.status
         \/ g.state = "drain" /\ g.status = "badCommand"
  BY <1>1, FillKeeps DEF Filled
<1>4. /\ Count(r.decoded, stop) /\ stop \in BOOLEAN
      /\ fw' = IF g.status # "okay" THEN g
               ELSE IF stop \/ RingDrained(g) THEN done
               ELSE IF ~g.fin /\ Underflow(g) THEN [done EXCEPT !.status = "underflow"]
               ELSE g
  BY <1>2 DEF FluxEnd
<1> HIDE DEF g
<1>5. /\ done = [g EXCEPT !.gate = FALSE, !.state = "drain"]
      /\ [done EXCEPT !.status = "underflow"]
           = [g EXCEPT !.gate = FALSE, !.state = "drain", !.status = "underflow"]
  BY <1>3 DEF Firmware
<1> HIDE DEF done, stop
<1>6. /\ fw' = [g EXCEPT !.state = fw'.state, !.status = fw'.status, !.gate = fw'.gate, !.idx = fw'.idx]
      /\ fw'.state \in Flowing
      /\ fw'.state = "drain" /\ fw'.status = "okay" => stop \/ RingDrained(g)
  <2>1. CASE fw' = g
    <3>1. fw' = [g EXCEPT !.state = fw'.state, !.status = fw'.status, !.gate = fw'.gate, !.idx = fw'.idx]
      BY <1>3, <2>1 DEF Firmware
    <3>2. fw'.state \in Flowing /\ ~(fw'.state = "drain" /\ fw'.status = "okay")
      BY <1>1, <1>3, <2>1 DEF Flowing, Writing
    <3> QED BY <3>1, <3>2
  <2>2. CASE fw' = done /\ (stop \/ RingDrained(g))
    <3>1. fw' = [g EXCEPT !.state = fw'.state, !.status = fw'.status, !.gate = fw'.gate, !.idx = fw'.idx]
      BY <1>3, <1>5, <2>2 DEF Firmware
    <3>2. fw'.state = "drain"
      BY <1>3, <1>5, <2>2 DEF Firmware
    <3>3. fw'.state \in Flowing
      BY <3>2 DEF Flowing
    <3> QED BY <2>2, <3>1, <3>3
  <2>3. CASE fw' = [done EXCEPT !.status = "underflow"]
    <3>1. fw' = [g EXCEPT !.state = fw'.state, !.status = fw'.status, !.gate = fw'.gate, !.idx = fw'.idx]
      BY <1>3, <1>5, <2>3 DEF Firmware
    <3>2. fw'.state = "drain" /\ fw'.status = "underflow"
      BY <1>3, <1>5, <2>3 DEF Firmware
    <3>3. fw'.state \in Flowing
      BY <3>2 DEF Flowing
    <3> QED BY <3>1, <3>2, <3>3
  <2> QED BY <1>4, <2>1, <2>2, <2>3
<1> QED BY <1>1, <1>4, <1>6, FilledTells DEF g

LEMMA DmaPulseTells ==
  ASSUME StreamInv, StreamTold, DmaPulse
  PROVE  StreamTold'
<1> DEFINE n == seen.out + Head(fw.dma)
<1>1. /\ fw.state = "write" /\ fw.dma # <<>> /\ host' = host
      /\ fw' = [fw EXCEPT !.dma = Tail(fw.dma)]
      /\ seen' = [seen EXCEPT !.out = n, !.at = seen.at \cup {n}]
  BY DEF DmaPulse
<1>2. fw.state \in Flowing /\ fw.state \in Writing /\ fw.state # "drain"
  BY <1>1 DEF Flowing, Writing
<1>3. fw \in Firmware /\ seen \in History
  BY <1>2, FlowingHolds
<1>4. fw.dma \in Seq(Nat) /\ seen.out \in Nat
  BY <1>3 DEF Firmware, History
<1> HIDE DEF n
<1>5. /\ fw'.state = fw.state /\ fw'.toks = fw.toks /\ fw'.mode = fw.mode /\ fw'.dma = Tail(fw.dma)
      /\ fw'.tx = fw.tx
  BY <1>1, <1>3 DEF Firmware
<1>6. seen'.read = seen.read /\ seen'.made = seen.made /\ seen'.out = n /\ seen'.at = seen.at \cup {n}
  BY <1>1, <1>3 DEF History
<1>7. seen'.at \cup TimesOf(seen'.out, fw'.dma) = seen.at \cup TimesOf(seen.out, fw.dma)
  <2>1. TimesOf(seen.out, fw.dma) = {n} \cup TimesOf(n, Tail(fw.dma))
    BY <1>1, <1>4, TimesOfTail DEF n
  <2> QED BY <1>5, <1>6, <2>1
<1>8. TellsOf(fw', seen', host'.stream)
  <2>1. TellsOf(fw, seen, host.stream)
    BY <1>2 DEF StreamTold
  <2> QED BY <1>1, <1>5, <1>6, <1>7, <2>1 DEF TellsOf
<1>9. ~OkayIsComing' /\ host'.status = "none"
  BY <1>1, <1>2, <1>5, NoStatusYet DEF OkayIsComing
<1>10. fw'.state # "drain"
  BY <1>2, <1>5
<1> QED BY <1>8, <1>9, <1>10 DEF StreamTold

LEMMA WaitIndexTells ==
  ASSUME StreamInv, StreamTold, WaitIndex
  PROVE  StreamTold'
<1>1. /\ fw.state = "waitIndex" /\ host' = host /\ seen' = seen
      /\ \/ fw' = [fw EXCEPT !.gate = TRUE, !.idx = FALSE, !.state = "write"]
         \/ fw' = [[fw EXCEPT !.gate = FALSE] EXCEPT !.status = "noIndex", !.state = "drain"]
  BY DEF WaitIndex, FluxEnd
<1>2. fw.state \in Flowing /\ fw.state \in Writing
  BY <1>1 DEF Flowing, Writing
<1>3. fw \in Firmware
  BY <1>2, FlowingHolds
<1>4. /\ fw'.toks = fw.toks /\ fw'.mode = fw.mode /\ fw'.dma = fw.dma /\ fw'.tx = fw.tx
      /\ fw'.state = "write" \/ fw'.status = "noIndex"
  <2>1. CASE fw' = [fw EXCEPT !.gate = TRUE, !.idx = FALSE, !.state = "write"]
    BY <1>3, <2>1 DEF Firmware
  <2>2. CASE fw' = [[fw EXCEPT !.gate = FALSE] EXCEPT !.status = "noIndex", !.state = "drain"]
    BY <1>3, <2>2 DEF Firmware
  <2> QED BY <1>1, <2>1, <2>2
<1>5. TellsOf(fw', seen', host'.stream)
  BY <1>1, <1>2, <1>4 DEF StreamTold, TellsOf
<1>6. ~OkayIsComing' /\ host'.status = "none"
  BY <1>1, <1>2, <1>4, NoStatusYet DEF OkayIsComing
<1>7. ~(fw'.state = "drain" /\ fw'.status = "okay")
  BY <1>4
<1> QED BY <1>5, <1>6, <1>7 DEF StreamTold

LEMMA IndexTells ==
  ASSUME StreamInv, StreamTold, Index
  PROVE  StreamTold'
<1>1. /\ fw.state \in {"waitIndex", "write"} /\ fw' = [fw EXCEPT !.idx = TRUE]
      /\ host' = host /\ seen' = seen
  BY DEF Index
<1>2. fw \in Firmware
  BY DEF StreamInv, StreamTypes
<1>3. /\ fw'.toks = fw.toks /\ fw'.mode = fw.mode /\ fw'.dma = fw.dma /\ fw'.tx = fw.tx
      /\ fw'.state = fw.state /\ fw'.status = fw.status
  BY <1>1, <1>2 DEF Firmware
<1> QED BY <1>1, <1>3 DEF StreamTold, TellsOf, OkayIsComing

\* The status goes on its way when the stream has been drained.
LEMMA WriteDrainTells ==
  ASSUME StreamInv, StreamTold, WriteDrain
  PROVE  StreamTold'
<1>1. fw.state = "drain" /\ host' = host /\ seen' = seen
  BY DEF WriteDrain
<1>2. fw.state \in Flowing
  BY <1>1 DEF Flowing
<1>3. fw \in Firmware /\ fw.tx = Ack /\ Flows(fw, host) /\ host.stage # "idle"
  BY <1>2, FlowingHolds
<1>4. ~OkayIsComing /\ host.status = "none"
  BY <1>2, NoStatusYet
<1>5. CASE ~Drained(fw)
  <2>1. PICK d \in Decoded(TakePacket(fw), DmaSize) : fw' = After(TakePacket(fw), d, FALSE)
    BY <1>5 DEF WriteDrain
  <2> DEFINE g == After(TakePacket(fw), d, FALSE)
  <2>2. Filled(g, fw, d)
    <3>1. d \in Decoded(TakePacket(fw), IF FALSE THEN Room(TakePacket(fw)) ELSE DmaSize)
      BY <2>1
    <3>2. fw.cons <= fw.prod /\ Remains(fw.toks, fw.cons, fw.fin, fw.total) /\ Len(fw.dma) < DmaSize
      BY <1>3 DEF Flows
    <3> QED BY <1>3, <3>1, <3>2, FillHolds
  <2>3. /\ fw'.tx = fw.tx
        /\ \/ fw'.state = "drain" /\ fw'.status = fw.status
           \/ fw'.state = "drain" /\ fw'.status = "badCommand"
    <3> HIDE DEF g
    <3>1. fw' = g
      BY <2>1 DEF g
    <3> QED BY <1>1, <2>2, <3>1 DEF Filled
  <2>4. fw'.state \notin Writing
    BY <2>3 DEF Writing
  <2>5. fw'.status = "okay" => AllThere(seen', host'.stream)
    BY <1>1, <2>3 DEF StreamTold
  <2>6. ~OkayIsComing' /\ host'.status = "none"
    BY <1>1, <1>4, <2>3 DEF OkayIsComing
  <2> QED BY <2>4, <2>5, <2>6 DEF StreamTold
<1>6. CASE Drained(fw)
  <2>1. fw' = EndCommand([Idle EXCEPT !.tx = fw.tx, !.rx = fw.rx], fw.status)
    BY <1>6 DEF WriteDrain
  <2>2. fw'.state = "wait" /\ fw'.tx = Append(fw.tx, fw.status)
    BY <2>1 DEF EndCommand, Idle
  <2>3. fw'.state \notin Flowing
    BY <2>2 DEF Flowing, Writing
  <2>4. ASSUME OkayIsComing' PROVE AllThere(seen', host'.stream)
    <3>1. fw'.tx = Append(Ack, fw.status)
      BY <1>3, <2>2
    <3>2. PICK i \in DOMAIN fw'.tx : fw'.tx[i] = "okay"
      BY <2>4 DEF OkayIsComing
    <3>3. fw.status = "okay"
      <4>1. /\ Ack \in Seq(Answer) /\ fw.status \in Answer
            /\ \A j \in 1..Len(Ack) : Ack[j] = "ack"
        <5>1. "ack" \in Answer /\ fw.status \in Answer
          BY <1>3 DEF Answer, Firmware
        <5> QED BY <5>1 DEF Ack
      <4>2. /\ fw'.tx \in Seq(Answer) /\ Len(fw'.tx) = Len(Ack) + 1 /\ Len(Ack) \in Nat
            /\ \A j \in 1..Len(Ack) : fw'.tx[j] = Ack[j]
            /\ fw'.tx[Len(Ack) + 1] = fw.status
        BY <3>1, <4>1, AppendProperties, LenProperties
      <4>3. i \in 1..Len(fw'.tx)
        BY <3>2, <4>2, LenProperties
      <4>4. i \in 1..Len(Ack) \/ i = Len(Ack) + 1
        BY <4>2, <4>3
      <4> QED BY <3>2, <4>1, <4>2, <4>4
    <3> QED BY <1>1, <3>3 DEF StreamTold
  <2>5. host'.status = "none"
    BY <1>1, <1>4
  <2> QED BY <2>3, <2>4, <2>5, NothingToTellAfter
<1> QED BY <1>5, <1>6

LEMMA WritePrepTells ==
  ASSUME StreamInv, NEW s \in Streams, WritePrep(s)
  PROVE  StreamTold'
<1>1. fw.tx = <<>> /\ fw.state = "wait" /\ host'.stream = s /\ host'.status = "none" /\ seen' = NothingSeen
  BY DEF WritePrep, NoStream
<1>2. PICK wrprot, cue, term \in BOOLEAN :
       fw' = IF wrprot THEN EndCommand(fw, "wrprot")
             ELSE [Idle EXCEPT !.state = "waitData", !.toks = s, !.total = BytesOf(s), !.cue = cue,
                               !.term = term, !.tx = <<"ack">>]
  BY DEF WritePrep
<1>3. fw \in Firmware
  BY DEF StreamInv, StreamTypes
<1>4. CASE wrprot
  <2>1. fw'.state = "wait" /\ fw'.tx = <<"wrprot">>
    BY <1>1, <1>2, <1>3, <1>4 DEF EndCommand, Firmware
  <2>2. ~OkayIsComing' /\ fw'.state \notin Flowing
    BY <2>1 DEF OkayIsComing, Flowing, Writing
  <2> QED BY <1>1, <2>2, NothingToTellAfter
<1>5. CASE ~wrprot
  <2>1. fw'.state = "waitData" /\ fw'.tx = <<"ack">> /\ fw'.toks = s /\ fw'.mode = "idle" /\ fw'.dma = <<>>
    BY <1>2, <1>5 DEF Idle
  <2>2. ~OkayIsComing'
    BY <2>1 DEF OkayIsComing
  <2>3. s \in Seq(Token)
    BY StreamsAssumption
  <2>4. /\ seen'.read = 0 /\ seen'.made = 0
        /\ seen'.at \cup TimesOf(seen'.out, fw'.dma) = {}
    BY <1>1, <2>1, TimesOfNone DEF NothingSeen
  <2>5. TellsOf(fw', seen', host'.stream)
    BY <1>1, <2>1, <2>3, <2>4, ToldNothing DEF TellsOf
  <2> QED BY <1>1, <2>1, <2>2, <2>5 DEF StreamTold
<1> QED BY <1>4, <1>5

\* The commands that are not writes.
LEMMA OthersTell ==
  ASSUME fw'.state \notin Flowing, host'.stage # "idle" => host'.status = "none", host'.op # "write"
  PROVE  StreamTold'
BY NothingToTellAfter

LEMMA PrepTells ==
  ASSUME StreamInv, ErasePrep \/ \E kind \in {"sink", "source"}, n \in 0..MaxBytes : BytesPrep(kind, n)
  PROVE  StreamTold'
<1>1. fw \in Firmware
  BY DEF StreamInv, StreamTypes
<1>2. CASE ErasePrep
  <2>1. fw.state = "wait" /\ host'.op = "erase" /\ host'.status = "none"
    BY <1>2 DEF ErasePrep, NoStream
  <2>2. PICK wrprot \in BOOLEAN :
          fw' = IF wrprot THEN EndCommand(fw, "wrprot")
                ELSE EndCommand([Idle EXCEPT !.state = "erase", !.gate = TRUE], "ack")
    BY <1>2 DEF ErasePrep
  <2>3. CASE wrprot
    <3>1. fw' = EndCommand(fw, "wrprot")
      BY <2>2, <2>3
    <3>2. fw'.state = "wait"
      BY <1>1, <2>1, <3>1 DEF EndCommand, Firmware
    <3> QED BY <2>1, <3>2, OthersTell DEF Flowing, Writing
  <2>4. CASE ~wrprot
    <3>1. fw' = EndCommand([Idle EXCEPT !.state = "erase", !.gate = TRUE], "ack")
      BY <2>2, <2>4
    <3>2. fw'.state = "erase"
      BY <3>1 DEF EndCommand, Idle
    <3> QED BY <2>1, <3>2, OthersTell DEF Flowing, Writing
  <2> QED BY <2>3, <2>4
<1>3. CASE \E kind \in {"sink", "source"}, n \in 0..MaxBytes : BytesPrep(kind, n)
  <2>1. PICK kind \in {"sink", "source"}, n \in 0..MaxBytes : BytesPrep(kind, n)
    BY <1>3
  <2>2. host'.op = kind /\ host'.status = "none"
    BY <2>1 DEF BytesPrep, NoStream
  <2>3. fw'.state = kind
    BY <2>1 DEF BytesPrep, EndCommand, Idle
  <2> QED BY <2>2, <2>3, OthersTell DEF Flowing, Writing
<1> QED BY <1>2, <1>3

LEMMA BytesTell ==
  ASSUME StreamInv, StreamTold, Erased \/ Sink \/ Source
  PROVE  StreamTold'
<1>1. fw.state \in {"erase", "sink", "source"} /\ host' = host
  BY DEF Erased, Sink, Source
<1>2. host.op = fw.state /\ host.stage # "idle"
  BY <1>1 DEF StreamInv, AtWork
<1>3. fw \in Firmware
  BY DEF StreamInv, StreamTypes
<1>4. fw'.state \in {fw.state, "wait"}
  <2>1. CASE Erased
    BY <1>3, <2>1 DEF Erased, EndCommand, FluxEnd, Firmware
  <2>2. CASE Sink
    <3>1. \/ fw' = EndCommand([fw EXCEPT !.state = "wait"], "okay")
          \/ fw' = [fw EXCEPT !.rx = 0, !.todo = fw.todo - Smaller(fw.todo, fw.rx)]
      BY <2>2 DEF Sink
    <3> QED BY <1>3, <3>1 DEF EndCommand, Firmware
  <2>3. CASE Source
    <3>1. \/ fw' = EndCommand([fw EXCEPT !.state = "wait", !.todo = 0], fw.todo)
          \/ fw' = [fw EXCEPT !.tx = Append(fw.tx, Mps), !.todo = fw.todo - Mps]
      BY <2>3 DEF Source
    <3> QED BY <1>3, <3>1 DEF EndCommand, Firmware
  <2> QED BY <2>1, <2>2, <2>3
<1>5. fw'.state \notin Flowing /\ host'.op # "write"
  BY <1>1, <1>2, <1>4 DEF Flowing, Writing
<1>6. host'.status = "none"
  BY <1>1, <1>2 DEF StreamTold
<1> QED BY <1>5, <1>6, OthersTell

LEMMA CommandTells ==
  ASSUME StreamInv, StreamTold, Command
  PROVE  StreamTold'
<1>1. /\ fw.state = "wait" /\ host' = host /\ fw' = [fw EXCEPT !.rx = 0]
      /\ seen' = [seen EXCEPT !.ran = TRUE]
  BY DEF Command
<1>2. fw \in Firmware /\ seen \in History
  BY DEF StreamInv, StreamTypes
<1>3. fw'.state = "wait" /\ fw'.tx = fw.tx
  BY <1>1, <1>2 DEF Firmware
<1>4. seen'.read = seen.read /\ seen'.at = seen.at
  BY <1>1, <1>2 DEF History
<1>5. seen'.cut = seen.cut /\ seen'.late = seen.late
  BY <1>1, <1>2 DEF History
<1>6. fw'.state \notin Flowing
  BY <1>3 DEF Flowing, Writing
<1>7. host'.stage # "idle" => host'.status = "none"
  BY <1>1 DEF StreamTold
<1>8. ASSUME host'.op = "write", ~seen'.late, host'.status = "okay" \/ OkayIsComing'
      PROVE  AllThere(seen', host'.stream)
  <2>1. host.op = "write" /\ ~seen.late /\ (host.status = "okay" \/ OkayIsComing)
    BY <1>1, <1>3, <1>5, <1>8 DEF OkayIsComing
  <2>2. AllThere(seen, host.stream)
    BY <2>1 DEF StreamTold
  <2> QED BY <1>1, <1>4, <1>5, <2>2 DEF AllThere
<1> QED BY <1>6, <1>7, <1>8, NothingToTellAfter

LEMMA WatchdogTells ==
  ASSUME StreamInv, StreamTold, Watchdog
  PROVE  StreamTold'
<1>1. /\ host' = host /\ fw' = [Idle EXCEPT !.rx = fw.rx, !.tx = fw.tx]
      /\ seen' = [seen EXCEPT !.late = TRUE]
  BY DEF Watchdog
<1>2. fw'.state = "wait"
  BY <1>1 DEF Idle
<1>3. seen \in History
  BY DEF StreamInv, StreamTypes
<1>4. seen'.late
  BY <1>1, <1>3 DEF History
<1>5. host'.stage # "idle" => host'.status = "none"
  BY <1>1 DEF StreamTold
<1>6. fw'.state \notin Flowing
  BY <1>2 DEF Flowing, Writing
<1> QED BY <1>4, <1>5, <1>6, NothingToTellAfter

LEMMA GiveUpTells ==
  ASSUME StreamInv, GiveUp
  PROVE  StreamTold'
<1>1. fw'.state = "wait" /\ host'.op = "none" /\ host'.status = "none"
  BY DEF GiveUp, Idle, NoStream
<1>2. fw'.state \notin Flowing
  BY <1>1 DEF Flowing, Writing
<1> QED BY <1>1, <1>2, OthersTell

\* An answer that is read was on its way.
LEMMA ComingLess ==
  ASSUME StreamInv, fw.tx # <<>>, fw' = [fw EXCEPT !.tx = Tail(fw.tx)]
  PROVE  /\ OkayIsComing' => OkayIsComing
         /\ Head(fw.tx) = "okay" => OkayIsComing
         /\ fw'.state = fw.state /\ fw'.toks = fw.toks /\ fw'.mode = fw.mode /\ fw'.dma = fw.dma
         /\ fw'.status = fw.status
<1>1. fw \in Firmware
  BY DEF StreamInv, StreamTypes
<1>2. fw.tx \in Seq(Answer)
  BY <1>1 DEF Firmware
<1>3. /\ fw'.tx = Tail(fw.tx) /\ fw'.state = fw.state /\ fw'.toks = fw.toks /\ fw'.mode = fw.mode
      /\ fw'.dma = fw.dma /\ fw'.status = fw.status
  BY <1>1 DEF Firmware
<1>4. /\ Tail(fw.tx) \in Seq(Answer) /\ Len(fw.tx) \in Nat \ {0} /\ Len(Tail(fw.tx)) = Len(fw.tx) - 1
      /\ \A i \in 1..Len(Tail(fw.tx)) : Tail(fw.tx)[i] = fw.tx[i + 1]
      /\ DOMAIN fw.tx = 1..Len(fw.tx) /\ DOMAIN Tail(fw.tx) = 1..Len(Tail(fw.tx))
  BY <1>2, HeadTailProperties, LenProperties, EmptySeq
<1>5. ASSUME OkayIsComing' PROVE OkayIsComing
  <2>1. PICK i \in DOMAIN Tail(fw.tx) : Tail(fw.tx)[i] = "okay"
    BY <1>3, <1>5 DEF OkayIsComing
  <2>2. i + 1 \in DOMAIN fw.tx /\ fw.tx[i + 1] = "okay"
    BY <1>4, <2>1
  <2> QED BY <2>2 DEF OkayIsComing
<1>6. ASSUME Head(fw.tx) = "okay" PROVE OkayIsComing
  <2>1. 1 \in DOMAIN fw.tx /\ Head(fw.tx) = fw.tx[1]
    BY <1>2, <1>4
  <2> QED BY <1>6, <2>1 DEF OkayIsComing
<1> QED BY <1>3, <1>5, <1>6

LEMMA AcknowledgedTells ==
  ASSUME StreamInv, StreamTold, Acknowledged
  PROVE  StreamTold'
<1>1. /\ host.stage = "asked" /\ fw.tx # <<>> /\ seen' = seen /\ fw' = [fw EXCEPT !.tx = Tail(fw.tx)]
      /\ host' = IF Head(fw.tx) # "ack" THEN NoStream
                 ELSE [host EXCEPT !.stage = IF host.op \in {"write", "sink"} /\ host.total > 0
                                             THEN "sending" ELSE "sent"]
  BY DEF Acknowledged
<1>2. host \in HostSide
  BY DEF StreamInv, StreamTypes
<1>3. /\ OkayIsComing' => OkayIsComing
      /\ fw'.state = fw.state /\ fw'.toks = fw.toks /\ fw'.mode = fw.mode /\ fw'.dma = fw.dma
      /\ fw'.status = fw.status
  BY <1>1, ComingLess
<1>4. CASE Head(fw.tx) # "ack"
  <2>1. host'.op = "none" /\ host'.status = "none"
    BY <1>1, <1>4 DEF NoStream
  <2>2. fw.state \notin Flowing
    <3> SUFFICES ASSUME fw.state \in Flowing PROVE FALSE
      OBVIOUS
    <3>1. fw.tx = Ack
      BY FlowingHolds
    <3>2. Head(fw.tx) = "ack"
      BY <1>1, <3>1 DEF Ack
    <3> QED BY <1>4, <3>2
  <2> QED BY <1>3, <2>1, <2>2, OthersTell
<1>5. CASE Head(fw.tx) = "ack"
  <2>1. host'.op = host.op /\ host'.status = host.status /\ host'.stream = host.stream
    BY <1>1, <1>2, <1>5 DEF HostSide
  <2>2. host.status = "none"
    BY <1>1 DEF StreamTold
  <2> QED BY <1>1, <1>3, <2>1, <2>2 DEF StreamTold, TellsOf
<1> QED BY <1>4, <1>5

LEMMA SendTells ==
  ASSUME StreamInv, StreamTold, Send
  PROVE  StreamTold'
<1>1. PICK n \in 1..Smaller(Mps, host.total - host.sent) :
        /\ fw' = [fw EXCEPT !.rx = n]
        /\ host' = [host EXCEPT !.sent = host.sent + n,
                                !.stage = IF host.sent + n = host.total THEN "sent" ELSE host.stage]
  BY DEF Send
<1>2. host.stage = "sending" /\ seen' = seen
  BY DEF Send
<1>3. fw \in Firmware /\ host \in HostSide
  BY DEF StreamInv, StreamTypes
<1>4. /\ fw'.state = fw.state /\ fw'.toks = fw.toks /\ fw'.mode = fw.mode /\ fw'.dma = fw.dma
      /\ fw'.status = fw.status /\ fw'.tx = fw.tx
  BY <1>1, <1>3 DEF Firmware
<1>5. host'.op = host.op /\ host'.status = host.status /\ host'.stream = host.stream
  BY <1>1, <1>3 DEF HostSide
<1>6. host.status = "none" /\ (OkayIsComing' <=> OkayIsComing)
  BY <1>2, <1>4 DEF StreamTold, OkayIsComing
<1> QED BY <1>2, <1>4, <1>5, <1>6 DEF StreamTold, TellsOf

LEMMA ReceiveTells ==
  ASSUME StreamInv, StreamTold, Receive
  PROVE  StreamTold'
<1>1. /\ host.stage = "sent" /\ fw.tx # <<>> /\ seen' = seen /\ fw' = [fw EXCEPT !.tx = Tail(fw.tx)]
  BY DEF Receive
<1>2. host \in HostSide
  BY DEF StreamInv, StreamTypes
<1>3. /\ OkayIsComing' => OkayIsComing
      /\ Head(fw.tx) = "okay" => OkayIsComing
      /\ fw'.state = fw.state
  BY <1>1, ComingLess
<1>4. fw'.state \notin Flowing
  <2> SUFFICES ASSUME fw.state \in Flowing PROVE FALSE
    BY <1>3
  <2>1. fw.tx = Ack
    BY FlowingHolds
  <2> QED BY <1>1, <2>1 DEF Ack
<1>5. host.status = "none"
  BY <1>1 DEF StreamTold
<1>6. CASE host.op = "source"
  <2>1. host' = [host EXCEPT !.got = host.got + Head(fw.tx),
                             !.stage = IF Head(fw.tx) < Mps THEN "idle" ELSE host.stage]
    BY <1>6 DEF Receive
  <2>2. host'.op = "source" /\ host'.status = "none"
    BY <1>2, <1>5, <1>6, <2>1 DEF HostSide
  <2> QED BY <1>4, <2>2, OthersTell
<1>7. CASE host.op # "source"
  <2>1. host' = [host EXCEPT !.status = Head(fw.tx), !.stage = "idle"]
    BY <1>7 DEF Receive
  <2>2. host'.op = host.op /\ host'.stage = "idle" /\ host'.stream = host.stream /\ host'.status = Head(fw.tx)
    BY <1>2, <2>1 DEF HostSide
  <2>3. ASSUME host'.op = "write", ~seen'.late, host'.status = "okay" \/ OkayIsComing'
        PROVE  AllThere(seen', host'.stream)
    <3>1. host.op = "write" /\ ~seen.late /\ OkayIsComing
      BY <1>1, <1>3, <2>2, <2>3
    <3>2. AllThere(seen, host.stream)
      BY <3>1 DEF StreamTold
    <3> QED BY <1>1, <2>2, <3>2
  <2> QED BY <1>4, <2>2, <2>3, NothingToTellAfter
<1> QED BY <1>6, <1>7

LEMMA TellsNext ==
  ASSUME StreamInv, StreamTold, Next
  PROVE  StreamTold'
<1>1. ASSUME NEW s \in Streams, WritePrep(s) PROVE StreamTold'
  BY <1>1, WritePrepTells
<1>2. CASE ErasePrep \/ \E kind \in {"sink", "source"}, n \in 0..MaxBytes : BytesPrep(kind, n)
  BY <1>2, PrepTells
<1>3. CASE Device
  BY <1>3, WaitDataTells, WaitIndexTells, WriteTells, WriteDrainTells, BytesTell, CommandTells DEF Device
<1>4. CASE Host
  BY <1>4, AcknowledgedTells, SendTells, ReceiveTells DEF Host
<1>5. CASE DmaPulse \/ Index
  BY <1>5, DmaPulseTells, IndexTells
<1>6. CASE Watchdog \/ GiveUp
  BY <1>6, WatchdogTells, GiveUpTells
<1> QED BY <1>1, <1>2, <1>3, <1>4, <1>5, <1>6 DEF Next

LEMMA StreamToldAlways == MCSpec => []StreamTold
<1>1. MCInit => StreamTold
  <2> SUFFICES ASSUME MCInit PROVE StreamTold
    OBVIOUS
  <2>1. fw = Idle /\ host = NoStream
    BY DEF MCInit, Init
  <2>2. fw.state = "wait" /\ host.op = "none" /\ host.stage = "idle"
    BY <2>1 DEF Idle, NoStream
  <2> QED BY <2>2 DEF StreamTold, Writing
<1>2. StreamInv /\ StreamTold /\ [MCNext]_allVars => StreamTold'
  <2> SUFFICES ASSUME StreamInv, StreamTold, [MCNext]_allVars PROVE StreamTold'
    OBVIOUS
  <2>1. Next \/ UNCHANGED vars
    BY DEF MCNext, allVars
  <2>2. CASE UNCHANGED vars
    BY <2>2 DEF vars, StreamTold, TellsOf, AllThere, OkayIsComing
  <2> QED BY <2>1, <2>2, TellsNext
<1> QED BY <1>1, <1>2, StreamInvAlways, PTL DEF MCSpec

\* However packets, pulses, index and watchdog interleave: no time is lost or invented between
\* a stream and the pulses made of it; with a status of 0 the stream was read to its end, all
\* its pulses were written and each of its flux changes is at its time, or less than a pulse
\* before it, unless the index that the host asked for has ended the write; and every byte of
\* a source came (floppy_write, _wdata_decode_flux, source_bytes).
THEOREM StreamIsWrittenAlways == MCSpec => []StreamIsWritten
<1>1. StreamInv /\ StreamTold => StreamIsWritten
  <2> SUFFICES ASSUME StreamInv, StreamTold PROVE StreamIsWritten
    OBVIOUS
  <2>1. TimeIsKept
    BY DEF StreamInv, PulsesKnown, Pulsed, Writing, TimeIsKept
  <2>2. OkayIsComplete
    BY DEF StreamInv, Balanced, StreamTold, AllThere, OkayIsComplete, AllWritten
  <2> QED BY <2>1, <2>2 DEF StreamIsWritten
<1> QED BY <1>1, StreamInvAlways, StreamToldAlways, PTL

\* However a write or a sink ends, none of its bytes are left to be run as commands unless
\* the watchdog ended it; and the write gate is open in the states that write only
\* (floppy_write_drain, floppy_flux_end).
THEOREM NothingLeftToRunAlways == MCSpec => []NothingLeftToRun
<1>1. StreamInv => NothingLeftToRun
  BY DEF StreamInv
<1> QED BY <1>1, StreamInvAlways, PTL

-----------------------------------------------------------------------------
(* The clock: numbers modulo a constant. *)

LEMMA ModIs ==
  ASSUME NEW m \in Nat \ {0}, NEW q \in Int, NEW r \in 0 .. m - 1, NEW x \in Int, x = q * m + r
  PROVE  x % m = r
OBVIOUS

LEMMA ModOf ==
  ASSUME NEW m \in Nat \ {0}, NEW x \in Int
  PROVE  x % m \in 0 .. m - 1 /\ x \div m \in Int /\ x = (x \div m) * m + (x % m)
OBVIOUS

LEMMA ModLess ==
  ASSUME NEW m \in Nat \ {0}, NEW q \in Int, NEW r \in -m .. -1, NEW x \in Int, x = q * m + r
  PROVE  x % m = r + m
<1>1. PICK e \in 0 .. m - 1, d \in Int : x = d * m + e /\ e = x % m
  BY ModOf
<1>2. PICK f \in Int : f = d - q
  OBVIOUS
<1>3. f * m = r - e
  BY <1>1, <1>2
<1>4. f >= 0 => f * m >= 0
  OBVIOUS
<1>5. f <= -2 => f * m <= (-2) * m
  OBVIOUS
<1>6. f = -1
  BY <1>3, <1>4, <1>5
<1>7. f * m = -m
  BY <1>6
<1>8. e = r + m
  BY <1>3, <1>7
<1> QED BY <1>1, <1>8, Zenon

Times == 0 .. CK!Top - 1
Within == -CK!Half .. CK!Half - 1

LEMMA Ranges ==
  /\ CK!Half \in Nat \ {0} /\ CK!Top \in Nat \ {0} /\ CK!Top = 2 * CK!Half
  /\ CK!StkTop \in Nat \ {0} /\ CK!StkTop <= CK!Half
  /\ \E m \in Nat : CK!Top = m * CK!StkTop
  /\ CK!StampPeriod \in Nat \ {0} /\ CK!StampPeriod + 2 * MaxLate + Slack < CK!StkTop
<1>1. PICK m \in 1 .. CK!Half : CK!Half = m * CK!StkTop
  BY ClockAssumption
<1>2. CK!Half \in Nat /\ CK!StkTop \in Nat \ {0} /\ CK!Top = 2 * CK!Half
  BY ClockAssumption
<1>3. CK!Half >= CK!StkTop
  BY <1>1, <1>2
<1>4. CK!Top = (2 * m) * CK!StkTop /\ 2 * m \in Nat
  BY <1>1, <1>2
<1> QED BY <1>2, <1>3, <1>4, ClockAssumption

LEMMA WrapOf ==
  ASSUME NEW x \in Int
  PROVE  x % CK!Top \in Times /\ \E k \in Int : x = k * CK!Top + (x % CK!Top)
BY Ranges, ModOf DEF Times

\* The signed distance is the one number near 0 that leads from one time to the other.
LEMMA DiffOf ==
  ASSUME NEW x \in Int, NEW y \in Int
  PROVE  CK!Diff(x, y) \in Within /\ \E k \in Int : y - x = k * CK!Top + CK!Diff(x, y)
<1> DEFINE d == (y - x) % CK!Top
<1>1. d \in 0 .. CK!Top - 1 /\ \E k \in Int : y - x = k * CK!Top + d
  BY WrapOf DEF Times
<1>k. PICK k \in Int : y - x = k * CK!Top + d
  BY <1>1
<1>2. CASE d >= CK!Half
  <2>1. CK!Diff(x, y) = d - CK!Top
    BY <1>2 DEF CK!Diff
  <2> HIDE DEF d
  <2>2. y - x = (k + 1) * CK!Top + (d - CK!Top) /\ k + 1 \in Int
    BY <1>1, <1>k, Ranges
  <2>3. d - CK!Top \in Within
    BY <1>1, <1>2, Ranges DEF Within
  <2> QED BY <2>1, <2>2, <2>3
<1>3. CASE ~(d >= CK!Half)
  <2>1. CK!Diff(x, y) = d
    BY <1>3 DEF CK!Diff
  <2> HIDE DEF d
  <2> QED BY <1>1, <1>k, <1>3, <2>1, Ranges DEF Within
<1> QED BY <1>2, <1>3

LEMMA DiffIs ==
  ASSUME NEW x \in Int, NEW y \in Int, NEW z \in Within, NEW k \in Int, y - x = k * CK!Top + z
  PROVE  CK!Diff(x, y) = z
<1> DEFINE d == (y - x) % CK!Top
<1>1. CASE z >= 0
  <2>1. z \in 0 .. CK!Top - 1
    BY <1>1, Ranges DEF Within
  <2>2. d = z
    BY <2>1, Ranges, ModIs
  <2>3. ~(d >= CK!Half)
    BY <2>2, Ranges DEF Within
  <2> QED BY <2>2, <2>3 DEF CK!Diff
<1>2. CASE z < 0
  <2>1. z \in -CK!Top .. -1 /\ y - x \in Int
    BY <1>2, Ranges DEF Within
  <2>7. d = z + CK!Top
    BY <2>1, Ranges, ModLess
  <2>6. d >= CK!Half /\ d - CK!Top = z
    BY <2>7, Ranges DEF Within
  <2> QED BY <2>6 DEF CK!Diff
<1> QED BY <1>1, <1>2 DEF Within

\* From one time to one behind it by so much.
LEMMA DiffAhead ==
  ASSUME NEW x \in Int, NEW n \in Within
  PROVE  CK!Diff(x, (x + n) % CK!Top) = n
<1>1. PICK k \in Int : x + n = k * CK!Top + ((x + n) % CK!Top)
  BY WrapOf DEF Within
<1>2. (x + n) % CK!Top \in Int
  BY WrapOf DEF Within, Times
<1>3. ((x + n) % CK!Top) - x = (-k) * CK!Top + n
  BY <1>1, <1>2, Ranges DEF Within
<1> QED BY <1>2, <1>3, DiffIs

LEMMA DiffBehind ==
  ASSUME NEW x \in Int, NEW n \in 0 .. CK!Half - 1
  PROVE  CK!Diff((x - n) % CK!Top, x) = n
<1> DEFINE t == (x - n) % CK!Top
<1>1. PICK k \in Int : x - n = k * CK!Top + t
  BY WrapOf
<1>2. t \in Int /\ n \in Within
  BY WrapOf, Ranges DEF Within, Times
<1> HIDE DEF t
<1>3. x - t = k * CK!Top + n
  BY <1>1, <1>2, Ranges DEF Within
<1>4. CK!Diff(t, x) = n
  BY <1>2, <1>3, DiffIs
<1> QED BY <1>4 DEF t

\* Two distances make a third, if it is near too.
LEMMA DiffFrom ==
  ASSUME NEW x \in Int, NEW y \in Int, NEW z \in Int,
         CK!Diff(x, z) - CK!Diff(x, y) \in Within
  PROVE  CK!Diff(y, z) = CK!Diff(x, z) - CK!Diff(x, y)
<1>1. PICK k \in Int : y - x = k * CK!Top + CK!Diff(x, y)
  BY DiffOf
<1>2. PICK l \in Int : z - x = l * CK!Top + CK!Diff(x, z)
  BY DiffOf
<1>3. CK!Diff(x, y) \in Int /\ CK!Diff(x, z) \in Int
  BY DiffOf DEF Within
<1>4. z - y = (l - k) * CK!Top + (CK!Diff(x, z) - CK!Diff(x, y))
  BY <1>1, <1>2, <1>3, Ranges
<1> QED BY <1>4, DiffIs

LEMMA DiffSelf ==
  ASSUME NEW x \in Int
  PROVE  CK!Diff(x, x) = 0
<1>1. 0 \in Within /\ x - x = 0 * CK!Top + 0
  BY Ranges DEF Within
<1> QED BY <1>1, DiffIs

\* A tick brings what is ahead nearer, and what is behind farther.
LEMMA DiffTick ==
  ASSUME NEW x \in Int, NEW y \in Int
  PROVE  /\ CK!Diff(x, y) > -CK!Half => CK!Diff((x + 1) % CK!Top, y) = CK!Diff(x, y) - 1
         /\ CK!Diff(y, x) < CK!Half - 1 => CK!Diff(y, (x + 1) % CK!Top) = CK!Diff(y, x) + 1
<1> DEFINE t == (x + 1) % CK!Top
<1>1. PICK k \in Int : x + 1 = k * CK!Top + t
  BY WrapOf
<1>2. t \in Int
  BY WrapOf DEF Times
<1> HIDE DEF t
<1>3. PICK l \in Int : y - x = l * CK!Top + CK!Diff(x, y)
  BY DiffOf
<1>4. PICK n \in Int : x - y = n * CK!Top + CK!Diff(y, x)
  BY DiffOf
<1>5. CK!Diff(x, y) \in Within /\ CK!Diff(y, x) \in Within
  BY DiffOf
<1>6. ASSUME CK!Diff(x, y) > -CK!Half PROVE CK!Diff(t, y) = CK!Diff(x, y) - 1
  <2>1. CK!Diff(x, y) - 1 \in Within
    BY <1>5, <1>6, Ranges DEF Within
  <2>2. y - t = (l + k) * CK!Top + (CK!Diff(x, y) - 1)
    BY <1>1, <1>2, <1>3, <1>5, Ranges DEF Within
  <2> QED BY <1>2, <2>1, <2>2, DiffIs
<1>7. ASSUME CK!Diff(y, x) < CK!Half - 1 PROVE CK!Diff(y, t) = CK!Diff(y, x) + 1
  <2>1. CK!Diff(y, x) + 1 \in Within
    BY <1>5, <1>7, Ranges DEF Within
  <2>2. t - y = (n - k) * CK!Top + (CK!Diff(y, x) + 1)
    BY <1>1, <1>2, <1>4, <1>5, Ranges DEF Within
  <2> QED BY <1>2, <2>1, <2>2, DiffIs
<1> QED BY <1>6, <1>7 DEF t

-----------------------------------------------------------------------------
(* The time from the stamp and the low bits. *)

LEMMA TimeNowIs ==
  ASSUME now \in Times, NEW s \in Times, CK!Diff(CK!Not(s), now) \in 0 .. CK!StkTop - 1
  PROVE  CK!TimeNow(s) = now
<1> DEFINE age == CK!Diff(CK!Not(s), now)
           n == CK!Not(now)
           low == s % CK!StkTop
           t == (s - low) + CK!StkNow
<1>1. PICK m \in Nat : CK!Top = m * CK!StkTop
  BY Ranges
<1>2. PICK k \in Int : now - CK!Not(s) = k * CK!Top + age
  <2>1. CK!Not(s) \in Int /\ now \in Int
    BY Ranges DEF CK!Not, Times
  <2> QED BY <2>1, DiffOf
<1>3. n \in Times /\ now = CK!Top - 1 - n /\ age \in 0 .. CK!StkTop - 1
  BY Ranges DEF CK!Not, Times
<1> HIDE DEF age
<1>4. s - n = k * CK!Top + age
  BY <1>2, <1>3, Ranges DEF CK!Not, Times
<1>5. low \in 0 .. CK!StkTop - 1 /\ \E q \in Int : s = q * CK!StkTop + low
  <2>1. s \in Int
    BY Ranges DEF Times
  <2>2. low \in 0 .. CK!StkTop - 1 /\ s \div CK!StkTop \in Int
          /\ s = (s \div CK!StkTop) * CK!StkTop + low
    BY <2>1, Ranges, ModOf
  <2> QED BY <2>2
<1>6. PICK q \in Int : s = q * CK!StkTop + low
  BY <1>5
<1> HIDE DEF low, n
<1>7. \E j \in Int : k * CK!Top = j * CK!StkTop
  <2>1. k * m \in Int /\ k * (m * CK!StkTop) = (k * m) * CK!StkTop
    BY Ranges
  <2> QED BY <2>1, <1>1
<1>8. PICK j \in Int : k * CK!Top = j * CK!StkTop
  BY <1>7
<1>9. k * CK!Top \in Int /\ s \in Int /\ n \in Int /\ age \in Int /\ low \in Int
  BY <1>3, <1>5, Ranges DEF Times
\* The low bits of the time are behind the stamp's, or a turn ahead of them.
<1>10. CASE low >= age
  <2>1. PICK i \in Int : i = q - j
    OBVIOUS
  <2>r. PICK r \in Int : r = low - age
    BY <1>9, Ranges
  <2>2. n = i * CK!StkTop + r
    BY <2>r, <1>4, <1>6, <1>8, <1>9, <2>1, Ranges
  <2>3. r \in 0 .. CK!StkTop - 1
    BY <2>r, <1>3, <1>5, <1>9, <1>10, Ranges
  <2>4. n % CK!StkTop = r
    BY <1>9, <2>2, <2>3, Ranges, ModIs
  <2>5. t = s - age /\ ~(t > s)
    BY <2>r, <1>3, <1>9, <2>4 DEF CK!StkNow, n
  <2>6. (s - age) % CK!Top = n
    BY <1>3, <1>4, <1>9, Ranges, ModIs DEF Times
  <2>7. CK!TimeNow(s) = CK!Not(n)
    BY <2>5, <2>6 DEF CK!TimeNow, low
  <2> QED BY <1>3, <2>7, Ranges DEF CK!Not, Times
<1>11. CASE low < age
  <2>1. PICK i \in Int : i = q - j - 1
    OBVIOUS
  <2>r. PICK r \in Int : r = low - age + CK!StkTop
    BY <1>9, Ranges
  <2>2. n = i * CK!StkTop + r
    BY <2>r, <1>4, <1>6, <1>8, <1>9, <2>1, Ranges
  <2>3. r \in 0 .. CK!StkTop - 1
    BY <2>r, <1>3, <1>5, <1>9, <1>11, Ranges
  <2>4. n % CK!StkTop = r
    BY <1>9, <2>2, <2>3, Ranges, ModIs
  <2>5. t = s - age + CK!StkTop /\ t > s /\ t - CK!StkTop = s - age
    BY <2>r, <1>3, <1>9, <2>4, Ranges DEF CK!StkNow, n
  <2>6. (s - age) % CK!Top = n
    BY <1>3, <1>4, <1>9, Ranges, ModIs DEF Times
  <2>7. CK!TimeNow(s) = CK!Not(n)
    BY <2>5, <2>6 DEF CK!TimeNow, low
  <2> QED BY <1>3, <2>7, Ranges DEF CK!Not, Times
<1> QED BY <1>9, <1>10, <1>11

-----------------------------------------------------------------------------
(* The queue of timers: in the order of the time that they have left. *)

Names == {"stamp", "index", "delay"}
TimerTypes == [queue : Seq(Names), deadline : [Names -> Times], cnt : Nat, pending : BOOLEAN,
               serving : BOOLEAN, late : 0 .. MaxLate, wide : BOOLEAN]

\* The time that timers have left.
Left(t, m) == [u \in Names |-> CK!Diff(t, m.deadline[u])]

InOrder(q, left) ==
  /\ q \in Seq(Names)
  /\ \A i, j \in 1 .. Len(q) : i < j => q[i] # q[j] /\ left[q[i]] <= left[q[j]]
Queued(q, t) == \E i \in 1 .. Len(q) : q[i] = t

LEMMA LeftIs ==
  ASSUME NEW t \in Times, NEW m \in TimerTypes
  PROVE  Left(t, m) \in [Names -> Within] /\ \A u \in Names : Left(t, m)[u] = CK!Diff(t, m.deadline[u])
<1>1. t \in Int /\ \A u \in Names : m.deadline[u] \in Int
  BY DEF TimerTypes, Times
<1>2. \A u \in Names : CK!Diff(t, m.deadline[u]) \in Within
  BY <1>1, DiffOf
<1> QED BY <1>2 DEF Left

\* An element less, and one more.
LEMMA Without ==
  ASSUME NEW q \in Seq(Names), NEW n \in 1 .. Len(q)
  PROVE  LET r == SubSeq(q, 1, n - 1) \o SubSeq(q, n + 1, Len(q))
         IN  /\ r \in Seq(Names) /\ Len(r) = Len(q) - 1
             /\ \A i \in 1 .. Len(r) : r[i] = IF i < n THEN q[i] ELSE q[i + 1]
<1> DEFINE a == SubSeq(q, 1, n - 1)
           b == SubSeq(q, n + 1, Len(q))
<1>1. Len(q) \in Nat /\ \A i \in 1 .. Len(q) : q[i] \in Names
  BY ElementOfSeq, LenProperties
<1>2. a \in Seq(Names) /\ Len(a) = n - 1 /\ \A i \in 1 .. n - 1 : a[i] = q[i]
  <2>1. \A i \in 1 .. n - 1 : q[i] \in Names
    BY <1>1
  <2>2. /\ a \in Seq(Names) /\ Len(a) = (IF 1 <= n - 1 THEN n - 1 - 1 + 1 ELSE 0)
        /\ \A i \in 1 .. n - 1 - 1 + 1 : a[i] = q[1 + i - 1]
    BY <1>1, <2>1, SubSeqProperties
  <2> HIDE DEF a
  <2> QED BY <1>1, <2>2
<1>3. b \in Seq(Names) /\ Len(b) = Len(q) - n /\ \A i \in 1 .. Len(q) - n : b[i] = q[n + i]
  <2>1. \A i \in n + 1 .. Len(q) : q[i] \in Names
    BY <1>1
  <2>2. /\ b \in Seq(Names) /\ Len(b) = (IF n + 1 <= Len(q) THEN Len(q) - (n + 1) + 1 ELSE 0)
        /\ \A i \in 1 .. Len(q) - (n + 1) + 1 : b[i] = q[n + 1 + i - 1]
    BY <1>1, <2>1, SubSeqProperties
  <2> HIDE DEF b
  <2> QED BY <1>1, <2>2
<1> HIDE DEF a, b
<1>4. /\ a \o b \in Seq(Names) /\ Len(a \o b) = Len(a) + Len(b)
      /\ \A i \in 1 .. Len(a) + Len(b) : (a \o b)[i] = IF i <= Len(a) THEN a[i] ELSE b[i - Len(a)]
  BY <1>2, <1>3, ConcatProperties
<1>5. \A i \in 1 .. Len(q) - 1 : (a \o b)[i] = IF i < n THEN q[i] ELSE q[i + 1]
  <2> SUFFICES ASSUME NEW i \in 1 .. Len(q) - 1
               PROVE  (a \o b)[i] = IF i < n THEN q[i] ELSE q[i + 1]
    OBVIOUS
  <2>1. i \in 1 .. Len(a) + Len(b)
    BY <1>1, <1>2, <1>3
  <2>2. CASE i < n
    BY <1>1, <1>2, <1>4, <2>1, <2>2
  <2>3. CASE i >= n
    <3>1. i - Len(a) \in 1 .. Len(q) - n /\ n + (i - Len(a)) = i + 1 /\ ~(i <= Len(a))
      BY <1>1, <1>2, <2>3
    <3>2. (a \o b)[i] = b[i - Len(a)]
      BY <1>4, <2>1, <3>1
    <3>3. b[i - Len(a)] = q[n + (i - Len(a))]
      BY <1>3, <3>1
    <3>4. ~(i < n)
      BY <1>1, <2>3
    <3> QED BY <3>1, <3>2, <3>3, <3>4
  <2>4. i < n \/ i >= n
    BY <1>1
  <2> QED BY <2>2, <2>3, <2>4
<1>6. Len(a) + Len(b) = Len(q) - 1
  BY <1>1, <1>2, <1>3
<1>7. /\ a \o b \in Seq(Names) /\ Len(a \o b) = Len(q) - 1
      /\ \A i \in 1 .. Len(a \o b) : (a \o b)[i] = IF i < n THEN q[i] ELSE q[i + 1]
  BY <1>4, <1>5, <1>6
<1> QED BY <1>7 DEF a, b

\* That r is q with t behind the first n.
IsWith(r, q, n, t) ==
  /\ r \in Seq(Names) /\ Len(r) = Len(q) + 1
  /\ \A i \in 1 .. Len(r) : r[i] = IF i <= n THEN q[i] ELSE IF i = n + 1 THEN t ELSE q[i - 1]

LEMMA With ==
  ASSUME NEW q \in Seq(Names), NEW n \in 0 .. Len(q), NEW t \in Names,
         NEW k, k = n + 1, NEW r, r = CK!InsertAt(q, k, t)
  PROVE  IsWith(r, q, n, t)
<1> DEFINE a == SubSeq(q, 1, (n + 1) - 1)
           b == SubSeq(q, n + 1, Len(q))
           c == <<t>>
           d == a \o c
<1>1. Len(q) \in Nat /\ \A i \in 1 .. Len(q) : q[i] \in Names
  BY ElementOfSeq, LenProperties
<1>2. a \in Seq(Names) /\ Len(a) = n /\ \A i \in 1 .. n : a[i] = q[i]
  <2>1. (n + 1) - 1 = n /\ \A i \in 1 .. (n + 1) - 1 : q[i] \in Names
    BY <1>1
  <2>2. /\ a \in Seq(Names) /\ Len(a) = (IF 1 <= (n + 1) - 1 THEN (n + 1) - 1 - 1 + 1 ELSE 0)
        /\ \A i \in 1 .. (n + 1) - 1 - 1 + 1 : a[i] = q[1 + i - 1]
    BY <1>1, <2>1, SubSeqProperties
  <2> HIDE DEF a
  <2> QED BY <1>1, <2>2
<1>3. b \in Seq(Names) /\ Len(b) = Len(q) - n /\ \A i \in 1 .. Len(q) - n : b[i] = q[n + i]
  <2>1. \A i \in n + 1 .. Len(q) : q[i] \in Names
    BY <1>1
  <2>2. /\ b \in Seq(Names) /\ Len(b) = (IF n + 1 <= Len(q) THEN Len(q) - (n + 1) + 1 ELSE 0)
        /\ \A i \in 1 .. Len(q) - (n + 1) + 1 : b[i] = q[n + 1 + i - 1]
    BY <1>1, <2>1, SubSeqProperties
  <2> HIDE DEF b
  <2> QED BY <1>1, <2>2
<1>4. c \in Seq(Names) /\ Len(c) = 1 /\ c[1] = t
  OBVIOUS
<1>5. CK!InsertAt(q, n + 1, t) = d \o b
  BY DEF CK!InsertAt
<1> HIDE DEF a, b, c
<1>6. /\ d \in Seq(Names) /\ Len(d) = n + 1
      /\ \A i \in 1 .. Len(a) + Len(c) : d[i] = IF i <= Len(a) THEN a[i] ELSE c[i - Len(a)]
  <2>1. /\ a \o c \in Seq(Names) /\ Len(a \o c) = Len(a) + Len(c)
        /\ \A i \in 1 .. Len(a) + Len(c) : (a \o c)[i] = IF i <= Len(a) THEN a[i] ELSE c[i - Len(a)]
    BY <1>2, <1>4, ConcatProperties
  <2>2. Len(a) + Len(c) = n + 1
    BY <1>2, <1>4
  <2> QED BY <2>1, <2>2
<1> HIDE DEF d
<1>7. \A i \in 1 .. n + 1 : d[i] = IF i <= n THEN q[i] ELSE t
  <2> SUFFICES ASSUME NEW i \in 1 .. n + 1 PROVE d[i] = IF i <= n THEN q[i] ELSE t
    OBVIOUS
  <2>1. i \in 1 .. Len(a) + Len(c)
    BY <1>2, <1>4
  <2>2. CASE i <= n
    BY <1>2, <1>6, <2>1, <2>2
  <2>3. CASE i = n + 1
    <3>1. i - Len(a) = 1 /\ ~(i <= Len(a))
      BY <1>2, <2>3
    <3> QED BY <1>4, <1>6, <2>1, <2>3, <3>1
  <2> QED BY <2>2, <2>3
<1>8. /\ d \o b \in Seq(Names) /\ Len(d \o b) = Len(d) + Len(b)
      /\ \A i \in 1 .. Len(d) + Len(b) : (d \o b)[i] = IF i <= Len(d) THEN d[i] ELSE b[i - Len(d)]
  BY <1>3, <1>6, ConcatProperties
<1>9. \A i \in 1 .. Len(q) + 1 :
        (d \o b)[i] = IF i <= n THEN q[i] ELSE IF i = n + 1 THEN t ELSE q[i - 1]
  <2> SUFFICES ASSUME NEW i \in 1 .. Len(q) + 1
               PROVE  (d \o b)[i] = IF i <= n THEN q[i] ELSE IF i = n + 1 THEN t ELSE q[i - 1]
    OBVIOUS
  <2>1. i \in 1 .. Len(d) + Len(b)
    BY <1>1, <1>3, <1>6
  <2>2. CASE i <= n + 1
    BY <1>6, <1>7, <1>8, <2>1, <2>2
  <2>3. CASE i > n + 1
    <3>1. i - Len(d) \in 1 .. Len(q) - n /\ n + (i - Len(d)) = i - 1 /\ ~(i <= Len(d))
      BY <1>1, <1>6, <2>3
    <3>2. (d \o b)[i] = b[i - Len(d)]
      BY <1>8, <2>1, <3>1
    <3>3. b[i - Len(d)] = q[n + (i - Len(d))]
      BY <1>3, <3>1
    <3>4. ~(i <= n) /\ i # n + 1
      BY <1>1, <2>3
    <3> QED BY <3>1, <3>2, <3>3, <3>4
  <2>4. i <= n + 1 \/ i > n + 1
    BY <1>1
  <2> QED BY <2>2, <2>3, <2>4
<1>10. Len(d) + Len(b) = Len(q) + 1
  BY <1>1, <1>3, <1>6
<1>11. /\ d \o b \in Seq(Names) /\ Len(d \o b) = Len(q) + 1
       /\ \A i \in 1 .. Len(d \o b) :
            (d \o b)[i] = IF i <= n THEN q[i] ELSE IF i = n + 1 THEN t ELSE q[i - 1]
  BY <1>8, <1>9, <1>10
<1> DEFINE e == d \o b
<1>12. /\ e \in Seq(Names) /\ Len(e) = Len(q) + 1
       /\ \A i \in 1 .. Len(e) :
            e[i] = IF i <= n THEN q[i] ELSE IF i = n + 1 THEN t ELSE q[i - 1]
  BY <1>11
<1>13. r = e
  BY <1>5
<1> HIDE DEF e
<1>14. IsWith(e, q, n, t)
  BY <1>12 DEF IsWith
<1> QED BY <1>13, <1>14

LEMMA CancelledIs ==
  ASSUME NEW left \in [Names -> Int], NEW q, InOrder(q, left), NEW t \in Names
  PROVE  LET r == CK!Cancelled(q, t)
         IN  /\ InOrder(r, left) /\ ~Queued(r, t)
             /\ \A u \in Names : u # t => (Queued(r, u) <=> Queued(q, u))
             /\ Queued(q, t) /\ q[1] # t => r # <<>> /\ r[1] = q[1]
             /\ ~Queued(q, t) => r = q
<1> DEFINE r == CK!Cancelled(q, t)
<1>1. q \in Seq(Names) /\ Len(q) \in Nat
  BY DEF InOrder
<1>2. CASE ~Queued(q, t)
  <2>1. r = q
    BY <1>2 DEF CK!Cancelled, CK!RemoveFirst, Queued
  <2> QED BY <1>2, <2>1
<1>3. CASE Queued(q, t)
  <2> DEFINE I == {i \in 1 .. Len(q) : q[i] = t}
  <2>1. PICK n \in 1 .. Len(q) : q[n] = t
    BY <1>3 DEF Queued
  <2>2. I = {n}
    <3>1. \A i \in 1 .. Len(q) : i # n => q[i] # t
      BY <1>1, <2>1 DEF InOrder
    <3> QED BY <2>1, <3>1
  <2>3. CK!Min(I) = n
    BY <2>2 DEF CK!Min
  <2>4. CK!SelectInSeq(q, LAMBDA v : v = t) = n
    BY <2>2, <2>3 DEF CK!SelectInSeq
  <2>5. r = SubSeq(q, 1, n - 1) \o SubSeq(q, n + 1, Len(q))
    BY <1>3, <2>4 DEF CK!Cancelled, CK!RemoveFirst, CK!RemoveAt, Queued
  <2>6. /\ r \in Seq(Names) /\ Len(r) = Len(q) - 1
        /\ \A i \in 1 .. Len(r) : r[i] = IF i < n THEN q[i] ELSE q[i + 1]
    BY <1>1, <2>5, Without
  <2> HIDE DEF r
  <2>k. PICK k \in [1 .. Len(r) -> 1 .. Len(q)] :
          /\ \A i \in 1 .. Len(r) : r[i] = q[k[i]] /\ k[i] # n
          /\ \A i, j \in 1 .. Len(r) : i < j => k[i] < k[j]
    <3> DEFINE k == [i \in 1 .. Len(r) |-> IF i < n THEN i ELSE i + 1]
    <3>1. Len(r) = Len(q) - 1 /\ n \in 1 .. Len(q)
      BY <2>6
    <3>2. \A i \in 1 .. Len(r) : k[i] \in 1 .. Len(q) /\ k[i] # n
      BY <1>1, <3>1
    <3>3. \A i, j \in 1 .. Len(r) : i < j => k[i] < k[j]
      BY <1>1, <3>1
    <3>4. \A i \in 1 .. Len(r) : r[i] = q[k[i]]
      BY <2>6
    <3>5. k \in [1 .. Len(r) -> 1 .. Len(q)]
      BY <3>2
    <3> HIDE DEF k
    <3> QED BY <3>2, <3>3, <3>4, <3>5
  <2>7. InOrder(r, left)
    <3> SUFFICES ASSUME NEW i \in 1 .. Len(r), NEW j \in 1 .. Len(r), i < j
                 PROVE  r[i] # r[j] /\ left[r[i]] <= left[r[j]]
      BY <2>6 DEF InOrder
    <3>1. k[i] \in 1 .. Len(q) /\ k[j] \in 1 .. Len(q) /\ k[i] < k[j] /\ r[i] = q[k[i]] /\ r[j] = q[k[j]]
      BY <2>k
    <3> QED BY <3>1 DEF InOrder
  <2>8. ~Queued(r, t)
    <3> SUFFICES ASSUME NEW i \in 1 .. Len(r), r[i] = t PROVE FALSE
      BY DEF Queued
    <3>1. k[i] \in 1 .. Len(q) /\ k[i] # n /\ q[k[i]] = t
      BY <2>k
    <3>2. k[i] < n \/ n < k[i]
      BY <3>1
    <3> QED BY <2>1, <3>1, <3>2 DEF InOrder
  <2>9. \A u \in Names : u # t => (Queued(r, u) <=> Queued(q, u))
    <3> SUFFICES ASSUME NEW u \in Names, u # t PROVE Queued(r, u) <=> Queued(q, u)
      OBVIOUS
    <3>1. ASSUME NEW i \in 1 .. Len(q), q[i] = u PROVE Queued(r, u)
      <4>1. CASE i < n
        <5>1. i \in 1 .. Len(r)
          BY <1>1, <2>6, <4>1
        <5>2. r[i] = q[i]
          BY <2>6, <4>1, <5>1
        <5> QED BY <3>1, <5>1, <5>2 DEF Queued
      <4>2. CASE i > n
        <5>1. i - 1 \in 1 .. Len(r) /\ ~(i - 1 < n) /\ i - 1 + 1 = i
          BY <1>1, <2>6, <4>2
        <5>2. r[i - 1] = q[i - 1 + 1]
          BY <2>6, <5>1
        <5> QED BY <3>1, <5>1, <5>2 DEF Queued
      <4>3. i # n
        BY <2>1, <3>1
      <4> QED BY <4>1, <4>2, <4>3
    <3>2. ASSUME NEW i \in 1 .. Len(r), r[i] = u PROVE Queued(q, u)
      <4>1. k[i] \in 1 .. Len(q) /\ q[k[i]] = u
        BY <2>k, <3>2
      <4> QED BY <4>1 DEF Queued
    <3> QED BY <3>1, <3>2 DEF Queued
  <2>10. q[1] # t => r # <<>> /\ r[1] = q[1]
    <3> SUFFICES ASSUME q[1] # t PROVE r # <<>> /\ r[1] = q[1]
      OBVIOUS
    <3>1. n # 1
      BY <2>1
    <3>2. 1 \in 1 .. Len(r) /\ 1 < n
      BY <1>1, <2>6, <3>1
    <3>3. r[1] = q[1]
      BY <2>6, <3>2
    <3> QED BY <2>6, <3>2, <3>3
  <2> QED BY <1>3, <2>7, <2>8, <2>9, <2>10 DEF r
<1> QED BY <1>2, <1>3

LEMMA InsertedIs ==
  ASSUME NEW left \in [Names -> Int], NEW q, InOrder(q, left), NEW t \in Names, ~Queued(q, t),
         NEW n \in 0 .. Len(q),
         \A i \in 1 .. n : left[q[i]] <= left[t], \A i \in n + 1 .. Len(q) : left[t] <= left[q[i]]
  PROVE  LET r == CK!InsertAt(q, n + 1, t)
         IN  /\ InOrder(r, left) /\ r # <<>>
             /\ \A u \in Names : Queued(r, u) <=> u = t \/ Queued(q, u)
             /\ r[1] = IF n = 0 THEN t ELSE q[1]
<1> DEFINE r == CK!InsertAt(q, n + 1, t)
<1>1. q \in Seq(Names) /\ Len(q) \in Nat
  BY DEF InOrder
<1>2. PICK place : place = n + 1
  OBVIOUS
<1>n. n \in 0 .. Len(q) /\ t \in Names /\ r = CK!InsertAt(q, place, t)
  BY <1>2
<1> HIDE DEF r
<1>3. /\ r \in Seq(Names) /\ Len(r) = Len(q) + 1
      /\ \A i \in 1 .. Len(r) : r[i] = IF i <= n THEN q[i] ELSE IF i = n + 1 THEN t ELSE q[i - 1]
  <2>1. IsWith(r, q, n, t)
    BY ONLY <1>1, <1>2, <1>n, With
  <2> QED BY <2>1 DEF IsWith
<1>l. Len(r) = Len(q) + 1
  BY <1>3
<1>4. InOrder(r, left)
  <2> SUFFICES ASSUME NEW i \in 1 .. Len(r), NEW j \in 1 .. Len(r), i < j
               PROVE  r[i] # r[j] /\ left[r[i]] <= left[r[j]]
    BY <1>3 DEF InOrder
  <2>p. \A k \in 1 .. Len(q) : q[k] \in Names /\ left[q[k]] \in Int /\ q[k] # t
    BY <1>1, ElementOfSeq DEF Queued
  <2>1. CASE j <= n
    <3>1. i \in 1 .. Len(q) /\ j \in 1 .. Len(q) /\ i <= n
      BY <1>1, <1>3, <2>1
    <3>2. r[i] = q[i] /\ r[j] = q[j]
      BY <1>3, <2>1, <3>1
    <3> QED BY <3>1, <3>2 DEF InOrder
  <2>2. CASE j = n + 1
    <3>1. i \in 1 .. n /\ i \in 1 .. Len(q) /\ r[i] = q[i] /\ r[j] = t
      BY <1>1, <1>3, <2>2
    <3> QED BY <2>p, <3>1
  <2>3. CASE j > n + 1 /\ i = n + 1
    <3>1. r[i] = t /\ r[j] = q[j - 1] /\ j - 1 \in n + 1 .. Len(q) /\ j - 1 \in 1 .. Len(q)
      BY <1>1, <1>3, <2>3
    <3> QED BY <2>p, <3>1
  <2>4. CASE j > n + 1 /\ i > n + 1
    <3>1. /\ i - 1 \in 1 .. Len(q) /\ j - 1 \in 1 .. Len(q) /\ i - 1 < j - 1
          /\ ~(i <= n) /\ i # n + 1 /\ ~(j <= n) /\ j # n + 1
      BY <1>1, <1>l, <2>4
    <3>2. r[i] = q[i - 1] /\ r[j] = q[j - 1]
      BY <1>3, <3>1
    <3> QED BY <1>1, <3>1, <3>2 DEF InOrder
  <2>5. CASE j > n + 1 /\ i <= n
    <3>1. r[i] = q[i] /\ r[j] = q[j - 1] /\ i \in 1 .. Len(q) /\ j - 1 \in 1 .. Len(q) /\ i < j - 1
      BY <1>1, <1>3, <2>5
    <3> QED BY <1>1, <3>1 DEF InOrder
  <2> QED BY <1>1, <2>1, <2>2, <2>3, <2>4, <2>5
<1>5. \A u \in Names : Queued(r, u) <=> u = t \/ Queued(q, u)
  <2> SUFFICES ASSUME NEW u \in Names PROVE Queued(r, u) <=> u = t \/ Queued(q, u)
    OBVIOUS
  <2>1. ASSUME NEW i \in 1 .. Len(q), q[i] = u PROVE Queued(r, u)
    <3>1. CASE i <= n
      <4>1. i \in 1 .. Len(r) /\ r[i] = u
        BY <1>1, <1>3, <2>1, <3>1
      <4> QED BY <4>1 DEF Queued
    <3>2. CASE i > n
      <4>1. i + 1 \in 1 .. Len(r) /\ ~(i + 1 <= n) /\ i + 1 # n + 1 /\ i + 1 - 1 = i
        BY <1>1, <1>3, <3>2
      <4>2. r[i + 1] = q[i + 1 - 1]
        BY <1>3, <4>1
      <4> QED BY <2>1, <4>1, <4>2 DEF Queued
    <3> QED BY <3>1, <3>2
  <2>2. n + 1 \in 1 .. Len(r) /\ ~(n + 1 <= n)
    BY <1>1, <1>3
  <2>4. r[n + 1] = t
    BY <1>3, <2>2
  <2>3. ASSUME NEW i \in 1 .. Len(r), r[i] = u, u # t PROVE Queued(q, u)
    <3>1. CASE i <= n
      <4>1. i \in 1 .. Len(q) /\ q[i] = u
        BY <1>1, <1>3, <2>3, <3>1
      <4> QED BY <4>1 DEF Queued
    <3>2. CASE i > n
      <4>1. i # n + 1
        BY <2>3, <2>4
      <4>2. i - 1 \in 1 .. Len(q) /\ r[i] = q[i - 1]
        BY <1>1, <1>3, <3>2, <4>1
      <4> QED BY <2>3, <4>2 DEF Queued
    <3> QED BY <3>1, <3>2
  <2> QED BY <2>1, <2>2, <2>3, <2>4 DEF Queued
<1>6. r # <<>> /\ r[1] = IF n = 0 THEN t ELSE q[1]
  BY <1>1, <1>3
<1> QED BY <1>4, <1>5, <1>6 DEF r

\* The hardware is to fire in time, and not at once for ever.
LEMMA ProgrammedIs ==
  ASSUME NEW n \in Int
  PROVE  /\ CK!Programmed(n) \in Nat \ {0}
         /\ n >= 1 => CK!Programmed(n) <= n
         /\ n < 1 => CK!Programmed(n) = 1
<1>1. Slack \in Nat /\ Coarse \in Nat \ {0} /\ Early \in Nat /\ Fine \in Nat
        /\ Coarse * (Early + 1) <= Fine
  BY ClockAssumption
<1>2. Coarse * (Early + 1) >= 1
  <2>1. Coarse * (Early + 1) = Coarse * Early + Coarse /\ Coarse * Early >= 0
    BY <1>1
  <2> QED BY <1>1, <2>1
<1>3. CASE ~tm.wide /\ n >= Fine
  <2> DEFINE d == n \div Coarse
             e == n % Coarse
  <2>1. e \in 0 .. Coarse - 1 /\ d \in Int /\ n = d * Coarse + e
    BY <1>1, ModOf
  <2>2. CK!Programmed(n) = Coarse * (d - Early)
    BY <1>3 DEF CK!Programmed
  <2> HIDE DEF d, e
  <2>3. d > Early
    <3>1. d <= Early => d * Coarse <= Early * Coarse
      BY <1>1, <2>1
    <3>2. Coarse * (Early + 1) = Early * Coarse + Coarse
      BY <1>1
    <3> QED BY <1>1, <1>3, <2>1, <3>1, <3>2
  <2>4. PICK f \in Nat \ {0} : f = d - Early
    BY <1>1, <2>1, <2>3
  <2>5. Coarse * f >= 1 /\ Coarse * f \in Int
    BY <1>1
  <2>6. Coarse * f <= n
    <3>1. Coarse * f = d * Coarse - Early * Coarse
      BY <1>1, <2>1, <2>4
    <3>2. Early * Coarse >= 0
      BY <1>1
    <3> QED BY <1>1, <2>1, <3>1, <3>2
  <2>7. n >= 1
    BY <1>1, <1>2, <1>3
  <2> QED BY <2>2, <2>4, <2>5, <2>6, <2>7
<1>4. CASE ~(~tm.wide /\ n >= Fine)
  <2>1. CK!Programmed(n) = IF n <= Slack THEN 1 ELSE n - Slack
    BY <1>4 DEF CK!Programmed
  <2> QED BY <1>1, <2>1
<1> QED BY <1>3, <1>4

LEMMA ShortQueue ==
  ASSUME NEW left \in [Names -> Int], NEW q, InOrder(q, left), NEW t \in Names, ~Queued(q, t)
  PROVE  Len(q) \in 0 .. 2
<1>1. q \in Seq(Names) /\ Len(q) \in Nat /\ \A i \in 1 .. Len(q) : q[i] \in Names /\ q[i] # t
  BY ElementOfSeq DEF InOrder, Queued
<1>2. ASSUME Len(q) > 2 PROVE FALSE
  <2>1. 1 \in 1 .. Len(q) /\ 2 \in 1 .. Len(q) /\ 3 \in 1 .. Len(q)
    BY <1>1, <1>2
  <2>2. q[1] # q[2] /\ q[1] # q[3] /\ q[2] # q[3]
    BY <2>1 DEF InOrder
  <2> QED BY <1>1, <2>1, <2>2 DEF Names
<1>3. ~(Len(q) > 2)
  BY <1>2
<1>4. PICK k \in Nat : k = Len(q)
  BY <1>1
<1>5. k \in 0 .. 2
  BY <1>3, <1>4
<1> QED BY <1>4, <1>5

LEMMA BeforeIs ==
  ASSUME now \in Times, CK!TimeNow(stamp) = now,
         NEW m \in TimerTypes, NEW q, InOrder(q, Left(now, m)), Len(q) \in 0 .. 2, NEW delta \in Int
  PROVE  LET n == CK!Before(q, m.deadline, delta)
         IN  /\ n \in 0 .. Len(q)
             /\ \A i \in 1 .. n : Left(now, m)[q[i]] < delta
             /\ \A i \in n + 1 .. Len(q) : delta <= Left(now, m)[q[i]]
<1> DEFINE left == Left(now, m)
           P(n) == /\ \A i \in 1 .. n : left[q[i]] < delta
                   /\ n < Len(q) => delta <= left[q[n + 1]]
           b == CK!Before(q, m.deadline, delta)
<1>1. q \in Seq(Names) /\ \A i \in 1 .. Len(q) : q[i] \in Names
  BY ElementOfSeq DEF InOrder
<1>2. left \in [Names -> Int] /\ \A u \in Names : left[u] = CK!Diff(now, m.deadline[u])
  BY LeftIs, Ranges DEF Within
<1>3. b = CHOOSE n \in 0 .. Len(q) :
            /\ \A i \in 1 .. n : CK!Diff(now, m.deadline[q[i]]) < delta
            /\ n < Len(q) => delta <= CK!Diff(now, m.deadline[q[n + 1]])
  BY DEF CK!Before
<1> HIDE DEF left, b
<1>4. \E n \in 0 .. Len(q) : P(n)
  <2>1. \A i \in 1 .. Len(q) : left[q[i]] \in Int
    BY <1>1, <1>2
  <2>2. CASE Len(q) = 0 \/ (Len(q) > 0 /\ delta <= left[q[1]])
    <3>1. P(0)
      BY <2>2
    <3> QED BY <3>1
  <2>3. CASE Len(q) > 0 /\ left[q[1]] < delta /\ (Len(q) = 1 \/ delta <= left[q[2]])
    <3>1. P(1) /\ 1 \in 0 .. Len(q)
      BY <2>3
    <3> QED BY <3>1
  <2>4. CASE Len(q) = 2 /\ left[q[1]] < delta /\ left[q[2]] < delta
    <3>1. P(2) /\ 2 \in 0 .. Len(q)
      <4>1. \A i \in 1 .. 2 : i = 1 \/ i = 2
        OBVIOUS
      <4> QED BY <2>4, <4>1
    <3> QED BY <3>1
  <2> QED BY <2>1, <2>2, <2>3, <2>4
<1>5. \A n \in 0 .. Len(q) :
        P(n) <=> /\ \A i \in 1 .. n : CK!Diff(now, m.deadline[q[i]]) < delta
                 /\ n < Len(q) => delta <= CK!Diff(now, m.deadline[q[n + 1]])
  <2> SUFFICES ASSUME NEW n \in 0 .. Len(q)
      PROVE P(n) <=> /\ \A i \in 1 .. n : CK!Diff(now, m.deadline[q[i]]) < delta
                     /\ n < Len(q) => delta <= CK!Diff(now, m.deadline[q[n + 1]])
    OBVIOUS
  <2>1. \A i \in 1 .. n : i \in 1 .. Len(q) /\ left[q[i]] = CK!Diff(now, m.deadline[q[i]])
    BY <1>1, <1>2
  <2>2. n < Len(q) => left[q[n + 1]] = CK!Diff(now, m.deadline[q[n + 1]])
    BY <1>1, <1>2
  <2> QED BY <2>1, <2>2
<1>6. b \in 0 .. Len(q) /\ P(b)
  <2> DEFINE Q(n) == /\ \A i \in 1 .. n : CK!Diff(now, m.deadline[q[i]]) < delta
                     /\ n < Len(q) => delta <= CK!Diff(now, m.deadline[q[n + 1]])
  <2>1. b = CHOOSE n \in 0 .. Len(q) : Q(n)
    BY <1>3
  <2>2. \E n \in 0 .. Len(q) : Q(n)
    BY <1>4, <1>5
  <2>3. \A n \in 0 .. Len(q) : Q(n) => P(n)
    BY <1>5
  <2> HIDE DEF Q, P
  <2>4. b \in 0 .. Len(q) /\ Q(b)
    BY <2>1, <2>2
  <2> QED BY <2>3, <2>4
<1>7. \A i \in b + 1 .. Len(q) : delta <= left[q[i]]
  <2> SUFFICES ASSUME NEW i \in b + 1 .. Len(q) PROVE delta <= left[q[i]]
    OBVIOUS
  <2>1. b + 1 \in 1 .. Len(q) /\ i \in 1 .. Len(q) /\ (i = b + 1 \/ b + 1 < i) /\ b < Len(q)
    BY <1>6
  <2>2. delta <= left[q[b + 1]]
    BY <1>6, <2>1
  <2>3. b + 1 < i => left[q[b + 1]] <= left[q[i]]
    BY <2>1 DEF InOrder, left
  <2>4. left[q[b + 1]] \in Int /\ left[q[i]] \in Int
    BY <1>1, <1>2, <2>1
  <2> QED BY <2>1, <2>2, <2>3, <2>4
<1> QED BY <1>6, <1>7 DEF left, b

\* Setting a timer puts it in its place, and the hardware fires for the first one.
LEMMA TimerSetIs ==
  ASSUME now \in Times, CK!TimeNow(stamp) = now,
         NEW m \in TimerTypes, InOrder(m.queue, Left(now, m)),
         NEW t \in Names, NEW deadline \in Times
  PROVE  LET r == CK!TimerSet(m, t, deadline)
             rest == CK!Cancelled(m.queue, t)
         IN  /\ r \in TimerTypes /\ InOrder(r.queue, Left(now, r)) /\ r.queue # <<>>
             /\ r.deadline = [m.deadline EXCEPT ![t] = deadline]
             /\ r.pending = m.pending /\ r.serving = m.serving /\ r.late = m.late /\ r.wide = m.wide
             /\ \A u \in Names : Queued(r.queue, u) <=> u = t \/ Queued(m.queue, u)
             /\ \/ r.queue[1] = t /\ r.cnt = CK!Programmed(CK!Diff(now, deadline))
                \/ rest # <<>> /\ r.queue[1] = rest[1] /\ r.cnt = m.cnt
<1> DEFINE r == CK!TimerSet(m, t, deadline)
           rest == CK!Cancelled(m.queue, t)
           delta == CK!Diff(now, deadline)
           n == CK!Before(rest, m.deadline, delta)
           q == CK!InsertAt(rest, n + 1, t)
           d == [m.deadline EXCEPT ![t] = deadline]
           c == IF n = 0 THEN CK!Programmed(delta) ELSE m.cnt
<1>1. r = [m EXCEPT !.queue = q, !.deadline[t] = deadline, !.cnt = c]
  BY DEF CK!TimerSet
<1>2. delta \in Within /\ delta \in Int
  <2>1. now \in Int /\ deadline \in Int
    BY DEF Times
  <2>2. delta \in Within
    BY <2>1, DiffOf
  <2> HIDE DEF delta
  <2> QED BY <2>2, Ranges DEF Within
<1>3. Left(now, m) \in [Names -> Int]
  BY LeftIs, Ranges DEF Within
<1>4. /\ InOrder(rest, Left(now, m)) /\ ~Queued(rest, t)
      /\ \A u \in Names : u # t => (Queued(rest, u) <=> Queued(m.queue, u))
  BY <1>3, CancelledIs
<1> HIDE DEF rest, delta
<1>5. Len(rest) \in 0 .. 2
  BY <1>3, <1>4, ShortQueue
<1>6. /\ n \in 0 .. Len(rest)
      /\ \A i \in 1 .. n : Left(now, m)[rest[i]] < delta
      /\ \A i \in n + 1 .. Len(rest) : delta <= Left(now, m)[rest[i]]
  BY <1>2, <1>4, <1>5, BeforeIs
<1>7. c \in Nat
  BY <1>2, ProgrammedIs DEF TimerTypes
<1> HIDE DEF n
<1>8. d \in [Names -> Times] /\ d[t] = deadline /\ \A u \in Names : u # t => d[u] = m.deadline[u]
  BY DEF TimerTypes
<1> HIDE DEF c, d
<1> DEFINE k == [m EXCEPT !.deadline = d]
<1>9. k \in TimerTypes /\ k.deadline = d
  BY <1>8 DEF TimerTypes
<1>10. /\ Left(now, k) \in [Names -> Int] /\ Left(now, k)[t] = delta
       /\ \A u \in Names : u # t => Left(now, k)[u] = Left(now, m)[u]
  <2>1. /\ Left(now, k) \in [Names -> Within]
        /\ \A u \in Names : Left(now, k)[u] = CK!Diff(now, k.deadline[u])
    BY <1>9, LeftIs
  <2>2. \A u \in Names : Left(now, m)[u] = CK!Diff(now, m.deadline[u])
    BY LeftIs
  <2> QED BY <1>8, <1>9, <2>1, <2>2, Ranges DEF Within, delta
<1> HIDE DEF k
<1>11. rest \in Seq(Names) /\ \A i \in 1 .. Len(rest) : rest[i] \in Names /\ rest[i] # t
  BY <1>4, ElementOfSeq DEF InOrder, Queued
<1>12. \A i \in 1 .. Len(rest) : Left(now, k)[rest[i]] = Left(now, m)[rest[i]]
  BY <1>10, <1>11
<1>13. InOrder(rest, Left(now, k))
  BY <1>4, <1>12 DEF InOrder
<1>14. /\ InOrder(q, Left(now, k)) /\ q # <<>>
       /\ \A u \in Names : Queued(q, u) <=> u = t \/ Queued(rest, u)
       /\ q[1] = IF n = 0 THEN t ELSE rest[1]
  <2>1. \A i \in 1 .. n : Left(now, k)[rest[i]] <= Left(now, k)[t]
    <3> SUFFICES ASSUME NEW i \in 1 .. n PROVE Left(now, k)[rest[i]] <= Left(now, k)[t]
      OBVIOUS
    <3>1. i \in 1 .. Len(rest)
      BY <1>5, <1>6
    <3>2. Left(now, m)[rest[i]] < delta /\ Left(now, k)[rest[i]] = Left(now, m)[rest[i]]
      BY <1>6, <1>12, <3>1
    <3>3. Left(now, m)[rest[i]] \in Int
      BY <1>3, <1>11, <3>1
    <3> QED BY <1>2, <1>10, <3>2, <3>3
  <2>2. \A i \in n + 1 .. Len(rest) : Left(now, k)[t] <= Left(now, k)[rest[i]]
    <3> SUFFICES ASSUME NEW i \in n + 1 .. Len(rest) PROVE Left(now, k)[t] <= Left(now, k)[rest[i]]
      OBVIOUS
    <3>1. i \in 1 .. Len(rest)
      BY <1>5, <1>6
    <3> QED BY <1>6, <1>10, <1>12, <3>1
  <2> QED BY <1>4, <1>6, <1>10, <1>13, <2>1, <2>2, InsertedIs
<1> HIDE DEF q
<1>15. /\ r \in TimerTypes /\ r.queue = q /\ r.deadline = d /\ r.cnt = c
       /\ r.pending = m.pending /\ r.serving = m.serving /\ r.late = m.late /\ r.wide = m.wide
  <2>1. q \in Seq(Names)
    BY <1>14 DEF InOrder
  <2>2. r = [m EXCEPT !.queue = q, !.deadline = d, !.cnt = c]
    BY <1>1 DEF d, TimerTypes
  <2> QED BY <1>7, <1>8, <2>1, <2>2 DEF TimerTypes
<1> HIDE DEF r
<1>16. Left(now, r) = Left(now, k)
  BY <1>9, <1>15 DEF Left
<1>17. \A u \in Names : Queued(q, u) <=> u = t \/ Queued(m.queue, u)
  BY <1>4, <1>14
<1>18. \/ q[1] = t /\ c = CK!Programmed(delta)
       \/ rest # <<>> /\ q[1] = rest[1] /\ c = m.cnt
  <2>1. CASE n = 0
    BY <1>14, <2>1 DEF c
  <2>2. CASE n # 0
    <3>1. Len(rest) # 0
      BY <1>6, <2>2, <1>5
    <3> QED BY <1>14, <2>2, <3>1 DEF c
  <2> QED BY <2>1, <2>2
<1> QED BY <1>14, <1>15, <1>16, <1>17, <1>18 DEF r, d, rest, delta

-----------------------------------------------------------------------------
(* The inductive invariant of the clock. *)

Periodic == {"stamp", "index"}
\* The longest delay that there is, and how old a stamp is.
Reach == CK!Half - 2 * MaxLate - 2
Age(s) == CK!Diff(CK!Not(s), now)
LeftNow == Left(now, tm)
DelayIsQueued == Queued(tm.queue, "delay")

ClockTypes ==
  /\ now \in Times /\ stamp \in Times /\ tm \in TimerTypes
  /\ index \in [trigger : Times, since : 0 .. MaxSince, right : BOOLEAN]
  /\ op \in [mask : SUBSET Ops, owed : [Ops -> Nat]]
  /\ main \in [stage : {"idle", "read", "set"}, s : Times, ops : SUBSET Ops, n : Nat,
               age : 0 .. MaxLate]

QueueIsKept ==
  /\ InOrder(tm.queue, LeftNow) /\ \A u \in Periodic : Queued(tm.queue, u)
  /\ LeftNow["index"] <= IndexPeriod
  /\ DelayIsQueued => LeftNow["delay"] <= Reach

\* What is late is late by no more than its interrupt, and a delay that was over when it
\* was set also by what the main loop was.
FiresInTime ==
  /\ CK!Waiting =>
       /\ \A u \in Periodic : LeftNow[u] >= -tm.late
       /\ DelayIsQueued => LeftNow["delay"] >= -(MaxLate + 1 + tm.late)
  /\ ~CK!Waiting =>
       /\ tm.cnt >= 1 /\ \A u \in Periodic : tm.cnt <= LeftNow[u]
       /\ DelayIsQueued =>
            tm.cnt <= LeftNow["delay"] \/ (tm.cnt = 1 /\ LeftNow["delay"] >= -MaxLate)

StampIsYoung == Age(stamp) >= 0 /\ Age(stamp) + LeftNow["stamp"] = CK!StampPeriod

\* How long the interrupt may have been spinning since the main loop went on.
Spun ==
  IF ~DelayIsQueued \/ LeftNow["delay"] <= 0 THEN Slack
  ELSE IF LeftNow["delay"] >= Slack THEN 0 ELSE Slack - LeftNow["delay"]
ReadIsYoung ==
  main.stage = "read" =>
    /\ Age(main.s) >= 0 /\ Age(main.s) <= CK!StampPeriod + MaxLate + main.age + Spun
    /\ main.n <= Reach

MergedIsKept ==
  main.stage = "set" =>
    /\ ~DelayIsQueued /\ main.n \in Times
    /\ CK!Diff(now, main.n) \in -main.age .. Reach
    /\ \A o \in op.mask : op.owed[o] <= CK!Most(0, CK!Diff(now, main.n))
DelayIsKept ==
  main.stage # "set" =>
    \A o \in op.mask : DelayIsQueued /\ op.owed[o] <= CK!Most(0, LeftNow["delay"])

PulseIsKnown ==
  LET i == CK!Diff(index.trigger, now)
  IN  /\ i >= 0 /\ i + LeftNow["index"] <= 2 * IndexPeriod
      /\ i = index.since \/ (i >= Mask /\ index.since >= Mask)
      /\ index.right

ClockInv ==
  /\ ClockTypes /\ QueueIsKept /\ FiresInTime /\ StampIsYoung /\ ReadIsYoung
  /\ MergedIsKept /\ DelayIsKept /\ CK!DelaysAreKept /\ PulseIsKnown

-----------------------------------------------------------------------------
(* What the invariant says of a state. *)

LEMMA ClockBounds ==
  ASSUME ClockInv
  PROVE  /\ LeftNow \in [Names -> Within] /\ LeftNow \in [Names -> Int]
         /\ \A u \in Names : LeftNow[u] = CK!Diff(now, tm.deadline[u])
         /\ \A u \in Periodic : -MaxLate <= LeftNow[u]
         /\ DelayIsQueued => -(2 * MaxLate + 1) <= LeftNow["delay"] /\ LeftNow["delay"] <= Reach
         /\ LeftNow["stamp"] <= CK!StampPeriod
         /\ Age(stamp) \in 0 .. CK!StkTop - 1
         /\ MaxLate \in Nat /\ Slack \in Nat /\ tm.late \in 0 .. MaxLate /\ Reach \in Int
         /\ "stamp" \in Names /\ "index" \in Names /\ "delay" \in Names
<1>1. LeftNow \in [Names -> Within] /\ \A u \in Names : LeftNow[u] = CK!Diff(now, tm.deadline[u])
  BY LeftIs DEF ClockInv, ClockTypes, LeftNow
<1>2. LeftNow \in [Names -> Int]
  BY <1>1, Ranges DEF Within
<1>3. MaxLate \in Nat /\ Slack \in Nat /\ tm.late \in 0 .. MaxLate /\ tm.cnt \in Nat
  BY ClockAssumption DEF ClockInv, ClockTypes, TimerTypes
<1>4. "stamp" \in Names /\ "index" \in Names /\ "delay" \in Names /\ Periodic \subseteq Names
  BY DEF Names, Periodic
<1>5. \A u \in Periodic : -MaxLate <= LeftNow[u]
  <2> SUFFICES ASSUME NEW u \in Periodic PROVE -MaxLate <= LeftNow[u]
    OBVIOUS
  <2>1. LeftNow[u] \in Int
    BY <1>2, <1>4
  <2> QED BY <1>3, <2>1 DEF ClockInv, FiresInTime
<1>6. DelayIsQueued => -(2 * MaxLate + 1) <= LeftNow["delay"] /\ LeftNow["delay"] <= Reach
  <2>1. LeftNow["delay"] \in Int
    BY <1>2, <1>4
  <2> QED BY <1>3, <2>1 DEF ClockInv, FiresInTime, QueueIsKept
<1>7. Age(stamp) \in Int
  <2>1. CK!Not(stamp) \in Int /\ now \in Int
    BY Ranges DEF ClockInv, ClockTypes, Times, CK!Not
  <2> QED BY <2>1, DiffOf, Ranges DEF Within, Age
<1>8. Age(stamp) >= 0 /\ Age(stamp) + LeftNow["stamp"] = CK!StampPeriod /\ LeftNow["stamp"] \in Int
  BY <1>2, <1>4 DEF ClockInv, StampIsYoung
<1>9. -MaxLate <= LeftNow["stamp"]
  BY <1>5 DEF Periodic
<1>10. Reach \in Int
  BY <1>3, Ranges DEF Reach
<1> QED BY <1>1, <1>2, <1>3, <1>4, <1>5, <1>6, <1>7, <1>8, <1>9, <1>10, Ranges

\* Whoever asks for the time is told it.
LEMMA NowIsTold ==
  ASSUME ClockInv
  PROVE  CK!ClockIsRight
<1>1. now \in Times /\ stamp \in Times /\ main.s \in Times
  BY DEF ClockInv, ClockTypes
<1>2. CK!TimeNow(stamp) = now
  BY <1>1, ClockBounds, TimeNowIs DEF Age
<1>3. ASSUME main.stage = "read" PROVE CK!TimeNow(main.s) = now
  <2>1. Age(main.s) >= 0 /\ Age(main.s) <= CK!StampPeriod + MaxLate + main.age + Spun
    BY <1>3 DEF ClockInv, ReadIsYoung
  <2>2. Spun \in 0 .. Slack
    BY ClockBounds DEF Spun
  <2>3. main.age \in 0 .. MaxLate
    BY DEF ClockInv, ClockTypes
  <2>4. Age(main.s) \in Int
    <3>1. CK!Not(main.s) \in Int /\ now \in Int
      BY <1>1, Ranges DEF Times, CK!Not
    <3> QED BY <3>1, DiffOf, Ranges DEF Within, Age
  <2>5. Age(main.s) \in 0 .. CK!StkTop - 1
    BY <2>1, <2>2, <2>3, <2>4, Ranges, ClockBounds
  <2> QED BY <1>1, <2>5, TimeNowIs DEF Age
<1> QED BY <1>2, <1>3 DEF CK!ClockIsRight

\* The first timer of the queue has the least left.
LEMMA FirstIsLeast ==
  ASSUME ClockInv, tm.queue # <<>>
  PROVE  /\ CK!Due = tm.queue[1] /\ CK!Due \in Names /\ Queued(tm.queue, CK!Due)
         /\ \A u \in Names : Queued(tm.queue, u) => LeftNow[CK!Due] <= LeftNow[u]
<1>1. /\ tm.queue \in Seq(Names)
      /\ \A i, j \in 1 .. Len(tm.queue) : i < j => LeftNow[tm.queue[i]] <= LeftNow[tm.queue[j]]
  BY DEF ClockInv, QueueIsKept, InOrder
<1>2. Len(tm.queue) \in Nat /\ 1 \in 1 .. Len(tm.queue)
  BY <1>1, EmptySeq, LenProperties
<1>3. CK!Due = tm.queue[1] /\ tm.queue[1] \in Names
  BY <1>1, <1>2, ElementOfSeq DEF CK!Due
<1>4. \A i \in 1 .. Len(tm.queue) : LeftNow[tm.queue[1]] <= LeftNow[tm.queue[i]]
  <2> SUFFICES ASSUME NEW i \in 1 .. Len(tm.queue)
               PROVE  LeftNow[tm.queue[1]] <= LeftNow[tm.queue[i]]
    OBVIOUS
  <2>1. CASE i = 1
    <3>1. LeftNow[tm.queue[1]] \in Int
      BY <1>3, ClockBounds
    <3> QED BY <2>1, <3>1
  <2>2. CASE 1 < i
    BY <1>1, <1>2, <2>2
  <2> QED BY <2>1, <2>2
<1> QED BY <1>2, <1>3, <1>4 DEF Queued

LEMMA QueueIsNotEmpty ==
  ASSUME ClockInv
  PROVE  tm.queue # <<>>
<1>1. Queued(tm.queue, "stamp")
  BY DEF ClockInv, QueueIsKept, Periodic
<1> QED BY <1>1 DEF Queued

LEMMA ClockTells ==
  ASSUME ClockInv
  PROVE  /\ CK!ClockIsRight /\ CK!TimersAreKept /\ CK!DelaysAreKept /\ CK!PulsesAreTimed
<1>1. CK!DelaysAreKept /\ CK!PulsesAreTimed
  BY DEF ClockInv, PulseIsKnown, CK!PulsesAreTimed
<1>2. ASSUME ~CK!Waiting
      PROVE  tm.cnt \in 1 .. CK!Most(1, CK!Diff(now, tm.deadline[CK!Due]))
  <2>1. CK!Due \in Names /\ Queued(tm.queue, CK!Due) /\ CK!Diff(now, tm.deadline[CK!Due]) = LeftNow[CK!Due]
    BY QueueIsNotEmpty, FirstIsLeast, ClockBounds
  <2>2. tm.cnt \in Nat /\ tm.cnt >= 1 /\ LeftNow[CK!Due] \in Int
    BY <1>2, <2>1, ClockBounds DEF ClockInv, ClockTypes, TimerTypes, FiresInTime
  <2>3. tm.cnt <= LeftNow[CK!Due] \/ tm.cnt = 1
    <3>1. CASE CK!Due \in Periodic
      BY <1>2, <3>1 DEF ClockInv, FiresInTime
    <3>2. CASE CK!Due = "delay"
      <4>1. DelayIsQueued
        BY <2>1, <3>2 DEF DelayIsQueued
      <4> QED BY <1>2, <3>2, <4>1 DEF ClockInv, FiresInTime
    <3> QED BY <2>1, <3>1, <3>2 DEF Names, Periodic
  <2> QED BY <2>1, <2>2, <2>3 DEF CK!Most
<1> QED BY <1>1, <1>2, NowIsTold DEF CK!TimersAreKept

-----------------------------------------------------------------------------
(* The steps of the interrupt. *)

LEMMA PoppedIs ==
  ASSUME NEW left \in [Names -> Int], NEW q, InOrder(q, left), q # <<>>
  PROVE  /\ InOrder(Tail(q), left) /\ ~Queued(Tail(q), q[1])
         /\ \A u \in Names : u # q[1] => (Queued(Tail(q), u) <=> Queued(q, u))
<1> DEFINE r == Tail(q)
<1>1. q \in Seq(Names) /\ Len(q) \in Nat \ {0}
  BY EmptySeq DEF InOrder
<1>2. r \in Seq(Names) /\ Len(r) = Len(q) - 1 /\ \A i \in 1 .. Len(r) : r[i] = q[i + 1]
  BY <1>1, HeadTailProperties
<1> HIDE DEF r
<1>3. \A i \in 1 .. Len(r) : i + 1 \in 1 .. Len(q) /\ 1 < i + 1
  BY <1>1, <1>2
<1>4. InOrder(r, left)
  <2> SUFFICES ASSUME NEW i \in 1 .. Len(r), NEW j \in 1 .. Len(r), i < j
               PROVE  r[i] # r[j] /\ left[r[i]] <= left[r[j]]
    BY <1>2 DEF InOrder
  <2>1. i + 1 \in 1 .. Len(q) /\ j + 1 \in 1 .. Len(q) /\ i + 1 < j + 1 /\ r[i] = q[i + 1] /\ r[j] = q[j + 1]
    BY <1>2, <1>3
  <2> QED BY <2>1 DEF InOrder
<1>5. ~Queued(r, q[1])
  <2> SUFFICES ASSUME NEW i \in 1 .. Len(r), r[i] = q[1] PROVE FALSE
    BY DEF Queued
  <2>1. 1 \in 1 .. Len(q) /\ i + 1 \in 1 .. Len(q) /\ 1 < i + 1 /\ r[i] = q[i + 1]
    BY <1>1, <1>2, <1>3
  <2> QED BY <2>1 DEF InOrder
<1>6. \A u \in Names : u # q[1] => (Queued(r, u) <=> Queued(q, u))
  <2> SUFFICES ASSUME NEW u \in Names, u # q[1] PROVE Queued(r, u) <=> Queued(q, u)
    OBVIOUS
  <2>1. ASSUME NEW i \in 1 .. Len(q), q[i] = u PROVE Queued(r, u)
    <3>1. i # 1
      BY <2>1
    <3>2. i - 1 \in 1 .. Len(r) /\ i - 1 + 1 = i
      BY <1>1, <1>2, <3>1
    <3>3. r[i - 1] = q[i - 1 + 1]
      BY <1>2, <3>2
    <3> QED BY <2>1, <3>2, <3>3 DEF Queued
  <2>2. ASSUME NEW i \in 1 .. Len(r), r[i] = u PROVE Queued(q, u)
    <3>1. i + 1 \in 1 .. Len(q) /\ q[i + 1] = u
      BY <1>2, <1>3, <2>2
    <3> QED BY <3>1 DEF Queued
  <2> QED BY <2>1, <2>2 DEF Queued
<1> QED BY <1>4, <1>5, <1>6 DEF r

\* What the main loop is about stays, while the delay that is queued does.
LEMMA MainStays ==
  ASSUME ClockInv, now' = now, main' = main, op' = op,
         LeftNow'["delay"] = LeftNow["delay"], DelayIsQueued' = DelayIsQueued
  PROVE  ReadIsYoung' /\ MergedIsKept' /\ DelayIsKept' /\ CK!DelaysAreKept'
<1>1. Spun' = Spun
  BY DEF Spun
<1>2. Age(main.s)' = Age(main.s)
  BY DEF Age
<1>3. ReadIsYoung'
  BY <1>1, <1>2 DEF ClockInv, ReadIsYoung
<1>4. MergedIsKept'
  BY DEF ClockInv, MergedIsKept
<1>5. DelayIsKept'
  BY DEF ClockInv, DelayIsKept
<1> QED BY <1>3, <1>4, <1>5 DEF ClockInv, CK!DelaysAreKept

LEMMA TimerIrqKeeps ==
  ASSUME ClockInv, CK!TimerIrq
  PROVE  ClockInv'
<1>1. /\ tm.pending /\ tm' = [tm EXCEPT !.pending = FALSE, !.serving = TRUE]
      /\ now' = now /\ stamp' = stamp /\ index' = index /\ op' = op /\ main' = main
  BY DEF CK!TimerIrq
<1>2. tm \in TimerTypes
  BY DEF ClockInv, ClockTypes
<1>3. /\ tm' \in TimerTypes /\ tm'.queue = tm.queue /\ tm'.deadline = tm.deadline /\ tm'.late = tm.late
      /\ tm'.serving
  BY <1>1, <1>2 DEF TimerTypes
<1>4. LeftNow' = LeftNow /\ DelayIsQueued' = DelayIsQueued /\ CK!Waiting /\ CK!Waiting'
  BY <1>1, <1>3 DEF LeftNow, Left, DelayIsQueued, CK!Waiting
<1>5. ClockTypes' /\ QueueIsKept' /\ FiresInTime'
  BY <1>1, <1>3, <1>4 DEF ClockInv, ClockTypes, QueueIsKept, FiresInTime
<1>6. StampIsYoung' /\ PulseIsKnown'
  BY <1>1, <1>4 DEF ClockInv, StampIsYoung, PulseIsKnown, Age
<1> QED BY <1>1, <1>4, <1>5, <1>6, MainStays DEF ClockInv

LEMMA IrqLeavesKeeps ==
  ASSUME ClockInv, CK!IrqLeaves
  PROVE  ClockInv'
<1> DEFINE delta == CK!Diff(CK!TimeNow(stamp), tm.deadline[CK!Due])
<1>1. /\ tm.queue # <<>> /\ delta > Slack
      /\ tm' = [tm EXCEPT !.serving = FALSE, !.late = 0, !.cnt = CK!Programmed(delta)]
      /\ now' = now /\ stamp' = stamp /\ index' = index /\ op' = op /\ main' = main
  BY QueueIsNotEmpty DEF CK!IrqLeaves
<1>2. tm \in TimerTypes
  BY DEF ClockInv, ClockTypes
<1>3. CK!Due \in Names /\ delta = LeftNow[CK!Due] /\ delta \in Int
  BY <1>1, FirstIsLeast, ClockBounds, NowIsTold DEF CK!ClockIsRight
<1>4. CK!Programmed(delta) \in Nat \ {0} /\ CK!Programmed(delta) <= delta /\ Slack \in Nat
  BY <1>1, <1>3, ProgrammedIs, ClockBounds
<1>5. \A u \in Names : Queued(tm.queue, u) => delta <= LeftNow[u] /\ LeftNow[u] \in Int
  BY <1>1, <1>3, FirstIsLeast, ClockBounds
<1> HIDE DEF delta
<1>6. /\ tm' \in TimerTypes /\ tm'.queue = tm.queue /\ tm'.deadline = tm.deadline
      /\ tm'.late = 0 /\ tm'.cnt = CK!Programmed(delta)
  <2>1. 0 \in 0 .. MaxLate /\ CK!Programmed(delta) \in Nat
    BY <1>4, ClockBounds
  <2> QED BY <1>1, <1>2, <2>1 DEF TimerTypes
<1>7. LeftNow' = LeftNow /\ DelayIsQueued' = DelayIsQueued
  BY <1>1, <1>6 DEF LeftNow, Left, DelayIsQueued
<1>8. ClockTypes' /\ QueueIsKept'
  BY <1>1, <1>6, <1>7 DEF ClockInv, ClockTypes, QueueIsKept
<1>9. FiresInTime'
  <2>1. \A u \in Periodic : tm'.cnt <= LeftNow[u] /\ LeftNow[u] >= 0
    <3>1. \A u \in Periodic : u \in Names /\ Queued(tm.queue, u)
      BY DEF Periodic, Names, ClockInv, QueueIsKept
    <3> QED BY <1>1, <1>3, <1>4, <1>5, <1>6, <3>1
  <2>2. DelayIsQueued => tm'.cnt <= LeftNow["delay"] /\ LeftNow["delay"] >= 0 /\ LeftNow["delay"] \in Int
    BY <1>1, <1>3, <1>4, <1>5, <1>6, ClockBounds DEF DelayIsQueued
  <2>3. tm'.cnt >= 1 /\ MaxLate \in Nat
    BY <1>4, <1>6, ClockBounds
  <2> QED BY <1>6, <1>7, <2>1, <2>2, <2>3 DEF FiresInTime
<1>10. StampIsYoung' /\ PulseIsKnown'
  BY <1>1, <1>7 DEF ClockInv, StampIsYoung, PulseIsKnown, Age
<1> QED BY <1>1, <1>7, <1>8, <1>9, <1>10, MainStays DEF ClockInv

\* One of the periodic timers is set again.
LEMMA SetAgain ==
  ASSUME ClockInv, tm.serving, tm.queue # <<>>, CK!Due \in Periodic,
         NEW n \in 0 .. CK!Half - 1, CK!Due = "index" => n <= IndexPeriod,
         now' = now, tm' = CK!TimerSet(CK!Pop, CK!Due, (CK!TimeNow(stamp) + n) % CK!Top)
  PROVE  /\ tm' \in TimerTypes /\ QueueIsKept' /\ FiresInTime'
         /\ LeftNow' = [LeftNow EXCEPT ![CK!Due] = n] /\ DelayIsQueued' = DelayIsQueued
<1> DEFINE t == CK!Due
           m == CK!Pop
           deadline == (now + n) % CK!Top
<1>1. tm \in TimerTypes /\ now \in Times /\ t \in Names /\ t # "delay" /\ t = tm.queue[1]
  BY FirstIsLeast DEF ClockInv, ClockTypes, Periodic, Names
<1>2. CK!TimeNow(stamp) = now
  BY NowIsTold DEF CK!ClockIsRight
<1>3. InOrder(tm.queue, LeftNow) /\ LeftNow \in [Names -> Int]
  BY ClockBounds DEF ClockInv, QueueIsKept
<1>4. /\ InOrder(Tail(tm.queue), LeftNow)
      /\ \A u \in Names : u # t => (Queued(Tail(tm.queue), u) <=> Queued(tm.queue, u))
  BY <1>1, <1>3, PoppedIs
<1>5. /\ m \in TimerTypes /\ m.queue = Tail(tm.queue) /\ m.deadline = tm.deadline
      /\ m.serving = tm.serving /\ m.late = tm.late /\ m.cnt = tm.cnt
  <2>1. Tail(tm.queue) \in Seq(Names)
    BY <1>4 DEF InOrder
  <2> QED BY <1>1, <2>1 DEF CK!Pop, TimerTypes
<1>6. Left(now, m) = LeftNow
  BY <1>5 DEF LeftNow, Left
<1>7. deadline \in Times /\ CK!Diff(now, deadline) = n
  <2>1. now \in Int /\ n \in Within
    BY Ranges, <1>1 DEF Times, Within
  <2>2. now + n \in Int
    BY <2>1, Ranges DEF Within
  <2> QED BY <2>1, <2>2, WrapOf, DiffAhead
<1> HIDE DEF m, deadline
<1>8. tm' = CK!TimerSet(m, t, deadline)
  BY <1>2 DEF m, deadline
<1> HIDE DEF t
<1>9. /\ tm' \in TimerTypes /\ InOrder(tm'.queue, Left(now, tm')) /\ tm'.queue # <<>>
      /\ tm'.deadline = [m.deadline EXCEPT ![t] = deadline]
      /\ tm'.serving = m.serving /\ tm'.late = m.late
      /\ \A u \in Names : Queued(tm'.queue, u) <=> u = t \/ Queued(m.queue, u)
  <2>1. InOrder(m.queue, Left(now, m))
    BY <1>4, <1>5, <1>6
  <2> DEFINE r == CK!TimerSet(m, t, deadline)
  <2>2. /\ r \in TimerTypes /\ InOrder(r.queue, Left(now, r)) /\ r.queue # <<>>
        /\ r.deadline = [m.deadline EXCEPT ![t] = deadline]
        /\ r.serving = m.serving /\ r.late = m.late
        /\ \A u \in Names : Queued(r.queue, u) <=> u = t \/ Queued(m.queue, u)
    <3>1. now \in Times /\ CK!TimeNow(stamp) = now /\ m \in TimerTypes /\ t \in Names /\ deadline \in Times
      BY <1>1, <1>2, <1>5, <1>7
    <3> QED BY <2>1, <3>1, TimerSetIs
  <2>3. tm' = r
    BY <1>8
  <2> HIDE DEF r
  <2> QED BY <2>2, <2>3
<1>10. \A u \in Names : Queued(tm'.queue, u) <=> Queued(tm.queue, u) \/ u = t
  BY <1>4, <1>5, <1>9
<1>11. Queued(tm.queue, t)
  BY FirstIsLeast DEF t
<1>12. \A u \in Names : Queued(tm'.queue, u) <=> Queued(tm.queue, u)
  BY <1>10, <1>11
<1>13. LeftNow' = [LeftNow EXCEPT ![t] = n]
  <2>1. tm'.deadline \in [Names -> Times] /\ tm.deadline \in [Names -> Times]
    BY <1>1, <1>9 DEF TimerTypes
  <2>2. \A u \in Names : CK!Diff(now, tm'.deadline[u]) = IF u = t THEN n ELSE CK!Diff(now, tm.deadline[u])
    BY <1>5, <1>7, <1>9, <2>1
  <2>3. LeftNow' = [u \in Names |-> CK!Diff(now, tm'.deadline[u])]
    BY DEF LeftNow, Left
  <2>4. LeftNow = [u \in Names |-> CK!Diff(now, tm.deadline[u])]
    BY DEF LeftNow, Left
  <2>5. LeftNow' = [u \in Names |-> IF u = t THEN n ELSE LeftNow[u]]
    BY <2>2, <2>3, <2>4
  <2> QED BY <1>3, <2>5
<1>14. DelayIsQueued' = DelayIsQueued
  <2>1. Queued(tm'.queue, "delay") <=> Queued(tm.queue, "delay")
    BY <1>12 DEF Names
  <2> QED BY <2>1 DEF DelayIsQueued, Queued
<1>15. \A u \in Names : LeftNow'[u] = IF u = t THEN n ELSE LeftNow[u]
  BY <1>3, <1>13
<1>16. InOrder(tm'.queue, LeftNow')
  BY <1>9 DEF LeftNow
<1>17. QueueIsKept'
  <2>1. \A u \in Periodic : Queued(tm'.queue, u)
    BY <1>12 DEF ClockInv, QueueIsKept, Periodic, Names
  <2>2. LeftNow'["index"] <= IndexPeriod
    BY <1>15, ClockBounds DEF ClockInv, QueueIsKept, t
  <2>3. DelayIsQueued' => LeftNow'["delay"] <= Reach
    BY <1>1, <1>14, <1>15, ClockBounds
  <2> QED BY <1>16, <2>1, <2>2, <2>3 DEF QueueIsKept, Reach
<1>18. FiresInTime'
  <2>1. CK!Waiting /\ CK!Waiting'
    BY <1>5, <1>9 DEF CK!Waiting
  <2>2. tm'.late = tm.late /\ tm.late \in 0 .. MaxLate /\ MaxLate \in Nat
    BY <1>5, <1>9, ClockBounds
  <2>3. \A u \in Periodic : u \in Names /\ LeftNow[u] >= -tm.late
    BY <2>1 DEF ClockInv, FiresInTime, Periodic, Names
  <2>4. \A u \in Periodic : LeftNow'[u] >= -tm'.late
    BY <1>15, <2>2, <2>3
  <2>5. DelayIsQueued' => LeftNow'["delay"] >= -(MaxLate + 1 + tm'.late)
    BY <1>1, <1>14, <1>15, <2>1, <2>2, ClockBounds DEF ClockInv, FiresInTime
  <2> QED BY <2>1, <2>4, <2>5 DEF FiresInTime
<1> QED BY <1>9, <1>13, <1>14, <1>17, <1>18 DEF t

LEMMA NotNot ==
  ASSUME NEW t \in Times
  PROVE  CK!Not(t) \in Times /\ CK!Not(CK!Not(t)) = t
BY Ranges DEF Times, CK!Not

LEMMA StampRuns ==
  ASSUME ClockInv, CK!IrqRuns, CK!Due = "stamp"
  PROVE  ClockInv'
<1>1. /\ tm.serving /\ tm.queue # <<>>
      /\ tm' = CK!TimerSet(CK!Pop, "stamp", (CK!TimeNow(stamp) + CK!StampPeriod) % CK!Top)
      /\ stamp' = CK!Not(CK!TimeNow(stamp))
      /\ now' = now /\ index' = index /\ op' = op /\ main' = main
  BY DEF CK!IrqRuns
<1>2. CK!TimeNow(stamp) = now /\ now \in Times
  BY NowIsTold DEF CK!ClockIsRight, ClockInv, ClockTypes
<1>3. CK!StampPeriod \in 0 .. CK!Half - 1 /\ "stamp" \in Periodic /\ CK!Due # "index"
  BY Ranges, ClockBounds DEF Periodic
<1>4. /\ tm' \in TimerTypes /\ QueueIsKept' /\ FiresInTime'
      /\ LeftNow' = [LeftNow EXCEPT !["stamp"] = CK!StampPeriod] /\ DelayIsQueued' = DelayIsQueued
  BY <1>1, <1>3, SetAgain
<1>5. /\ LeftNow'["stamp"] = CK!StampPeriod /\ LeftNow'["delay"] = LeftNow["delay"]
      /\ LeftNow'["index"] = LeftNow["index"]
  BY <1>4, ClockBounds
<1>6. stamp' \in Times /\ CK!Not(stamp') = now
  BY <1>1, <1>2, NotNot
<1>7. ClockTypes'
  BY <1>1, <1>4, <1>6 DEF ClockInv, ClockTypes
<1>8. StampIsYoung'
  <2>1. Age(stamp)' = 0
    BY <1>1, <1>2, <1>6, DiffSelf DEF Age, Times
  <2> QED BY <1>5, <2>1, Ranges DEF StampIsYoung
<1>9. PulseIsKnown'
  BY <1>1, <1>5 DEF ClockInv, PulseIsKnown
<1> QED BY <1>1, <1>4, <1>5, <1>7, <1>8, <1>9, MainStays DEF ClockInv

LEMMA IndexRuns ==
  ASSUME ClockInv, CK!IrqRuns, CK!Due = "index"
  PROVE  ClockInv'
<1> DEFINE i == CK!Diff(index.trigger, now)
<1>1. /\ tm.serving /\ tm.queue # <<>>
      /\ tm' = CK!TimerSet(CK!Pop, "index", (CK!TimeNow(stamp) + IndexPeriod) % CK!Top)
      /\ index' = [index EXCEPT !.trigger = CK!Capped(@)]
      /\ now' = now /\ stamp' = stamp /\ op' = op /\ main' = main
  BY DEF CK!IrqRuns
<1>2. CK!TimeNow(stamp) = now /\ now \in Times
  BY NowIsTold DEF CK!ClockIsRight, ClockInv, ClockTypes
<1>3. /\ IndexPeriod \in 0 .. CK!Half - 1 /\ IndexPeriod \in Nat /\ Mask \in 0 .. IndexPeriod
      /\ "index" \in Periodic
  BY ClockAssumption DEF Periodic
<1>4. /\ tm' \in TimerTypes /\ QueueIsKept' /\ FiresInTime'
      /\ LeftNow' = [LeftNow EXCEPT !["index"] = IndexPeriod] /\ DelayIsQueued' = DelayIsQueued
  BY <1>1, <1>3, SetAgain
<1>5. /\ LeftNow'["stamp"] = LeftNow["stamp"] /\ LeftNow'["delay"] = LeftNow["delay"]
      /\ LeftNow'["index"] = IndexPeriod
  BY <1>4, ClockBounds
<1>6. /\ index \in [trigger : Times, since : 0 .. MaxSince, right : BOOLEAN]
      /\ i >= 0 /\ index.right /\ (i = index.since \/ (i >= Mask /\ index.since >= Mask))
  BY DEF ClockInv, ClockTypes, PulseIsKnown
<1>7. i \in Int
  <2>1. index.trigger \in Int /\ now \in Int
    BY <1>2, <1>6 DEF Times
  <2>2. i \in Within
    BY <2>1, DiffOf
  <2> HIDE DEF i
  <2> QED BY <2>2, Ranges DEF Within
<1>8. /\ CK!Capped(index.trigger) \in Times
      /\ CK!Diff(CK!Capped(index.trigger), now) = IF i > IndexPeriod THEN IndexPeriod ELSE i
  <2>1. CK!Capped(index.trigger) = IF i > IndexPeriod THEN (now - IndexPeriod) % CK!Top ELSE index.trigger
    BY <1>2 DEF CK!Capped
  <2>2. now \in Int /\ now - IndexPeriod \in Int
    BY <1>2, <1>3 DEF Times
  <2>3. (now - IndexPeriod) % CK!Top \in Times /\ CK!Diff((now - IndexPeriod) % CK!Top, now) = IndexPeriod
    BY <1>3, <2>2, WrapOf, DiffBehind
  <2> QED BY <1>6, <2>1, <2>3
<1> HIDE DEF i
<1>9. /\ index' \in [trigger : Times, since : 0 .. MaxSince, right : BOOLEAN]
      /\ index'.trigger = CK!Capped(index.trigger) /\ index'.since = index.since /\ index'.right
  BY <1>1, <1>6, <1>8
<1>10. ClockTypes'
  BY <1>1, <1>4, <1>9 DEF ClockInv, ClockTypes
<1>11. StampIsYoung'
  BY <1>1, <1>5 DEF ClockInv, StampIsYoung, Age
<1>12. PulseIsKnown'
  <2>1. CK!Diff(index'.trigger, now') = IF i > IndexPeriod THEN IndexPeriod ELSE i
    BY <1>1, <1>8, <1>9
  <2>2. index.since \in Int
    BY <1>6
  <2> QED BY <1>3, <1>5, <1>6, <1>7, <1>9, <2>1, <2>2 DEF PulseIsKnown
<1> QED BY <1>1, <1>4, <1>5, <1>10, <1>11, <1>12, MainStays DEF ClockInv

LEMMA DelayRuns ==
  ASSUME ClockInv, CK!IrqRuns, CK!Due = "delay"
  PROVE  ClockInv'
<1>1. /\ tm.serving /\ tm.queue # <<>> /\ ~CK!Spinning
      /\ CK!Diff(CK!TimeNow(stamp), tm.deadline["delay"]) <= Slack
      /\ tm' = CK!Pop /\ op' = [op EXCEPT !.mask = {}]
      /\ now' = now /\ stamp' = stamp /\ index' = index /\ main' = main
  BY DEF CK!IrqRuns
<1>2. CK!TimeNow(stamp) = now /\ tm \in TimerTypes
  BY NowIsTold DEF CK!ClockIsRight, ClockInv, ClockTypes
<1>3. DelayIsQueued /\ tm.queue[1] = "delay"
  BY <1>1, FirstIsLeast DEF DelayIsQueued
<1>4. CK!Diff(now, tm.deadline["delay"]) = LeftNow["delay"] /\ LeftNow["delay"] \in Int /\ Slack \in Nat
  BY ClockBounds
<1>5. LeftNow["delay"] <= 0
  <2>1. ~(LeftNow["delay"] \in 1 .. Slack)
    BY <1>1, <1>2, <1>4 DEF CK!Spinning
  <2> QED BY <1>1, <1>2, <1>4, <2>1
<1>6. /\ InOrder(Tail(tm.queue), LeftNow) /\ ~Queued(Tail(tm.queue), "delay")
      /\ \A u \in Names : u # "delay" => (Queued(Tail(tm.queue), u) <=> Queued(tm.queue, u))
  BY <1>1, <1>3, ClockBounds, PoppedIs DEF ClockInv, QueueIsKept
<1>7. /\ tm' \in TimerTypes /\ tm'.queue = Tail(tm.queue) /\ tm'.deadline = tm.deadline
      /\ tm'.serving /\ tm'.late = tm.late
  <2>1. Tail(tm.queue) \in Seq(Names)
    BY <1>6 DEF InOrder
  <2> QED BY <1>1, <1>2, <2>1 DEF CK!Pop, TimerTypes
<1>8. LeftNow' = LeftNow /\ ~DelayIsQueued'
  BY <1>1, <1>6, <1>7 DEF LeftNow, Left, DelayIsQueued
<1>9. op' \in [mask : SUBSET Ops, owed : [Ops -> Nat]] /\ op'.mask = {} /\ op'.owed = op.owed
  BY <1>1 DEF ClockInv, ClockTypes
<1>10. ClockTypes'
  BY <1>1, <1>7, <1>9 DEF ClockInv, ClockTypes
<1>11. QueueIsKept'
  <2>1. \A u \in Periodic : Queued(tm'.queue, u)
    BY <1>6, <1>7 DEF ClockInv, QueueIsKept, Periodic, Names
  <2> QED BY <1>6, <1>7, <1>8, <2>1 DEF ClockInv, QueueIsKept
<1>12. FiresInTime'
  <2>1. CK!Waiting /\ CK!Waiting'
    BY <1>1, <1>7 DEF CK!Waiting
  <2> QED BY <1>7, <1>8, <2>1 DEF ClockInv, FiresInTime
<1>13. StampIsYoung' /\ PulseIsKnown'
  BY <1>1, <1>8 DEF ClockInv, StampIsYoung, PulseIsKnown, Age
<1>14. ReadIsYoung'
  <2>1. Spun = Slack /\ Spun' = Slack
    BY <1>5, <1>8 DEF Spun
  <2> QED BY <1>1, <2>1 DEF ClockInv, ReadIsYoung, Age
<1>15. main.stage # "set"
  BY <1>3 DEF ClockInv, MergedIsKept
<1>16. MergedIsKept' /\ DelayIsKept'
  BY <1>1, <1>9, <1>15 DEF MergedIsKept, DelayIsKept
\* What was owed was owed until now.
<1>17. CK!DelaysAreKept'
  <2> SUFFICES ASSUME NEW o \in Ops PROVE op.owed[o] = 0
    BY <1>9 DEF CK!DelaysAreKept
  <2>1. CASE o \in op.mask
    <3>1. op.owed[o] <= CK!Most(0, LeftNow["delay"]) /\ op.owed[o] \in Nat
      BY <1>15, <2>1 DEF ClockInv, ClockTypes, DelayIsKept
    <3> QED BY <1>4, <1>5, <3>1 DEF CK!Most
  <2>2. CASE o \notin op.mask
    BY <2>2 DEF ClockInv, CK!DelaysAreKept
  <2> QED BY <2>1, <2>2
<1> QED BY <1>10, <1>11, <1>12, <1>13, <1>14, <1>16, <1>17 DEF ClockInv

LEMMA IrqRunsKeeps ==
  ASSUME ClockInv, CK!IrqRuns
  PROVE  ClockInv'
<1>1. CK!Due \in Names
  BY QueueIsNotEmpty, FirstIsLeast
<1> QED BY <1>1, StampRuns, IndexRuns, DelayRuns DEF Names

-----------------------------------------------------------------------------
(* A pulse, and the steps of the main loop. *)

\* The clock stays, while the timers and the stamp do.
LEMMA ClockStays ==
  ASSUME ClockInv, now' = now, stamp' = stamp, tm' = tm
  PROVE  LeftNow' = LeftNow /\ DelayIsQueued' = DelayIsQueued /\ QueueIsKept' /\ FiresInTime' /\ StampIsYoung'
<1>1. LeftNow' = LeftNow /\ DelayIsQueued' = DelayIsQueued /\ CK!Waiting' = CK!Waiting
  BY DEF LeftNow, DelayIsQueued, CK!Waiting
<1> QED BY <1>1 DEF ClockInv, QueueIsKept, FiresInTime, StampIsYoung, Age

LEMMA IndexPulseKeeps ==
  ASSUME ClockInv, CK!IndexPulse
  PROVE  ClockInv'
<1> DEFINE i == CK!Diff(index.trigger, now)
<1>1. now' = now /\ stamp' = stamp /\ tm' = tm /\ op' = op /\ main' = main
  BY DEF CK!IndexPulse
<1>2. CK!TimeNow(stamp) = now /\ now \in Times
  BY NowIsTold DEF CK!ClockIsRight, ClockInv, ClockTypes
<1>3. index' = IF i < Mask THEN [index EXCEPT !.right = index.since < Mask]
               ELSE [trigger |-> now, since |-> 0, right |-> index.since >= Mask]
  BY <1>2 DEF CK!IndexPulse
<1>4. /\ index \in [trigger : Times, since : 0 .. MaxSince, right : BOOLEAN]
      /\ i >= 0 /\ (i = index.since \/ (i >= Mask /\ index.since >= Mask))
      /\ i + LeftNow["index"] <= 2 * IndexPeriod
  BY DEF ClockInv, ClockTypes, PulseIsKnown
<1>5. i \in Int
  <2>1. index.trigger \in Int /\ now \in Int
    BY <1>2, <1>4 DEF Times
  <2>2. i \in Within
    BY <2>1, DiffOf
  <2> HIDE DEF i
  <2> QED BY <2>2, Ranges DEF Within
<1>6. Mask \in Int /\ MaxSince \in Nat /\ IndexPeriod \in Nat
  BY ClockAssumption
<1>7. LeftNow' = LeftNow /\ DelayIsQueued' = DelayIsQueued /\ QueueIsKept' /\ FiresInTime' /\ StampIsYoung'
  BY <1>1, ClockStays
<1> HIDE DEF i
<1>8. index' \in [trigger : Times, since : 0 .. MaxSince, right : BOOLEAN] /\ PulseIsKnown'
  <2>1. CASE i < Mask
    <3>1. index.since < Mask
      BY <1>4, <1>5, <1>6, <2>1
    <3>2. /\ index' \in [trigger : Times, since : 0 .. MaxSince, right : BOOLEAN]
          /\ index'.trigger = index.trigger /\ index'.since = index.since /\ index'.right
      BY <1>3, <1>4, <2>1, <3>1
    <3>3. CK!Diff(index'.trigger, now') = i
      BY <1>1, <3>2 DEF i
    <3> QED BY <1>4, <1>7, <3>2, <3>3 DEF PulseIsKnown
  <2>2. CASE ~(i < Mask)
    <3>1. index.since >= Mask
      BY <1>4, <1>5, <1>6, <2>2
    <3>2. /\ index' \in [trigger : Times, since : 0 .. MaxSince, right : BOOLEAN]
          /\ index'.trigger = now /\ index'.since = 0 /\ index'.right
      <4>1. (index.since >= Mask) = TRUE
        BY <3>1
      <4>2. index' = [trigger |-> now, since |-> 0, right |-> TRUE]
        BY <1>3, <2>2, <4>1
      <4>3. 0 \in 0 .. MaxSince
        BY <1>6
      <4> QED BY <1>2, <4>2, <4>3
    <3>3. CK!Diff(index'.trigger, now') = 0
      BY <1>1, <1>2, <3>2, DiffSelf DEF Times
    <3>4. LeftNow["index"] <= IndexPeriod /\ LeftNow["index"] \in Int
      BY ClockBounds DEF ClockInv, QueueIsKept
    <3> QED BY <1>6, <1>7, <3>2, <3>3, <3>4 DEF PulseIsKnown
  <2> QED BY <2>1, <2>2
<1>9. ClockTypes'
  BY <1>1, <1>8 DEF ClockInv, ClockTypes
<1> QED BY <1>1, <1>7, <1>8, <1>9, MainStays DEF ClockInv

LEMMA DelayBeginsKeeps ==
  ASSUME ClockInv, CK!DelayBegins
  PROVE  ClockInv'
<1>1. /\ main.stage = "idle" /\ now' = now /\ stamp' = stamp /\ tm' = tm /\ index' = index /\ op' = op
      /\ \E ask \in Asks : main' = [stage |-> "read", s |-> stamp, ops |-> ask[1], n |-> ask[2], age |-> 0]
  BY DEF CK!DelayBegins
<1>2. PICK ask \in Asks : main' = [stage |-> "read", s |-> stamp, ops |-> ask[1], n |-> ask[2], age |-> 0]
  BY <1>1
<1>3. ask[1] \subseteq Ops /\ ask[2] \in Nat /\ ask[2] <= Reach /\ MaxLate \in Nat /\ 0 \in 0 .. MaxLate
  BY ClockAssumption, Ranges DEF Reach
<1>4. LeftNow' = LeftNow /\ DelayIsQueued' = DelayIsQueued /\ QueueIsKept' /\ FiresInTime' /\ StampIsYoung'
  BY <1>1, ClockStays
<1>5. /\ main' \in [stage : {"idle", "read", "set"}, s : Times, ops : SUBSET Ops, n : Nat, age : 0 .. MaxLate]
      /\ main'.stage = "read" /\ main'.s = stamp /\ main'.n = ask[2] /\ main'.age = 0
  BY <1>2, <1>3 DEF ClockInv, ClockTypes
<1>6. ClockTypes'
  BY <1>1, <1>5 DEF ClockInv, ClockTypes
<1>7. ReadIsYoung'
  <2>1. Age(main.s)' = Age(stamp)
    BY <1>1, <1>5 DEF Age
  <2>2. Age(stamp) + LeftNow["stamp"] = CK!StampPeriod /\ Age(stamp) >= 0 /\ -MaxLate <= LeftNow["stamp"]
    BY ClockBounds DEF ClockInv, StampIsYoung, Periodic
  <2>3. Spun' = Spun /\ Spun \in 0 .. Slack
    BY <1>4, ClockBounds DEF Spun
  <2>4. Age(stamp) \in Int /\ LeftNow["stamp"] \in Int /\ Slack \in Nat
    BY ClockBounds
  <2>5. main'.n <= Reach'
    BY <1>3, <1>5 DEF Reach
  <2> QED BY <1>3, <1>5, <2>1, <2>2, <2>3, <2>4, <2>5, Ranges DEF ReadIsYoung
<1>8. MergedIsKept' /\ DelayIsKept' /\ CK!DelaysAreKept' /\ PulseIsKnown'
  BY <1>1, <1>4, <1>5 DEF ClockInv, MergedIsKept, DelayIsKept, CK!DelaysAreKept, PulseIsKnown
<1> QED BY <1>4, <1>6, <1>7, <1>8 DEF ClockInv

LEMMA MostIs ==
  ASSUME NEW a \in Int, NEW b \in Int
  PROVE  CK!Most(a, b) \in {a, b} /\ CK!Most(a, b) >= a /\ CK!Most(a, b) >= b
BY DEF CK!Most

\* The delay that is merged is over no earlier than the one that was queued.
LEMMA LaterIs ==
  ASSUME ClockInv, main.stage = "read"
  PROVE  LET n == CK!Later((CK!TimeNow(main.s) + main.n) % CK!Top)
             d == CK!Diff(now, n)
         IN  /\ n \in Times /\ d \in 0 .. Reach /\ d >= main.n
             /\ op.mask # {} => d >= LeftNow["delay"]
<1> DEFINE deadline == (now + main.n) % CK!Top
           n == CK!Later(deadline)
           d == CK!Diff(now, n)
<1>1. CK!TimeNow(main.s) = now /\ now \in Times /\ main.n \in Nat /\ tm \in TimerTypes
  BY NowIsTold DEF CK!ClockIsRight, ClockInv, ClockTypes
<1>2. main.n <= Reach /\ MaxLate \in Nat
  BY ClockBounds DEF ClockInv, ReadIsYoung
<1>3. main.n \in Within /\ now \in Int /\ now + main.n \in Int
  BY <1>1, <1>2, Ranges DEF Within, Reach, Times
<1>4. deadline \in Times /\ CK!Diff(now, deadline) = main.n
  BY <1>3, WrapOf, DiffAhead
<1> HIDE DEF deadline
<1>5. tm.deadline["delay"] \in Times /\ LeftNow["delay"] = CK!Diff(now, tm.deadline["delay"]) /\ LeftNow["delay"] \in Int
  BY <1>1, ClockBounds DEF TimerTypes
<1>6. op.mask # {} =>
        /\ DelayIsQueued
        /\ -(2 * MaxLate + 1) <= LeftNow["delay"] /\ LeftNow["delay"] <= Reach
  BY ClockBounds DEF ClockInv, DelayIsKept
<1>7. op.mask # {} => CK!Diff(tm.deadline["delay"], deadline) = main.n - LeftNow["delay"]
  <2> SUFFICES ASSUME op.mask # {} PROVE CK!Diff(tm.deadline["delay"], deadline) = main.n - LeftNow["delay"]
    OBVIOUS
  <2>1. main.n - LeftNow["delay"] \in Within
    BY <1>1, <1>2, <1>5, <1>6, Ranges DEF Within, Reach
  <2>2. now \in Int /\ deadline \in Int /\ tm.deadline["delay"] \in Int
    BY <1>3, <1>4, <1>5 DEF Times
  <2> QED BY <1>4, <1>5, <2>1, <2>2, DiffFrom
<1>8. CASE op.mask # {} /\ main.n - LeftNow["delay"] < 0
  <2>1. n = tm.deadline["delay"]
    BY <1>7, <1>8 DEF CK!Later
  <2>2. n \in Times /\ d = LeftNow["delay"]
    BY <1>5, <2>1
  <2> HIDE DEF n, d
  <2>3. d \in 0 .. Reach /\ d >= main.n
    BY <1>1, <1>2, <1>5, <1>6, <1>8, <2>2, ClockBounds
  <2> QED BY <1>1, <1>5, <2>2, <2>3 DEF n, d, deadline
<1>9. CASE ~(op.mask # {} /\ main.n - LeftNow["delay"] < 0)
  <2>1. n = deadline
    BY <1>7, <1>9 DEF CK!Later
  <2>2. n \in Times /\ d = main.n
    BY <1>4, <2>1
  <2> HIDE DEF n, d
  <2>3. d \in 0 .. Reach /\ d >= main.n
    BY <1>1, <1>2, <2>2, ClockBounds
  <2>4. op.mask # {} => d >= LeftNow["delay"]
    BY <1>1, <1>5, <1>9, <2>2
  <2> QED BY <1>1, <2>2, <2>3, <2>4 DEF n, d, deadline
<1> QED BY <1>8, <1>9

LEMMA DelayMergesKeeps ==
  ASSUME ClockInv, CK!DelayMerges
  PROVE  ClockInv'
<1> DEFINE n == CK!Later((CK!TimeNow(main.s) + main.n) % CK!Top)
           d == CK!Diff(now, n)
           owed == [o \in Ops |-> IF o \in main.ops THEN CK!Most(op.owed[o], main.n) ELSE op.owed[o]]
<1>1. /\ main.stage = "read" /\ now' = now /\ stamp' = stamp /\ index' = index
      /\ tm' = [tm EXCEPT !.queue = CK!Cancelled(@, "delay")]
      /\ main' = [main EXCEPT !.stage = "set", !.n = n]
      /\ op' = [mask |-> op.mask \cup main.ops, owed |-> owed]
  BY DEF CK!DelayMerges
<1>2. n \in Times /\ d \in 0 .. Reach /\ d >= main.n /\ (op.mask # {} => d >= LeftNow["delay"])
  BY <1>1, LaterIs
<1> HIDE DEF n
<1>3. /\ tm \in TimerTypes /\ main.n \in Nat /\ main.ops \in SUBSET Ops /\ op.mask \in SUBSET Ops
      /\ op.owed \in [Ops -> Nat] /\ main.age \in 0 .. MaxLate
      /\ main \in [stage : {"idle", "read", "set"}, s : Times, ops : SUBSET Ops, n : Nat, age : 0 .. MaxLate]
  BY DEF ClockInv, ClockTypes
<1>4. /\ InOrder(CK!Cancelled(tm.queue, "delay"), LeftNow) /\ ~Queued(CK!Cancelled(tm.queue, "delay"), "delay")
      /\ \A u \in Names : u # "delay" => (Queued(CK!Cancelled(tm.queue, "delay"), u) <=> Queued(tm.queue, u))
  BY ClockBounds, CancelledIs DEF ClockInv, QueueIsKept
<1>5. /\ tm' \in TimerTypes /\ tm'.queue = CK!Cancelled(tm.queue, "delay") /\ tm'.deadline = tm.deadline
      /\ tm'.cnt = tm.cnt /\ tm'.late = tm.late /\ tm'.pending = tm.pending /\ tm'.serving = tm.serving
  <2>1. CK!Cancelled(tm.queue, "delay") \in Seq(Names)
    BY <1>4 DEF InOrder
  <2> QED BY <1>1, <1>3, <2>1 DEF TimerTypes
<1>6. LeftNow' = LeftNow /\ ~DelayIsQueued' /\ CK!Waiting' = CK!Waiting
  BY <1>1, <1>4, <1>5 DEF LeftNow, Left, DelayIsQueued, CK!Waiting
<1>7. QueueIsKept'
  <2>1. \A u \in Periodic : Queued(tm'.queue, u)
    BY <1>4, <1>5 DEF ClockInv, QueueIsKept, Periodic, Names
  <2> QED BY <1>4, <1>5, <1>6, <2>1 DEF ClockInv, QueueIsKept
<1>8. FiresInTime'
  BY <1>5, <1>6 DEF ClockInv, FiresInTime
<1>9. StampIsYoung' /\ PulseIsKnown'
  BY <1>1, <1>6 DEF ClockInv, StampIsYoung, PulseIsKnown, Age
<1>10. owed \in [Ops -> Nat] /\ \A o \in Ops : owed[o] = op.owed[o] \/ (o \in main.ops /\ owed[o] = main.n)
  <2>1. \A o \in Ops : op.owed[o] \in Nat /\ CK!Most(op.owed[o], main.n) \in {op.owed[o], main.n}
    BY <1>3, MostIs
  <2> QED BY <1>3, <2>1
<1> HIDE DEF owed
<1>11. /\ main'.stage = "set" /\ main'.n = n /\ main'.age = main.age
       /\ main' \in [stage : {"idle", "read", "set"}, s : Times, ops : SUBSET Ops, n : Nat, age : 0 .. MaxLate]
  <2>1. n \in Nat
    BY <1>2, Ranges DEF Times
  <2> QED BY <1>1, <1>3, <2>1
<1>12. op' \in [mask : SUBSET Ops, owed : [Ops -> Nat]] /\ op'.mask = op.mask \cup main.ops /\ op'.owed = owed
  BY <1>1, <1>3, <1>10
<1>13. ClockTypes'
  BY <1>1, <1>5, <1>11, <1>12 DEF ClockInv, ClockTypes
<1>14. CK!DelaysAreKept'
  <2> SUFFICES ASSUME NEW o \in Ops, o \notin op'.mask PROVE op'.owed[o] = 0
    BY DEF CK!DelaysAreKept
  <2>1. o \notin op.mask /\ o \notin main.ops
    BY <1>12
  <2> QED BY <1>10, <1>12, <2>1 DEF ClockInv, CK!DelaysAreKept
<1>15. MergedIsKept'
  <2>1. CK!Diff(now', main'.n) = d /\ Reach' = Reach
    BY <1>1, <1>11 DEF Reach
  <2> HIDE DEF d
  <2>2. d \in -main'.age .. Reach'
    BY <1>2, <1>3, <1>11, <2>1, ClockBounds
  <2>3. CK!Most(0, d) = d
    BY <1>2 DEF CK!Most
  <2>4. ASSUME NEW o \in op'.mask PROVE op'.owed[o] <= d
    <3>1. o \in Ops
      BY <1>3, <1>12
    <3>2. op.owed[o] <= d
      <4>1. CASE o \in op.mask
        <5>1. op.owed[o] <= CK!Most(0, LeftNow["delay"]) /\ d >= LeftNow["delay"] /\ LeftNow["delay"] \in Int
          BY <1>1, <1>2, <4>1, ClockBounds DEF ClockInv, DelayIsKept
        <5>2. op.owed[o] \in Nat
          BY <1>3, <3>1
        <5> QED BY <1>2, <5>1, <5>2, MostIs
      <4>2. CASE o \notin op.mask
        <5>1. op.owed[o] = 0
          BY <3>1, <4>2 DEF ClockInv, CK!DelaysAreKept
        <5> QED BY <1>2, <5>1
      <4> QED BY <4>1, <4>2
    <3> QED BY <1>2, <1>10, <1>12, <3>1, <3>2
  <2> QED BY <1>2, <1>6, <1>11, <2>1, <2>2, <2>3, <2>4 DEF MergedIsKept
<1>16. ReadIsYoung' /\ DelayIsKept'
  BY <1>11 DEF ReadIsYoung, DelayIsKept
<1> QED BY <1>7, <1>8, <1>9, <1>13, <1>14, <1>15, <1>16 DEF ClockInv

LEMMA HeadIsLeast ==
  ASSUME NEW left \in [Names -> Int], NEW q, InOrder(q, left), q # <<>>
  PROVE  q[1] \in Names /\ \A u \in Names : Queued(q, u) => left[q[1]] <= left[u]
<1>1. q \in Seq(Names) /\ Len(q) \in Nat /\ 1 \in 1 .. Len(q) /\ q[1] \in Names
  BY EmptySeq, LenProperties, ElementOfSeq DEF InOrder
<1>2. ASSUME NEW i \in 1 .. Len(q) PROVE left[q[1]] <= left[q[i]]
  <2>1. CASE i = 1
    BY <1>1, <2>1
  <2>2. CASE 1 < i
    BY <1>1, <2>2 DEF InOrder
  <2> QED BY <1>1, <2>1, <2>2
<1> QED BY <1>1, <1>2 DEF Queued

LEMMA DelaySetKeeps ==
  ASSUME ClockInv, CK!DelaySet
  PROVE  ClockInv'
<1> DEFINE d == CK!Diff(now, main.n)
           r == CK!TimerSet(tm, "delay", main.n)
<1>1. /\ main.stage = "set" /\ now' = now /\ stamp' = stamp /\ index' = index /\ op' = op /\ tm' = r
      /\ main' = [stage |-> "idle", s |-> 0, ops |-> {}, n |-> 0, age |-> 0]
  BY DEF CK!DelaySet
<1>2. CK!TimeNow(stamp) = now /\ now \in Times /\ tm \in TimerTypes /\ main.age \in 0 .. MaxLate
  BY NowIsTold DEF CK!ClockIsRight, ClockInv, ClockTypes
<1>3. /\ ~DelayIsQueued /\ main.n \in Times /\ d \in -main.age .. Reach
      /\ \A o \in op.mask : op.owed[o] <= CK!Most(0, d)
  BY <1>1 DEF ClockInv, MergedIsKept
<1>4. InOrder(tm.queue, LeftNow) /\ LeftNow \in [Names -> Int] /\ "delay" \in Names /\ Left(now, tm) = LeftNow
  BY ClockBounds DEF ClockInv, QueueIsKept, LeftNow
<1>5. CK!Cancelled(tm.queue, "delay") = tm.queue
  BY <1>3, <1>4, CancelledIs DEF DelayIsQueued
<1>6. /\ r \in TimerTypes /\ InOrder(r.queue, Left(now, r)) /\ r.queue # <<>>
      /\ r.deadline = [tm.deadline EXCEPT !["delay"] = main.n]
      /\ r.pending = tm.pending /\ r.serving = tm.serving /\ r.late = tm.late
      /\ \A u \in Names : Queued(r.queue, u) <=> u = "delay" \/ Queued(tm.queue, u)
      /\ \/ r.queue[1] = "delay" /\ r.cnt = CK!Programmed(d)
         \/ r.queue[1] = tm.queue[1] /\ r.cnt = tm.cnt
  <2>1. InOrder(tm.queue, Left(now, tm))
    BY <1>4
  <2> QED BY <1>2, <1>3, <1>4, <1>5, <2>1, TimerSetIs
<1> HIDE DEF r
<1>7. d \in Int /\ d <= Reach /\ d >= -MaxLate /\ Reach \in Int /\ MaxLate \in Nat
  BY <1>2, <1>3, ClockBounds
<1>8. /\ LeftNow'["delay"] = d /\ LeftNow' = Left(now, r) /\ LeftNow' \in [Names -> Int]
      /\ \A u \in Periodic : LeftNow'[u] = LeftNow[u]
  <2>1. Left(now, r) \in [Names -> Within] /\ \A u \in Names : Left(now, r)[u] = CK!Diff(now, r.deadline[u])
    BY <1>2, <1>6, LeftIs
  <2>2. LeftNow' = Left(now, r)
    BY <1>1 DEF LeftNow
  <2>3. r.deadline["delay"] = main.n /\ \A u \in Periodic : u \in Names /\ r.deadline[u] = tm.deadline[u]
    BY <1>2, <1>6 DEF TimerTypes, Names, Periodic
  <2>4. Left(now, r) \in [Names -> Int]
    BY <2>1, Ranges DEF Within
  <2> QED BY <1>4, <2>1, <2>2, <2>3, <2>4, ClockBounds
<1> HIDE DEF d
<1>9. DelayIsQueued' /\ \A u \in Periodic : Queued(r.queue, u) /\ u \in Names
  BY <1>1, <1>4, <1>6 DEF DelayIsQueued, ClockInv, QueueIsKept, Periodic, Names
<1>10. main' \in [stage : {"idle", "read", "set"}, s : Times, ops : SUBSET Ops, n : Nat, age : 0 .. MaxLate]
         /\ main'.stage = "idle"
  <2>1. 0 \in Times /\ 0 \in 0 .. MaxLate
    BY Ranges, <1>7 DEF Times
  <2> QED BY <1>1, <2>1
<1>11. ClockTypes'
  BY <1>1, <1>6, <1>10 DEF ClockInv, ClockTypes
<1>12. QueueIsKept'
  <2>1. LeftNow'["index"] <= IndexPeriod
    BY <1>8 DEF ClockInv, QueueIsKept, Periodic
  <2> QED BY <1>1, <1>6, <1>7, <1>8, <1>9, <2>1 DEF QueueIsKept, Reach
<1>13. FiresInTime'
  <2>1. CK!Waiting' <=> CK!Waiting
    BY <1>1, <1>6 DEF CK!Waiting
  <2>2. tm'.late = tm.late /\ tm.late \in 0 .. MaxLate /\ tm' = r
    BY <1>1, <1>6, ClockBounds
  <2>3. CASE CK!Waiting
    <3>1. \A u \in Periodic : LeftNow'[u] >= -tm'.late
      BY <1>8, <2>2, <2>3 DEF ClockInv, FiresInTime
    <3>2. LeftNow'["delay"] >= -(MaxLate + 1 + tm'.late)
      BY <1>7, <1>8, <2>2
    <3> QED BY <2>1, <2>3, <3>1, <3>2 DEF FiresInTime
  <2>4. CASE ~CK!Waiting
    <3>1. tm.cnt >= 1 /\ tm.cnt \in Nat /\ \A u \in Periodic : tm.cnt <= LeftNow[u] /\ LeftNow[u] \in Int
      BY <1>2, <1>4, <1>9, <2>4 DEF ClockInv, FiresInTime, TimerTypes
    <3>2. r.queue[1] \in Names /\ \A u \in Names : Queued(r.queue, u) => LeftNow'[r.queue[1]] <= LeftNow'[u]
      BY <1>6, <1>8, HeadIsLeast
    <3>3. CASE r.queue[1] = "delay" /\ r.cnt = CK!Programmed(d)
      <4>1. r.cnt \in Nat \ {0} /\ (d >= 1 => r.cnt <= d) /\ (d < 1 => r.cnt = 1)
        BY <1>7, <3>3, ProgrammedIs
      <4>2. \A u \in Periodic : d <= LeftNow[u]
        BY <1>8, <1>9, <3>2, <3>3
      <4>3. \A u \in Periodic : r.cnt <= LeftNow[u]
        BY <1>7, <3>1, <4>1, <4>2
      <4>4. r.cnt <= d \/ (r.cnt = 1 /\ d >= -MaxLate)
        BY <1>7, <4>1
      <4> QED BY <1>8, <2>1, <2>2, <2>4, <4>1, <4>3, <4>4 DEF FiresInTime
    <3>4. CASE r.queue[1] = tm.queue[1] /\ r.cnt = tm.cnt
      <4>1. tm.queue[1] # "delay"
        <5>1. CK!Due = tm.queue[1] /\ Queued(tm.queue, CK!Due)
          BY QueueIsNotEmpty, FirstIsLeast
        <5> QED BY <1>3, <5>1 DEF DelayIsQueued
      <4>2. r.queue[1] \in Periodic
        BY <3>2, <3>4, <4>1 DEF Names, Periodic
      <4>3. LeftNow[r.queue[1]] <= d
        BY <1>8, <1>4, <1>6, <3>2, <4>2
      <4>4. r.cnt <= d
        BY <1>7, <3>1, <3>4, <4>2, <4>3
      <4> QED BY <1>8, <2>1, <2>2, <2>4, <3>1, <3>4, <4>4 DEF FiresInTime
    <3> QED BY <1>6, <3>3, <3>4
  <2> QED BY <2>3, <2>4
<1>14. StampIsYoung' /\ PulseIsKnown'
  BY <1>1, <1>8 DEF ClockInv, StampIsYoung, PulseIsKnown, Age, Periodic
<1>15. ReadIsYoung' /\ MergedIsKept'
  BY <1>10 DEF ReadIsYoung, MergedIsKept
<1>16. DelayIsKept' /\ CK!DelaysAreKept'
  BY <1>1, <1>3, <1>8, <1>9 DEF ClockInv, DelayIsKept, CK!DelaysAreKept, d
<1> QED BY <1>11, <1>12, <1>13, <1>14, <1>15, <1>16 DEF ClockInv

-----------------------------------------------------------------------------
(* Time passes. *)

\* While the interrupt spins nothing that is queued is due before the delay.
LEMMA SpinningIs ==
  ASSUME ClockInv, CK!Spinning
  PROVE  /\ CK!Waiting /\ DelayIsQueued /\ LeftNow["delay"] \in 1 .. Slack
         /\ \A u \in Names : Queued(tm.queue, u) => LeftNow[u] >= 1
<1>1. /\ tm.serving /\ tm.queue # <<>> /\ CK!Due = "delay"
      /\ CK!Diff(CK!TimeNow(stamp), tm.deadline["delay"]) \in 1 .. Slack
  BY DEF CK!Spinning
<1>2. CK!TimeNow(stamp) = now
  BY NowIsTold DEF CK!ClockIsRight
<1>3. LeftNow["delay"] \in 1 .. Slack
  BY <1>1, <1>2, ClockBounds
<1>4. \A u \in Names : Queued(tm.queue, u) => LeftNow["delay"] <= LeftNow[u]
  BY <1>1, FirstIsLeast
<1>5. \A u \in Names : LeftNow[u] \in Int
  BY ClockBounds
<1>6. DelayIsQueued
  BY <1>1, FirstIsLeast DEF DelayIsQueued
<1>7. \A u \in Names : Queued(tm.queue, u) => LeftNow[u] >= 1
  BY <1>3, <1>4, <1>5, ClockBounds
<1> QED BY <1>1, <1>3, <1>6, <1>7 DEF CK!Waiting

LEMMA TickTimers ==
  ASSUME ClockInv, CK!Tick
  PROVE  /\ now' \in Times /\ tm' \in TimerTypes
         /\ tm'.queue = tm.queue /\ tm'.deadline = tm.deadline /\ tm'.serving = tm.serving
         /\ tm'.pending = (tm.pending \/ tm.cnt = 1) /\ tm'.cnt = CK!Most(tm.cnt - 1, 0)
         /\ tm'.late = (IF CK!Waiting /\ ~CK!Spinning THEN tm.late + 1 ELSE tm.late)
         /\ DelayIsQueued' = DelayIsQueued
         /\ \A u \in Names : Queued(tm.queue, u) => LeftNow'[u] = LeftNow[u] - 1
<1>1. /\ CK!Waiting /\ ~CK!Spinning => tm.late < MaxLate
      /\ now' = (now + 1) % CK!Top
      /\ tm' = [tm EXCEPT !.cnt = CK!Most(tm.cnt - 1, 0), !.pending = tm.pending \/ tm.cnt = 1,
                          !.late = IF CK!Waiting /\ ~CK!Spinning THEN tm.late + 1 ELSE tm.late]
  BY DEF CK!Tick
<1>2. tm \in TimerTypes /\ now \in Times
  BY DEF ClockInv, ClockTypes
<1>3. now \in Int /\ now + 1 \in Int
  BY <1>2 DEF Times
<1>4. now' \in Times
  BY <1>1, <1>3, WrapOf
<1>5. CK!Most(tm.cnt - 1, 0) \in Nat
  BY <1>2 DEF CK!Most, TimerTypes
<1>6. (IF CK!Waiting /\ ~CK!Spinning THEN tm.late + 1 ELSE tm.late) \in 0 .. MaxLate
  <2>1. tm.late \in 0 .. MaxLate /\ MaxLate \in Nat
    BY ClockBounds
  <2> QED BY <1>1, <2>1
<1>7. (tm.pending \/ tm.cnt = 1) \in BOOLEAN
  <2>1. CASE tm.pending \/ tm.cnt = 1
    <3>1. (tm.pending \/ tm.cnt = 1) = TRUE
      BY <2>1
    <3> QED BY <3>1
  <2>2. CASE ~(tm.pending \/ tm.cnt = 1)
    <3>1. (tm.pending \/ tm.cnt = 1) = FALSE
      BY <2>2
    <3> QED BY <3>1
  <2> QED BY <2>1, <2>2
<1> DEFINE cnt == CK!Most(tm.cnt - 1, 0)
           pending == tm.pending \/ tm.cnt = 1
           late == IF CK!Waiting /\ ~CK!Spinning THEN tm.late + 1 ELSE tm.late
<1>8. tm' = [tm EXCEPT !.cnt = cnt, !.pending = pending, !.late = late]
  BY <1>1
<1>9. cnt \in Nat /\ pending \in BOOLEAN /\ late \in 0 .. MaxLate
  BY <1>5, <1>6, <1>7
<1> HIDE DEF cnt, pending, late
<1>10. /\ tm' \in TimerTypes /\ tm'.cnt = cnt /\ tm'.pending = pending /\ tm'.late = late
       /\ tm'.queue = tm.queue /\ tm'.deadline = tm.deadline /\ tm'.serving = tm.serving
  BY <1>2, <1>8, <1>9 DEF TimerTypes
<1>11. DelayIsQueued' = DelayIsQueued
  BY <1>10 DEF DelayIsQueued
<1>12. ASSUME NEW u \in Names, Queued(tm.queue, u) PROVE LeftNow'[u] = LeftNow[u] - 1
  <2>1. LeftNow[u] = CK!Diff(now, tm.deadline[u]) /\ LeftNow[u] \in Int
    BY ClockBounds
  <2>2. LeftNow'[u] = CK!Diff(now', tm'.deadline[u])
    BY DEF LeftNow, Left
  <2>3. LeftNow[u] > -CK!Half
    <3>1. u \in Periodic \/ (u = "delay" /\ DelayIsQueued)
      BY <1>12 DEF Names, Periodic, DelayIsQueued
    <3>2. LeftNow[u] >= -(2 * MaxLate + 1) /\ MaxLate \in Nat
      BY <2>1, <3>1, ClockBounds
    <3> QED BY <2>1, <3>2, ClockBounds, Ranges
  <2>4. tm.deadline[u] \in Int
    BY <1>2 DEF TimerTypes, Times
  <2> QED BY <1>1, <1>3, <1>10, <2>1, <2>2, <2>3, <2>4, DiffTick
<1> QED BY <1>4, <1>10, <1>11, <1>12 DEF cnt, pending, late

LEMMA TickQueue ==
  ASSUME ClockInv, CK!Tick
  PROVE  QueueIsKept' /\ FiresInTime' /\ \A u \in Periodic : LeftNow[u] >= 1 - MaxLate
<1>1. /\ tm'.queue = tm.queue /\ tm'.serving = tm.serving /\ DelayIsQueued' = DelayIsQueued
      /\ tm'.pending = (tm.pending \/ tm.cnt = 1) /\ tm'.cnt = CK!Most(tm.cnt - 1, 0)
      /\ tm'.late = (IF CK!Waiting /\ ~CK!Spinning THEN tm.late + 1 ELSE tm.late)
      /\ \A u \in Names : Queued(tm.queue, u) => LeftNow'[u] = LeftNow[u] - 1
      /\ tm' \in TimerTypes
  BY TickTimers
<1>2. \A u \in Names : LeftNow[u] \in Int
  BY ClockBounds
<1>3. /\ tm.late \in 0 .. MaxLate /\ MaxLate \in Nat /\ tm'.late \in 0 .. MaxLate
      /\ tm.cnt \in Nat /\ tm'.cnt \in Nat
  BY <1>1, ClockBounds DEF TimerTypes, ClockInv, ClockTypes
<1>4. \A u \in Periodic : u \in Names /\ Queued(tm.queue, u) /\ LeftNow'[u] = LeftNow[u] - 1
  BY <1>1 DEF Periodic, Names, ClockInv, QueueIsKept
<1>5. DelayIsQueued => LeftNow'["delay"] = LeftNow["delay"] - 1 /\ Queued(tm.queue, "delay")
  BY <1>1 DEF DelayIsQueued, Names
<1>6. QueueIsKept'
  <2>1. InOrder(tm'.queue, LeftNow')
    <3>1. InOrder(tm.queue, LeftNow)
      BY DEF ClockInv, QueueIsKept
    <3> SUFFICES ASSUME NEW i \in 1 .. Len(tm.queue), NEW j \in 1 .. Len(tm.queue), i < j
                 PROVE  tm.queue[i] # tm.queue[j] /\ LeftNow'[tm.queue[i]] <= LeftNow'[tm.queue[j]]
      BY <1>1, <3>1 DEF InOrder
    <3>2. tm.queue[i] # tm.queue[j] /\ LeftNow[tm.queue[i]] <= LeftNow[tm.queue[j]]
      BY <3>1 DEF InOrder
    <3>3. /\ tm.queue[i] \in Names /\ Queued(tm.queue, tm.queue[i])
          /\ tm.queue[j] \in Names /\ Queued(tm.queue, tm.queue[j])
      BY <3>1, ElementOfSeq DEF InOrder, Queued
    <3>4. /\ LeftNow'[tm.queue[i]] = LeftNow[tm.queue[i]] - 1
          /\ LeftNow'[tm.queue[j]] = LeftNow[tm.queue[j]] - 1
          /\ LeftNow[tm.queue[i]] \in Int /\ LeftNow[tm.queue[j]] \in Int
      BY <1>1, <1>2, <3>3
    <3> QED BY <3>2, <3>4
  <2>2. \A u \in Periodic : Queued(tm'.queue, u)
    BY <1>1, <1>4
  <2>3. LeftNow'["index"] <= IndexPeriod
    <3>1. "index" \in Periodic /\ LeftNow["index"] <= IndexPeriod /\ IndexPeriod \in Nat
      BY ClockAssumption DEF Periodic, ClockInv, QueueIsKept
    <3>2. LeftNow'["index"] = LeftNow["index"] - 1 /\ LeftNow["index"] \in Int
      BY <1>2, <1>4, <3>1
    <3> QED BY <3>1, <3>2
  <2>4. DelayIsQueued' => LeftNow'["delay"] <= Reach
    BY <1>1, <1>2, <1>5, ClockBounds
  <2> QED BY <2>1, <2>2, <2>3, <2>4 DEF QueueIsKept, Reach
<1>7. CK!Waiting' <=> CK!Waiting \/ tm.cnt = 1
  BY <1>1 DEF CK!Waiting
<1>8. CASE CK!Waiting
  <2>1. \A u \in Periodic : LeftNow[u] >= -tm.late
    BY <1>8 DEF ClockInv, FiresInTime
  <2>2. DelayIsQueued => LeftNow["delay"] >= -(MaxLate + 1 + tm.late)
    BY <1>8 DEF ClockInv, FiresInTime
  <2>3. CASE CK!Spinning
    <3>1. tm'.late = tm.late
      BY <1>1, <2>3
    <3>2. (\A u \in Periodic : LeftNow[u] >= 1) /\ (DelayIsQueued => LeftNow["delay"] >= 1)
      BY <1>4, <1>5, <2>3, SpinningIs, ClockBounds
    <3>3. \A u \in Periodic : LeftNow'[u] >= -tm'.late
      BY <1>2, <1>3, <1>4, <3>1, <3>2
    <3>4. DelayIsQueued => LeftNow'["delay"] >= -(MaxLate + 1 + tm'.late)
      BY <1>2, <1>3, <1>5, <3>1, <3>2, ClockBounds
    <3> QED BY <1>1, <1>2, <1>3, <1>4, <1>6, <1>7, <1>8, <3>2, <3>3, <3>4 DEF FiresInTime
  <2>4. CASE ~CK!Spinning
    <3>1. tm'.late = tm.late + 1
      BY <1>1, <1>8, <2>4
    <3>3. \A u \in Periodic : LeftNow'[u] >= -tm'.late
      BY <1>2, <1>3, <1>4, <2>1, <3>1
    <3>4. DelayIsQueued => LeftNow'["delay"] >= -(MaxLate + 1 + tm'.late)
      BY <1>2, <1>3, <1>5, <2>2, <3>1, ClockBounds
    <3>5. \A u \in Periodic : LeftNow[u] >= 1 - MaxLate
      BY <1>2, <1>3, <1>4, <3>3
    <3> QED BY <1>1, <1>6, <1>7, <1>8, <3>3, <3>4, <3>5 DEF FiresInTime
  <2> QED BY <2>3, <2>4
<1>9. CASE ~CK!Waiting
  <2>1. tm.cnt >= 1 /\ \A u \in Periodic : tm.cnt <= LeftNow[u]
    BY <1>9 DEF ClockInv, FiresInTime
  <2>2. DelayIsQueued => tm.cnt <= LeftNow["delay"] \/ (tm.cnt = 1 /\ LeftNow["delay"] >= -MaxLate)
    BY <1>9 DEF ClockInv, FiresInTime
  <2>3. tm'.late = tm.late
    BY <1>1, <1>9
  <2>4. \A u \in Periodic : LeftNow[u] >= 1 - MaxLate
    BY <1>2, <1>3, <1>4, <2>1
  <2>5. "delay" \in Names
    BY ClockBounds
  <2>6. CASE tm.cnt = 1
    <3>1. \A u \in Periodic : LeftNow'[u] >= -tm'.late
      BY <1>2, <1>3, <1>4, <2>1, <2>3, <2>6
    <3>2. DelayIsQueued => LeftNow'["delay"] >= -(MaxLate + 1 + tm'.late)
      BY <1>2, <1>3, <1>5, <2>2, <2>3, <2>5, <2>6
    <3> QED BY <1>1, <1>6, <1>7, <2>4, <2>6, <3>1, <3>2 DEF FiresInTime
  <2>7. CASE tm.cnt # 1
    <3>1. tm'.cnt = tm.cnt - 1
      BY <1>1, <1>3, <2>1, <2>7 DEF CK!Most
    <3>2. tm'.cnt >= 1 /\ \A u \in Periodic : tm'.cnt <= LeftNow'[u]
      BY <1>2, <1>3, <1>4, <2>1, <2>7, <3>1
    <3>3. DelayIsQueued => tm'.cnt <= LeftNow'["delay"]
      BY <1>2, <1>3, <1>5, <2>2, <2>5, <2>7, <3>1
    <3> QED BY <1>1, <1>6, <1>7, <1>9, <2>4, <2>7, <3>2, <3>3 DEF FiresInTime
  <2> QED BY <2>6, <2>7
<1> QED BY <1>8, <1>9

LEMMA TickStamp ==
  ASSUME ClockInv, CK!Tick
  PROVE  StampIsYoung'
<1>1. now' = (now + 1) % CK!Top /\ stamp' = stamp
  BY DEF CK!Tick
<1>2. Age(stamp) >= 0 /\ Age(stamp) + LeftNow["stamp"] = CK!StampPeriod /\ Age(stamp) \in Int
  BY ClockBounds DEF ClockInv, StampIsYoung
<1>3. "stamp" \in Periodic /\ "stamp" \in Names /\ Queued(tm.queue, "stamp")
  BY DEF Periodic, Names, ClockInv, QueueIsKept
<1>4. LeftNow["stamp"] \in Int /\ LeftNow["stamp"] >= 1 - MaxLate /\ LeftNow'["stamp"] = LeftNow["stamp"] - 1
  BY <1>3, TickQueue, TickTimers, ClockBounds
<1>5. Age(stamp) < CK!Half - 1
  BY <1>2, <1>4, Ranges, ClockBounds
<1>6. Age(stamp)' = Age(stamp) + 1
  <2>1. CK!Not(stamp) \in Int /\ now \in Int
    BY Ranges DEF ClockInv, ClockTypes, Times, CK!Not
  <2> QED BY <1>1, <1>5, <2>1, DiffTick DEF Age
<1> QED BY <1>2, <1>4, <1>6, Ranges DEF StampIsYoung

\* The main loop's age goes on, or the interrupt spins.
LEMMA TickMain ==
  ASSUME ClockInv, CK!Tick
  PROVE  /\ main' \in [stage : {"idle", "read", "set"}, s : Times, ops : SUBSET Ops, n : Nat,
                       age : 0 .. MaxLate]
         /\ main'.stage = main.stage /\ main'.s = main.s /\ main'.n = main.n
         /\ main'.age = (IF main.stage # "idle" /\ ~CK!Spinning THEN main.age + 1 ELSE main.age)
<1>1. /\ main.stage # "idle" /\ ~CK!Spinning => main.age < MaxLate
      /\ main' = IF main.stage # "idle" /\ ~CK!Spinning THEN [main EXCEPT !.age = main.age + 1] ELSE main
  BY DEF CK!Tick
<1>2. main \in [stage : {"idle", "read", "set"}, s : Times, ops : SUBSET Ops, n : Nat, age : 0 .. MaxLate]
  BY DEF ClockInv, ClockTypes
<1>3. MaxLate \in Nat
  BY ClockBounds
<1>4. CASE main.stage # "idle" /\ ~CK!Spinning
  <2>1. main' = [main EXCEPT !.age = main.age + 1] /\ main.age + 1 \in 0 .. MaxLate
    BY <1>1, <1>2, <1>3, <1>4
  <2> QED BY <1>2, <1>4, <2>1
<1>5. CASE ~(main.stage # "idle" /\ ~CK!Spinning)
  BY <1>1, <1>2, <1>5
<1> QED BY <1>4, <1>5

LEMMA TickRead ==
  ASSUME ClockInv, CK!Tick
  PROVE  ReadIsYoung'
<1> SUFFICES ASSUME main'.stage = "read"
             PROVE  /\ Age(main.s)' >= 0
                    /\ Age(main.s)' <= CK!StampPeriod + MaxLate + main'.age + Spun'
                    /\ main'.n <= Reach
  BY DEF ReadIsYoung, Reach
<1>1. /\ main.stage = "read" /\ main'.s = main.s /\ main'.n = main.n /\ main'.age \in 0 .. MaxLate
      /\ main'.age = (IF CK!Spinning THEN main.age ELSE main.age + 1) /\ main.age \in 0 .. MaxLate
      /\ main.s \in Times
  BY TickMain DEF ClockInv, ClockTypes
<1>2. Age(main.s) >= 0 /\ Age(main.s) <= CK!StampPeriod + MaxLate + main.age + Spun /\ main.n <= Reach
  BY <1>1 DEF ClockInv, ReadIsYoung
<1>3. /\ DelayIsQueued' = DelayIsQueued
      /\ DelayIsQueued => LeftNow'["delay"] = LeftNow["delay"] - 1 /\ LeftNow["delay"] \in Int
  BY TickTimers, ClockBounds DEF DelayIsQueued
<1>4. Slack \in Nat /\ MaxLate \in Nat
  BY ClockBounds
<1>5. Spun \in 0 .. Slack /\ Spun' \in 0 .. Slack
  <2>1. Spun \in 0 .. Slack
    BY <1>4, ClockBounds DEF Spun
  <2>2. Spun' \in 0 .. Slack
    BY <1>3, <1>4 DEF Spun
  <2> QED BY <2>1, <2>2
<1>6. main'.age + Spun' >= main.age + Spun + 1
  <2>1. CASE CK!Spinning
    <3>1. DelayIsQueued /\ LeftNow["delay"] \in 1 .. Slack
      BY <2>1, SpinningIs
    <3>2. Spun = Slack - LeftNow["delay"]
      BY <1>4, <3>1 DEF Spun
    <3>3. Spun' = Spun + 1
      <4>1. CASE LeftNow["delay"] = 1
        BY <1>3, <1>4, <3>1, <3>2, <4>1 DEF Spun
      <4>2. CASE LeftNow["delay"] # 1
        <5>1. LeftNow'["delay"] > 0 /\ LeftNow'["delay"] < Slack /\ LeftNow'["delay"] = LeftNow["delay"] - 1
          BY <1>3, <1>4, <3>1, <4>2
        <5>2. Spun' = Slack - LeftNow'["delay"]
          BY <1>3, <1>4, <3>1, <5>1 DEF Spun
        <5> QED BY <1>4, <3>1, <3>2, <5>1, <5>2
      <4> QED BY <4>1, <4>2
    <3> QED BY <1>1, <1>5, <2>1, <3>3
  <2>2. CASE ~CK!Spinning
    <3>1. Spun' >= Spun
      <4>1. CASE ~DelayIsQueued
        <5>1. Spun = Slack /\ Spun' = Slack
          BY <1>3, <4>1 DEF Spun
        <5> QED BY <1>4, <5>1
      <4>2. CASE DelayIsQueued /\ LeftNow["delay"] <= 0
        <5>1. Spun' = Slack
          BY <1>3, <4>2 DEF Spun
        <5> QED BY <1>4, <1>5, <5>1
      <4>3. CASE DelayIsQueued /\ LeftNow["delay"] > 0
        <5>1. Spun = IF LeftNow["delay"] >= Slack THEN 0 ELSE Slack - LeftNow["delay"]
          BY <1>3, <4>3 DEF Spun
        <5>2. CASE LeftNow["delay"] >= Slack
          BY <1>5, <5>1, <5>2
        <5>3. CASE LeftNow["delay"] < Slack
          <6>1. Spun' = IF LeftNow'["delay"] <= 0 THEN Slack ELSE Slack - LeftNow'["delay"]
            BY <1>3, <1>4, <4>3, <5>3 DEF Spun
          <6> QED BY <1>3, <1>4, <4>3, <5>1, <5>3, <6>1
        <5> QED BY <1>3, <1>4, <4>3, <5>2, <5>3
      <4> QED BY <1>3, <4>1, <4>2, <4>3
    <3> QED BY <1>1, <1>5, <2>2, <3>1
  <2> QED BY <2>1, <2>2
<1>7. CK!Not(main.s) \in Int /\ now \in Int /\ now' = (now + 1) % CK!Top
  BY <1>1, Ranges DEF ClockInv, ClockTypes, Times, CK!Not, CK!Tick
<1>8. Age(main.s) \in Int
  BY <1>7, DiffOf, Ranges DEF Within, Age
<1>9. Age(main.s) < CK!Half - 1
  BY <1>1, <1>2, <1>4, <1>5, <1>6, <1>8, Ranges
<1>10. Age(main.s)' = Age(main.s) + 1
  BY <1>1, <1>7, <1>9, DiffTick DEF Age
<1> QED BY <1>1, <1>2, <1>4, <1>5, <1>6, <1>8, <1>10, Ranges

LEMMA TickOwed ==
  ASSUME ClockInv, CK!Tick
  PROVE  /\ op' \in [mask : SUBSET Ops, owed : [Ops -> Nat]]
         /\ op'.mask = op.mask /\ \A o \in Ops : op'.owed[o] = CK!Most(op.owed[o] - 1, 0)
<1>1. op' = [op EXCEPT !.owed = [o \in Ops |-> CK!Most(op.owed[o] - 1, 0)]]
  BY DEF CK!Tick
<1>2. op \in [mask : SUBSET Ops, owed : [Ops -> Nat]]
  BY DEF ClockInv, ClockTypes
<1>3. \A o \in Ops : CK!Most(op.owed[o] - 1, 0) \in Nat
  BY <1>2 DEF CK!Most
<1> QED BY <1>1, <1>2, <1>3

LEMMA TickDelays ==
  ASSUME ClockInv, CK!Tick
  PROVE  MergedIsKept' /\ DelayIsKept' /\ CK!DelaysAreKept'
<1>1. /\ op' \in [mask : SUBSET Ops, owed : [Ops -> Nat]] /\ op'.mask = op.mask
      /\ \A o \in Ops : op'.owed[o] = CK!Most(op.owed[o] - 1, 0)
      /\ op.mask \subseteq Ops /\ op.owed \in [Ops -> Nat]
  BY TickOwed DEF ClockInv, ClockTypes
<1>2. DelayIsQueued' = DelayIsQueued
  BY TickTimers
<1>3. main'.stage = main.stage /\ main'.n = main.n
  BY TickMain
<1>4. CK!DelaysAreKept'
  <2> SUFFICES ASSUME NEW o \in Ops, o \notin op.mask PROVE op'.owed[o] = 0
    BY <1>1 DEF CK!DelaysAreKept
  <2>1. op.owed[o] = 0
    BY DEF ClockInv, CK!DelaysAreKept
  <2> QED BY <1>1, <2>1 DEF CK!Most
\* What is owed and what is left until it may be done go down together.
<1>5. ASSUME NEW o \in op.mask, NEW d \in Int, op.owed[o] <= CK!Most(0, d)
      PROVE  op'.owed[o] <= CK!Most(0, d - 1)
  <2>1. o \in Ops /\ op.owed[o] \in Nat
    BY <1>1
  <2> QED BY <1>1, <1>5, <2>1 DEF CK!Most
<1>6. DelayIsKept'
  <2> SUFFICES ASSUME main.stage # "set", NEW o \in op.mask
               PROVE  DelayIsQueued /\ op'.owed[o] <= CK!Most(0, LeftNow'["delay"])
    BY <1>1, <1>2, <1>3 DEF DelayIsKept
  <2>1. DelayIsQueued /\ op.owed[o] <= CK!Most(0, LeftNow["delay"])
    BY DEF ClockInv, DelayIsKept
  <2>2. LeftNow'["delay"] = LeftNow["delay"] - 1 /\ LeftNow["delay"] \in Int
    BY <2>1, TickTimers, ClockBounds DEF DelayIsQueued
  <2> QED BY <1>5, <2>1, <2>2
<1>7. MergedIsKept'
  <2> DEFINE d == CK!Diff(now, main.n)
  <2> SUFFICES ASSUME main.stage = "set"
               PROVE  /\ ~DelayIsQueued /\ main'.n \in Times
                      /\ CK!Diff(now', main'.n) \in -main'.age .. Reach
                      /\ \A o \in op.mask : op'.owed[o] <= CK!Most(0, CK!Diff(now', main'.n))
    BY <1>1, <1>2, <1>3 DEF MergedIsKept, Reach
  <2>1. /\ ~DelayIsQueued /\ main.n \in Times /\ d \in -main.age .. Reach
        /\ \A o \in op.mask : op.owed[o] <= CK!Most(0, d)
    BY DEF ClockInv, MergedIsKept
  <2>2. ~CK!Spinning
    BY <2>1, SpinningIs
  <2>3. main'.age = main.age + 1 /\ main'.age \in 0 .. MaxLate /\ main.age \in 0 .. MaxLate
    BY <2>2, TickMain DEF ClockInv, ClockTypes
  <2>4. now \in Int /\ main.n \in Int /\ now' = (now + 1) % CK!Top
    BY <2>1 DEF ClockInv, ClockTypes, Times, CK!Tick
  <2>5. d \in Int /\ Reach \in Int /\ MaxLate \in Nat /\ Slack \in Nat
    BY <2>1, <2>3, ClockBounds
  <2>6. d > -CK!Half
    <3> HIDE DEF d
    <3> QED BY <2>1, <2>3, <2>5, Ranges
  <2>7. CK!Diff(now', main'.n) = d - 1
    BY <1>3, <2>4, <2>6, DiffTick
  <2> HIDE DEF d
  <2>8. d - 1 \in -main'.age .. Reach
    BY <2>1, <2>3, <2>5
  <2> QED BY <1>3, <1>5, <2>1, <2>5, <2>7, <2>8
<1> QED BY <1>4, <1>6, <1>7

LEMMA TickIndex ==
  ASSUME ClockInv, CK!Tick
  PROVE  index' \in [trigger : Times, since : 0 .. MaxSince, right : BOOLEAN] /\ PulseIsKnown'
<1> DEFINE i == CK!Diff(index.trigger, now)
<1>1. index' = [index EXCEPT !.since = IF index.since = MaxSince THEN index.since ELSE index.since + 1]
        /\ now' = (now + 1) % CK!Top
  BY DEF CK!Tick
<1>2. /\ index \in [trigger : Times, since : 0 .. MaxSince, right : BOOLEAN] /\ now \in Times
      /\ i >= 0 /\ i + LeftNow["index"] <= 2 * IndexPeriod /\ index.right
      /\ (i = index.since \/ (i >= Mask /\ index.since >= Mask))
  BY DEF ClockInv, ClockTypes, PulseIsKnown
<1>3. index.trigger \in Int /\ now \in Int
  BY <1>2 DEF Times
<1>4. i \in Int
  <2>1. i \in Within
    BY <1>3, DiffOf
  <2> HIDE DEF i
  <2> QED BY <2>1, Ranges DEF Within
<1>5. /\ MaxSince \in Nat /\ Mask \in Nat /\ Mask <= MaxSince /\ IndexPeriod \in Nat /\ MaxLate \in Nat
      /\ 2 * IndexPeriod + MaxLate < CK!Half
  BY ClockAssumption
<1>6. "index" \in Periodic /\ "index" \in Names /\ Queued(tm.queue, "index")
  BY DEF Periodic, Names, ClockInv, QueueIsKept
<1>7. LeftNow["index"] \in Int /\ LeftNow["index"] >= 1 - MaxLate /\ LeftNow'["index"] = LeftNow["index"] - 1
  BY <1>6, TickQueue, TickTimers, ClockBounds
<1>8. i < CK!Half - 1
  <2> HIDE DEF i
  <2> QED BY <1>2, <1>4, <1>5, <1>7, Ranges
<1>9. /\ index' \in [trigger : Times, since : 0 .. MaxSince, right : BOOLEAN]
      /\ index'.trigger = index.trigger /\ index'.right = index.right
      /\ index'.since = IF index.since = MaxSince THEN index.since ELSE index.since + 1
  <2>1. (IF index.since = MaxSince THEN index.since ELSE index.since + 1) \in 0 .. MaxSince
    BY <1>2, <1>5
  <2> QED BY <1>1, <1>2, <2>1
<1>10. CK!Diff(index'.trigger, now') = i + 1
  BY <1>1, <1>3, <1>8, <1>9, DiffTick
<1> HIDE DEF i
<1>11. index.since \in 0 .. MaxSince
  BY <1>2
<1>12. i + 1 = index'.since \/ (i + 1 >= Mask /\ index'.since >= Mask)
  BY <1>2, <1>4, <1>5, <1>9, <1>11
<1> QED BY <1>2, <1>4, <1>5, <1>7, <1>9, <1>10, <1>12 DEF PulseIsKnown

LEMMA TickKeeps ==
  ASSUME ClockInv, CK!Tick
  PROVE  ClockInv'
<1>1. stamp' = stamp
  BY DEF CK!Tick
<1>2. ClockTypes'
  BY <1>1, TickTimers, TickIndex, TickMain, TickOwed DEF ClockInv, ClockTypes
<1> QED BY <1>2, TickQueue, TickStamp, TickRead, TickDelays, TickIndex DEF ClockInv

LEMMA ClockStep ==
  ASSUME ClockInv, CK!Next \/ UNCHANGED clockVars
  PROVE  ClockInv'
<1>1. CASE CK!Timers
  BY <1>1, TimerIrqKeeps, IrqLeavesKeeps, IrqRunsKeeps, TickKeeps DEF CK!Timers
<1>2. CASE CK!OpDelay
  BY <1>2, DelayBeginsKeeps, DelayMergesKeeps, DelaySetKeeps DEF CK!OpDelay
<1>3. CASE CK!IndexPulse
  BY <1>3, IndexPulseKeeps
<1>4. CASE UNCHANGED clockVars
  <2>1. now' = now /\ stamp' = stamp /\ tm' = tm /\ index' = index /\ op' = op /\ main' = main
    BY <1>4 DEF clockVars
  <2>2. LeftNow' = LeftNow /\ DelayIsQueued' = DelayIsQueued /\ QueueIsKept' /\ FiresInTime' /\ StampIsYoung'
    BY <2>1, ClockStays
  <2>3. ReadIsYoung' /\ MergedIsKept' /\ DelayIsKept' /\ CK!DelaysAreKept'
    BY <2>1, <2>2, MainStays
  <2>4. ClockTypes' /\ PulseIsKnown'
    BY <2>1, <2>2 DEF ClockInv, ClockTypes, PulseIsKnown
  <2> QED BY <2>2, <2>3, <2>4 DEF ClockInv
<1> QED BY <1>1, <1>2, <1>3, <1>4 DEF CK!Next

-----------------------------------------------------------------------------
LEMMA ClockInitially ==
  ASSUME CK!Init
  PROVE  ClockInv
<1> DEFINE begin == CK!Top - CK!StkTop
           deadline == [[t \in Names |-> 0] EXCEPT !["stamp"] = (begin + CK!StampPeriod) % CK!Top,
                                                   !["index"] = (begin + IndexPeriod) % CK!Top]
           trigger == (begin - IndexPeriod) % CK!Top
           first == CK!FirstPeriod
           queue == IF first = IndexPeriod THEN <<"index", "stamp">> ELSE <<"stamp", "index">>
           cnt(wide) == IF ~wide /\ first >= Fine
                        THEN Coarse * (first \div Coarse - Early) ELSE first - Slack
<1>1. PICK wide \in BOOLEAN :
        tm = [queue |-> queue, deadline |-> deadline, cnt |-> cnt(wide),
              pending |-> FALSE, serving |-> FALSE, late |-> 0, wide |-> wide]
  BY DEF CK!Init, Names
<1>2. now = begin /\ stamp = CK!StkNow
  BY DEF CK!Init
<1>3. /\ index = [trigger |-> trigger, since |-> MaxSince, right |-> TRUE]
      /\ op = [mask |-> {}, owed |-> [o \in Ops |-> 0]]
      /\ main = [stage |-> "idle", s |-> 0, ops |-> {}, n |-> 0, age |-> 0]
  BY <1>2 DEF CK!Init
<1>4. /\ Slack \in Nat /\ MaxLate \in Nat /\ IndexPeriod \in Nat /\ Slack < IndexPeriod
      /\ Slack < CK!StampPeriod /\ Mask \in 0 .. IndexPeriod /\ MaxSince \in Nat /\ Mask <= MaxSince
      /\ IndexPeriod < CK!Half
  <2>1. 2 * IndexPeriod + MaxLate < CK!Half /\ CK!Half \in Nat
    BY ClockAssumption
  <2> QED BY <2>1, ClockAssumption
<1>5. /\ begin \in Times /\ begin \in Int /\ CK!StampPeriod \in Within /\ CK!StampPeriod \in Nat
      /\ IndexPeriod \in Within /\ IndexPeriod \in 0 .. CK!Half - 1
  BY <1>4, Ranges DEF Times, Within
<1> HIDE DEF begin
<1>6. stamp = CK!StkTop - 1
  <2>1. CK!Not(now) = CK!StkTop - 1
    BY <1>2, Ranges DEF CK!Not, begin
  <2>2. CK!StkTop - 1 \in 0 .. CK!StkTop - 1 /\ CK!StkTop - 1 = 0 * CK!StkTop + (CK!StkTop - 1)
    BY Ranges
  <2>3. (CK!StkTop - 1) % CK!StkTop = CK!StkTop - 1
    BY <2>2, Ranges, ModIs
  <2> QED BY <1>2, <2>1, <2>3 DEF CK!StkNow
<1>7. stamp \in Times /\ CK!Not(stamp) = begin
  BY <1>6, Ranges DEF Times, CK!Not, begin
<1>8. /\ (begin + CK!StampPeriod) % CK!Top \in Times /\ (begin + IndexPeriod) % CK!Top \in Times
      /\ CK!Diff(begin, (begin + CK!StampPeriod) % CK!Top) = CK!StampPeriod
      /\ CK!Diff(begin, (begin + IndexPeriod) % CK!Top) = IndexPeriod
  <2>1. begin + CK!StampPeriod \in Int /\ begin + IndexPeriod \in Int
    BY <1>4, <1>5
  <2> QED BY <1>5, <2>1, WrapOf, DiffAhead
<1>9. trigger \in Times /\ CK!Diff(trigger, begin) = IndexPeriod
  <2>1. begin - IndexPeriod \in Int
    BY <1>4, <1>5
  <2> QED BY <1>5, <2>1, WrapOf, DiffBehind
<1> HIDE DEF trigger
<1>10. /\ deadline \in [Names -> Times] /\ deadline["stamp"] = (begin + CK!StampPeriod) % CK!Top
       /\ deadline["index"] = (begin + IndexPeriod) % CK!Top
  <2>1. 0 \in Times
    BY Ranges DEF Times
  <2> QED BY <1>8, <2>1 DEF Names
<1> HIDE DEF deadline
<1>f. /\ first \in Nat /\ Slack < first /\ first <= IndexPeriod /\ first <= CK!StampPeriod
      /\ first \in {IndexPeriod, CK!StampPeriod}
  BY <1>4, <1>5 DEF CK!FirstPeriod
<1> HIDE DEF first, queue
<1>11. /\ tm.wide = wide /\ tm.queue = queue /\ tm.deadline = deadline /\ tm.late = 0
       /\ ~tm.pending /\ ~tm.serving /\ tm.cnt = cnt(wide)
  BY <1>1
<1>12. tm.cnt = CK!Programmed(first)
  <2>1. ~(first <= Slack)
    BY <1>4, <1>f
  <2> QED BY <1>11, <2>1 DEF CK!Programmed
<1> HIDE DEF cnt
<1>13. tm.cnt \in Nat /\ tm.cnt >= 1 /\ tm.cnt <= first
  <2>1. first \in Int /\ first >= 1
    BY <1>4, <1>f
  <2>2. CK!Programmed(first) \in Nat \ {0} /\ CK!Programmed(first) <= first
    BY <2>1, ProgrammedIs
  <2> QED BY <1>12, <2>2
<1>14. tm \in TimerTypes
  <2>1. queue \in Seq(Names) /\ 0 \in 0 .. MaxLate
    <3>1. <<"index", "stamp">> \in Seq(Names) /\ <<"stamp", "index">> \in Seq(Names)
      BY DEF Names
    <3> QED BY <1>4, <3>1 DEF queue
  <2>2. cnt(wide) \in Nat
    BY <1>11, <1>13
  <2> QED BY <1>1, <1>10, <2>1, <2>2 DEF TimerTypes
<1>15. LeftNow["stamp"] = CK!StampPeriod /\ LeftNow["index"] = IndexPeriod
  BY <1>2, <1>8, <1>10, <1>11 DEF LeftNow, Left, Names
<1>16. ~DelayIsQueued
  BY <1>11 DEF DelayIsQueued, Queued, queue
<1>17. ClockTypes
  <2>1. index \in [trigger : Times, since : 0 .. MaxSince, right : BOOLEAN]
    BY <1>3, <1>4, <1>9
  <2>2. op \in [mask : SUBSET Ops, owed : [Ops -> Nat]]
    BY <1>3
  <2>3. main \in [stage : {"idle", "read", "set"}, s : Times, ops : SUBSET Ops, n : Nat, age : 0 .. MaxLate]
    <3>1. 0 \in Times /\ 0 \in 0 .. MaxLate
      BY <1>4, Ranges DEF Times
    <3> QED BY <1>3, <3>1
  <2> QED BY <1>2, <1>5, <1>7, <1>14, <2>1, <2>2, <2>3 DEF ClockTypes
<1>18. QueueIsKept
  <2>1. /\ tm.queue \in Seq(Names) /\ Len(tm.queue) = 2
        /\ \/ first = IndexPeriod /\ tm.queue[1] = "index" /\ tm.queue[2] = "stamp"
           \/ first = CK!StampPeriod /\ tm.queue[1] = "stamp" /\ tm.queue[2] = "index"
    <3>1. CASE first = IndexPeriod
      BY <1>11, <3>1 DEF Names, queue
    <3>2. CASE first # IndexPeriod
      <4>1. first = CK!StampPeriod /\ tm.queue = <<"stamp", "index">>
        BY <1>f, <1>11, <3>2 DEF queue
      <4> QED BY <4>1 DEF Names
    <3> QED BY <3>1, <3>2
  <2>2. InOrder(tm.queue, LeftNow)
    <3> SUFFICES ASSUME NEW i \in 1 .. Len(tm.queue), NEW j \in 1 .. Len(tm.queue), i < j
                 PROVE  tm.queue[i] # tm.queue[j] /\ LeftNow[tm.queue[i]] <= LeftNow[tm.queue[j]]
      BY <2>1 DEF InOrder
    <3>1. i = 1 /\ j = 2
      BY <2>1
    <3> QED BY <1>4, <1>f, <1>15, <2>1, <3>1
  <2>3. \A u \in Periodic : Queued(tm.queue, u)
    <3>1. 1 \in 1 .. Len(tm.queue) /\ 2 \in 1 .. Len(tm.queue)
      BY <2>1
    <3> QED BY <2>1, <3>1 DEF Periodic, Queued
  <2> QED BY <1>4, <1>15, <1>16, <2>2, <2>3 DEF QueueIsKept
<1>19. FiresInTime
  <2>1. ~CK!Waiting
    BY <1>11 DEF CK!Waiting
  <2>2. tm.cnt <= LeftNow["stamp"] /\ tm.cnt <= LeftNow["index"]
    BY <1>4, <1>5, <1>f, <1>13, <1>15
  <2> QED BY <1>13, <1>16, <2>1, <2>2 DEF FiresInTime, Periodic
<1>20. StampIsYoung
  <2>1. Age(stamp) = 0
    BY <1>2, <1>5, <1>7, DiffSelf DEF Age
  <2> QED BY <1>5, <1>15, <2>1 DEF StampIsYoung
<1>21. PulseIsKnown
  <2>1. CK!Diff(index.trigger, now) = IndexPeriod /\ index.since = MaxSince /\ index.right
    BY <1>2, <1>3, <1>9
  <2> QED BY <1>4, <1>15, <2>1 DEF PulseIsKnown
<1>22. ReadIsYoung /\ MergedIsKept /\ DelayIsKept /\ CK!DelaysAreKept
  BY <1>3 DEF ReadIsYoung, MergedIsKept, DelayIsKept, CK!DelaysAreKept
<1> QED BY <1>17, <1>18, <1>19, <1>20, <1>21, <1>22 DEF ClockInv

\* Across the wrap of the counter, whatever the interrupt and the main loop are late by: the
\* clock is right also for a reader that was interrupted, the hardware timer fires by the
\* first deadline, no delay is over before it was asked to be, and a pulse is counted exactly
\* if it comes late enough (time_now, timer_set, IRQ_timer, op_delay_async, IRQ_INDEX_changed).
THEOREM TimeIsToldAlways == MCSpec => []TimeIsTold
<1> DEFINE ClockTold == part \in {"delays", "pulses"} => ClockInv
<1>1. MCInit => ClockTold
  BY ClockInitially DEF MCInit
<1>2. ClockTold /\ [MCNext]_allVars => ClockTold'
  <2> SUFFICES ASSUME ClockTold, [MCNext]_allVars, part' \in {"delays", "pulses"} PROVE ClockInv'
    OBVIOUS
  <2>1. part' = part
    BY DEF MCNext, allVars
  <2>2. ClockInv
    BY <2>1
  <2>3. CK!Next \/ UNCHANGED clockVars
    BY <2>1 DEF MCNext, allVars, clockVars, CK!Next
  <2> QED BY <2>2, <2>3, ClockStep
<1>3. ClockTold => TimeIsTold
  BY ClockTells DEF TimeIsTold
<1> QED BY <1>1, <1>2, <1>3, PTL DEF MCSpec
=============================================================================
