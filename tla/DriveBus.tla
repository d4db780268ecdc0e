------------------------------ MODULE DriveBus ------------------------------
(***************************************************************************)
(* The floppy bus that Greaseweazle's commands drive (floppy.c): select and    *)
(* motor lines, the head position the firmware believes in, and what it does    *)
(* when the watchdog, a bus reset or a change of bus quiets the drives.         *)
(*                                                                         *)
(* The drives are external.  A drive steps when it is selected; most do not      *)
(* step outwards while their track 0 sensor asserts.  A "loose" one does, to a   *)
(* stop one cylinder further out.  A "flippy" one's sensor can be switched off,  *)
(* and then it can be stepped beyond cylinder 0; a "stuck" one is a flippy one    *)
(* whose sensor never lets go, and of a "dead" one nothing is ever heard.  None   *)
(* steps past its innermost cylinder, of which the firmware knows nothing.       *)
(*                                                                         *)
(* Delays and pin mappings are left out; a unit whose line the board does not    *)
(* have is refused like one the bus does not have.                           *)
(***************************************************************************)
EXTENDS Integers, FiniteSets

CONSTANTS
  Units,      \* 0, 1 and 2: Shugart's units; IBM PC has the first two
  Kinds,      \* per unit: the kinds of drive that it may be, of AllKinds
  MaxCyl,     \* the innermost cylinder
  MaxAsked,   \* bound: the innermost cylinder that the host asks for
  Beyond      \* floppy_seek() takes a flippy drive this far beyond cylinder 0

VARIABLES
  bus,     \* bus_type
  unitNr,  \* unit_nr, -1 if none is selected
  unit,    \* per unit: initialised, cyl, isFlippy, motor
  drive,   \* per drive: its kind, head and lines, and (known) whether it has been
           \* sought within its cylinders since it was last initialised
  answer   \* the command answered last, how, and (info) for which unit

vars == <<bus, unitNr, unit, drive, answer>>

MinCyl == 0 - Beyond
Buses == {"none", "ibmpc", "shugart"}
OnBus(b) == CASE b = "none" -> {} [] b = "ibmpc" -> Units \cap {0, 1} [] b = "shugart" -> Units
Blank == [initialised |-> FALSE, cyl |-> 0, isFlippy |-> FALSE, motor |-> FALSE]

AllKinds == {"plain", "loose", "flippy", "stuck", "dead"}
\* The outermost cylinder at all.
Stop(kind) == CASE kind \in {"flippy", "stuck"} -> MinCyl [] kind = "loose" -> -1 [] OTHER -> 0

Init ==
  /\ bus = "none" /\ unitNr = -1 /\ unit = [u \in Units |-> Blank]
  /\ drive \in [Units -> [kind : AllKinds, head : MinCyl..MaxCyl, selected : {FALSE}, motor : {FALSE},
                          known : {FALSE}]]
  /\ \A i \in Units : drive[i].kind \in Kinds[i] /\ drive[i].head >= Stop(drive[i].kind)
  /\ answer = [cmd |-> "none", ack |-> "okay", of |-> -1]

(*--------------------------- moving a drive's head -------------------------*)
Bigger(a, b) == IF a > b THEN a ELSE b
Smaller(a, b) == IF a < b THEN a ELSE b
\* get_trk0() is LOW.
Trk0(d) ==
  CASE d.kind = "stuck" -> TRUE [] d.kind = "dead" -> FALSE
    [] d.kind = "flippy" -> d.head <= 0 [] OTHER -> d.head = 0
\* The outermost cylinder that steps take d to, with a flippy drive's sensor on or off.
Outermost(d, sensor) ==
  IF d.kind \in {"plain", "flippy", "stuck"} /\ sensor
  THEN IF Trk0(d) THEN d.head ELSE 0
  ELSE Stop(d.kind)
Outwards(d, n, sensor) == [d EXCEPT !.head = Bigger(@ - n, Outermost(d, sensor))]
Inwards(d, n) == [d EXCEPT !.head = Smaller(@ + n, MaxCyl)]

\* floppy_seek_initialise() steps outwards until the sensor asserts.  A flippy drive's
\* can assert at negative cylinders, so it goes inwards until the sensor lets go.
FarIn == 10
FindsTrk0(d) == d.kind # "dead" /\ (d.kind = "loose" => d.head >= 0)
Initialised(u, d) ==
  CASE ~FindsTrk0(d) ->
         [u |-> u, d |-> [d EXCEPT !.head = Stop(d.kind), !.known = FALSE], ack |-> "noTrk0"]
    [] d.kind = "stuck" ->
         [u |-> [u EXCEPT !.cyl = 0, !.isFlippy = TRUE],
          d |-> [Inwards(d, FarIn) EXCEPT !.known = FALSE], ack |-> "noTrk0"]
    [] d.kind = "flippy" ->
         [u |-> [u EXCEPT !.initialised = TRUE, !.cyl = 1, !.isFlippy = TRUE],
          d |-> [d EXCEPT !.head = 1, !.known = TRUE], ack |-> "okay"]
    [] OTHER ->
         [u |-> [u EXCEPT !.initialised = TRUE, !.cyl = 0, !.isFlippy = FALSE],
          d |-> [d EXCEPT !.head = 0, !.known = TRUE], ack |-> "okay"]

\* floppy_seek() of a unit u and its drive d.
SteppedTo(u, d, cyl) ==
  LET e == IF u.cyl < cyl THEN Inwards(d, cyl - u.cyl) ELSE Outwards(d, u.cyl - cyl, cyl >= 0)
  IN  [u |-> [u EXCEPT !.cyl = cyl], d |-> [e EXCEPT !.known = @ /\ cyl <= MaxCyl], ack |-> "okay"]
Outside(u, cyl) == cyl < IF u.isFlippy THEN MinCyl ELSE 0
Sought(u, d, cyl) ==
  LET r == IF u.initialised THEN [u |-> u, d |-> d, ack |-> "okay"] ELSE Initialised(u, d)
  IN  IF r.ack # "okay" THEN r
      ELSE IF Outside(r.u, cyl) THEN [r EXCEPT !.ack = "badCylinder"]
      ELSE SteppedTo(r.u, r.d, cyl)

\* floppy_noclick_step(): a step beyond cylinder 0 that the drive should ignore, taken
\* back if the sensor lets go.
Unclicked(u, d) ==
  LET s == Sought(u, d, 0)
      e == Outwards(s.d, 1, TRUE)
  IN  IF s.ack # "okay" THEN s
      ELSE IF Trk0(e) THEN [s EXCEPT !.d = e]
      ELSE [s EXCEPT !.d = Inwards(e, 1), !.ack = "badCylinder"]

(*------------------------------- the bus's lines ---------------------------*)
Answered(cmd, ack) == answer' = [cmd |-> cmd, ack |-> ack, of |-> -1]
Deselected(ds) == [i \in Units |-> [ds[i] EXCEPT !.selected = FALSE]]

\* drive_select()
Select(nr) ==
  /\ drive' = IF nr = unitNr THEN drive
              ELSE [i \in Units |-> [drive[i] EXCEPT !.selected = (i = nr /\ nr \in OnBus(bus))]]
  /\ unitNr' = IF nr \in OnBus(bus) THEN nr ELSE IF nr = unitNr THEN nr ELSE -1
  /\ Answered("select", IF nr \in OnBus(bus) THEN "okay"
                            ELSE IF bus = "none" THEN "noBus" ELSE "badUnit")
  /\ UNCHANGED <<bus, unit>>
Deselect ==
  /\ drive' = Deselected(drive) /\ unitNr' = -1
  /\ Answered("deselect", "okay")
  /\ UNCHANGED <<bus, unit>>

\* drive_motor(): Shugart's units share a line, and unit 0 stands for all of them.
Aliased(nr) == IF bus = "shugart" THEN 0 ELSE nr
Wired(nr) == IF bus = "shugart" THEN Units ELSE {nr}
Motor(nr, on) ==
  /\ IF nr \in OnBus(bus)
     THEN /\ unit' = [unit EXCEPT ![Aliased(nr)].motor = on]
          /\ drive' = [i \in Units |-> IF i \in Wired(nr) THEN [drive[i] EXCEPT !.motor = on]
                                       ELSE drive[i]]
          /\ Answered("motor", "okay")
     ELSE /\ UNCHANGED <<unit, drive>>
          /\ Answered("motor", IF bus = "none" THEN "noBus" ELSE "badUnit")
  /\ UNCHANGED <<bus, unitNr>>

\* A command that moves the selected unit's head, with the result s.
Moves(cmd, s) ==
  /\ IF unitNr = -1 THEN UNCHANGED <<unit, drive>> /\ Answered(cmd, "noUnit")
     ELSE /\ unit' = [unit EXCEPT ![unitNr] = s.u] /\ drive' = [drive EXCEPT ![unitNr] = s.d]
          /\ Answered(cmd, s.ack)
  /\ UNCHANGED <<bus, unitNr>>
\* CMD_SEEK, of any cylinder, and CMD_NOCLICK_STEP
Seek(cyl) == Moves("seek", Sought(unit[unitNr], drive[unitNr], cyl))
NoclickStep == Moves("noclick", Unclicked(unit[unitNr], drive[unitNr]))

\* drive_get_info() as CMD_GET_INFO calls it: with a unit below 0, whatever was
\* asked for, and so for the selected unit.
GetInfo(nr) ==
  /\ answer' = [cmd |-> "info", ack |-> IF unitNr = -1 THEN "noUnit" ELSE "okay", of |-> unitNr]
  /\ UNCHANGED <<bus, unitNr, unit, drive>>

(*------------------------------- quieting drives ---------------------------*)
SeekOnlySelected(i) == i = unitNr                          \* mutant
\* The units that quiesce_drives() brings back from negative cylinders.
BroughtBack(i) == unit[i].initialised /\ unit[i].cyl < 0 /\ i \in OnBus(bus)
Quiet(i) == IF BroughtBack(i) THEN Sought(unit[i], drive[i], 0)
            ELSE [u |-> unit[i], d |-> drive[i], ack |-> "okay"]
MotorOff(i) == \E nr \in Units : unit[nr].motor /\ i \in Wired(nr)
\* quiesce_drives()
Quieted ==
  /\ unitNr' = -1
  /\ drive' = [i \in Units |-> [Quiet(i).d EXCEPT !.selected = FALSE,
                                                  !.motor = @ /\ ~MotorOff(i)]]
QuietUnits == [i \in Units |-> [Quiet(i).u EXCEPT !.motor = FALSE]]

\* The watchdog and a USB reset.
Quiesce ==
  /\ Quieted /\ unit' = QuietUnits
  /\ Answered("quiesce", "okay")
  /\ UNCHANGED bus

\* CMD_SET_BUS_TYPE, and CMD_RESET with bus "none": the units are forgotten.
SetBusType(type) ==
  /\ IF type = bus THEN UNCHANGED <<bus, unitNr, unit, drive>>
     ELSE Quieted /\ bus' = type /\ unit' = [u \in Units |-> Blank]
  /\ Answered("bus", "okay")
Reset ==
  /\ Quieted /\ bus' = "none" /\ unit' = [u \in Units |-> Blank]
  /\ Answered("quiesce", "okay")

Next ==
  \/ \E nr \in Units : Select(nr) \/ GetInfo(nr) \/ (\E on \in BOOLEAN : Motor(nr, on))
  \/ Deselect \/ NoclickStep \/ Quiesce \/ Reset
  \/ \E cyl \in (MinCyl - 1)..MaxAsked : Seek(cyl)
  \/ \E type \in Buses : SetBusType(type)

Spec == Init /\ [][Next]_vars

(*------------------------------- properties -------------------------------*)
\* Every line is as the firmware remembers it, and a head that it has initialised is where
\* it believes, unless a seek went past the drive's innermost cylinder: then it is further
\* out, until a drive that ignores steps at track 0 is sought there.
BeliefIsTrue ==
  \A i \in Units :
    /\ unit[i].initialised =>
         /\ drive[i].head <= unit[i].cyl /\ drive[i].head >= Stop(drive[i].kind)
         /\ drive[i].known \/ (drive[i].kind = "plain" /\ unit[i].cyl = 0) => drive[i].head = unit[i].cyl
    /\ drive[i].selected = (i = unitNr)
    /\ drive[i].motor => \E nr \in Units : unit[nr].motor /\ i \in Wired(nr)

\* Whatever was selected, running or beyond cylinder 0 when the drives were quieted,
\* nothing is now.
QuietIsQuiet ==
  answer.cmd = "quiesce" =>
    \A i \in Units : ~drive[i].selected /\ ~drive[i].motor /\ (drive[i].known => drive[i].head >= 0)

\* CMD_NOCLICK_STEP: "On successful return the drive is always at cylinder 0", and when the
\* drive took the step, too; but for a flippy drive sought past its innermost cylinder.
NoclickEndsAtZero ==
  answer.cmd = "noclick" /\ answer.ack \in {"okay", "badCylinder"} =>
    /\ unit[unitNr].initialised /\ unit[unitNr].cyl = 0
    /\ drive[unitNr].known \/ drive[unitNr].kind # "flippy" => drive[unitNr].head = 0
=============================================================================
