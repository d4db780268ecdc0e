--------------------------- MODULE QicVerbsProofs ---------------------------
(***************************************************************************)
(* Theorems about QicVerbs: an accepted report is the drive's own, a command   *)
(* arrives as it was sent, and detection finds a drive that was late once.      *)
(***************************************************************************)
EXTENDS QicVerbs, SequenceTheorems, TLAPS

-----------------------------------------------------------------------------
(* The table of commands. *)

NameSet == {"status", "error", "seek", "stop", "select", "skip", "diag", "segments"}

LEMMA NamesAre == Names = NameSet
BY DEF Names, Cmds, NameSet

LEMMA Codes ==
  /\ Cmds["status"].code = 6 /\ Cmds["error"].code = 7 /\ Cmds["seek"].code = 13
  /\ Cmds["stop"].code = 18 /\ Cmds["select"].code = 23 /\ Cmds["skip"].code = 26
  /\ Cmds["diag"].code = 28 /\ Cmds["segments"].code = 38
BY DEF Cmds

LEMMA Forms ==
  /\ Cmds["status"].form = "report" /\ Cmds["error"].form = "report"
  /\ Cmds["seek"].form = "one" /\ Cmds["stop"].form = "none"
  /\ Cmds["select"].form = "literal" /\ Cmds["skip"].form = "two"
  /\ Cmds["diag"].form = "twice" /\ Cmds["segments"].form = "three"
BY DEF Cmds

LEMMA Moves == \A n \in Names : Cmds[n].moves \in BOOLEAN
<1>1. /\ Cmds["status"].moves = FALSE /\ Cmds["error"].moves = FALSE
      /\ Cmds["seek"].moves = TRUE /\ Cmds["stop"].moves = TRUE
      /\ Cmds["select"].moves = FALSE /\ Cmds["skip"].moves = TRUE
      /\ Cmds["diag"].moves = FALSE /\ Cmds["segments"].moves = FALSE
  BY DEF Cmds
<1> QED BY <1>1, NamesAre DEF NameSet

LEMMA ReportsAre == Reports = {"status", "error"}
BY NamesAre, Forms DEF Reports, NameSet

\* No command is a Soft Reset or a Report Next Bit, and no two have one code.
LEMMA CodesDiffer ==
  /\ \A n \in Names : Cmds[n].code \in Nat /\ Cmds[n].code > NextBit
  /\ \A n, m \in Names : Cmds[n].code = Cmds[m].code => n = m
BY NamesAre, Codes DEF NameSet, NextBit

LEMMA FormsAre ==
  \A n \in Names \ Reports : Cmds[n].form \in {"none", "one", "literal", "twice", "two", "three"}
BY NamesAre, Forms, ReportsAre DEF NameSet

\* As many trains as the drive wants.
LEMMA WantedIs ==
  ASSUME NEW n \in Names
  PROVE  /\ Wanted(n) \in 0 .. 3
         /\ Cmds[n].form \in {"one", "literal", "twice"} => Wanted(n) = 1
         /\ Cmds[n].form = "two" => Wanted(n) = 2
         /\ Cmds[n].form = "three" => Wanted(n) = 3
         /\ Cmds[n].form \in {"none", "report"} => Wanted(n) = 0
BY DEF Wanted

LEMMA WidthIs ==
  ASSUME NEW n \in Reports
  PROVE  /\ Width(n) \in Nat \ {0}
         /\ Width(n) = IF Cmds[n].code = Cmds.status.code THEN ByteBits ELSE MaxBits
<1>1. Cmds.status.code = 6
  BY Codes
<1>2. n = "status" \/ n = "error"
  BY ReportsAre
<1> QED BY <1>1, <1>2, Codes, VerbsAssumption DEF Width

LEMMA Numbers ==
  /\ ByteBits \in Nat \ {0} /\ MaxBits \in Nat \ {0} /\ Nibble \in Nat \ {0} /\ Tries \in Nat \ {0}
  /\ MaxArg \in Nat /\ MaxValue \in Nat /\ MaxEdges \in Nat /\ MaxFaults \in Nat
BY VerbsAssumption

-----------------------------------------------------------------------------
(* What the drive makes of a train. *)

Subs   == {"none", "report", "arg"}
Dids   == (Names \cup {"none", "illegal"}) \X Seq(Int)
Drives == [sub : Subs, bits : Seq(BOOLEAN), pos : Nat, cmd : Names \cup {"none"}, args : Seq(Int),
           trk0 : BOOLEAN, cue : BOOLEAN, ready : BOOLEAN, did : Dids]

\* In a subcontext there is something to come.
DriveKnown(d) ==
  /\ d \in Drives
  /\ d.sub = "report" => d.pos <= Len(d.bits)
  /\ d.sub = "arg" => d.cmd \in Names \ Reports /\ Len(d.args) < Wanted(d.cmd)

\* The lines of a drive that keeps its report.
SameReport(d, e) == e.bits = d.bits /\ e.did = d.did /\ e.ready = d.ready

LEMMA EmptyInSeq == \A S : <<>> \in Seq(S)
OBVIOUS

LEMMA AfterResetKnown == DriveKnown(AfterReset)
<1>1. <<>> \in Seq(BOOLEAN) /\ <<>> \in Seq(Int)
  OBVIOUS
<1> QED BY <1>1 DEF DriveKnown, AfterReset, Drives, Subs, Dids

\* A reset takes everything but the history of what was reported.
LEMMA ResetIs ==
  ASSUME NEW d, DriveKnown(d)
  PROVE  /\ DriveKnown(Reset(d)) /\ Reset(d).bits = d.bits /\ Reset(d).sub = "none"
         /\ Reset(d).trk0 = FALSE /\ Reset(d).cue = FALSE
<1> DEFINE e == Reset(d)
<1>1. d.bits \in Seq(BOOLEAN) /\ e = [AfterReset EXCEPT !.bits = d.bits] /\ AfterReset \in Drives
  BY AfterResetKnown DEF DriveKnown, Drives, Reset
<1>2. AfterReset.sub = "none" /\ AfterReset.trk0 = FALSE /\ AfterReset.cue = FALSE
  BY DEF AfterReset
<1> HIDE DEF e
<1>3. e \in Drives /\ e.bits = d.bits /\ e.sub = "none" /\ e.trk0 = FALSE /\ e.cue = FALSE
  BY <1>1, <1>2 DEF Drives
<1>4. DriveKnown(e)
  BY <1>3 DEF DriveKnown
<1> QED BY <1>3, <1>4 DEF e

\* A command that is executed leaves no subcontext, and no line set.
LEMMA Executed ==
  ASSUME NEW d \in Drives, NEW c \in Names, NEW args \in Seq(Int)
  PROVE  LET e == Execute([d EXCEPT !.trk0 = FALSE, !.cue = FALSE], c, args)
         IN  DriveKnown(e) /\ e.sub = "none" /\ ~e.trk0 /\ ~e.cue /\ e.did = <<c, args>>
<1> DEFINE e == Execute([d EXCEPT !.trk0 = FALSE, !.cue = FALSE], c, args)
<1>1. PICK r \in BOOLEAN : r = ~Cmds[c].moves
  OBVIOUS
<1>2. e = [d EXCEPT !.trk0 = FALSE, !.cue = FALSE, !.sub = "none", !.cmd = "none", !.args = <<>>,
                    !.bits = <<>>, !.pos = 0, !.did = <<c, args>>, !.ready = r]
  BY <1>1 DEF Execute, Drives
<1>3. <<>> \in Seq(Int) /\ <<>> \in Seq(BOOLEAN)
  BY EmptyInSeq
<1>4. <<c, args>> \in Dids
  BY DEF Dids
<1> HIDE DEF e
<1>5. /\ e.trk0 = FALSE /\ e.cue = FALSE /\ e.sub = "none" /\ e.did = <<c, args>>
      /\ e \in Drives
  BY <1>1, <1>2, <1>3, <1>4 DEF Drives, Subs
<1>6. DriveKnown(e)
  BY <1>5 DEF DriveKnown
<1>7. ~e.trk0 /\ ~e.cue
  BY <1>5
<1> QED BY <1>5, <1>6, <1>7 DEF e

LEMMA HeardNextBit ==
  ASSUME NEW d, DriveKnown(d), d.sub = "report", d.pos < Len(d.bits), NEW v
  PROVE  LET e == Heard(d, NextBit, v)
         IN  /\ DriveKnown(e) /\ e.sub = "report" /\ e.pos = d.pos + 1
             /\ e.trk0 = d.bits[d.pos + 1] /\ e.cue = d.cue /\ e.bits = d.bits
<1>1. Heard(d, NextBit, v) = [d EXCEPT !.pos = @ + 1, !.trk0 = d.bits[d.pos + 1]]
  BY DEF Heard, NextBit, SoftReset
<1>2. d.bits[d.pos + 1] \in BOOLEAN /\ d.pos + 1 \in Nat /\ d.pos + 1 <= Len(d.bits)
  BY DEF DriveKnown, Drives
<1> QED BY <1>1, <1>2 DEF DriveKnown, Drives

LEMMA HeardFinal ==
  ASSUME NEW d, DriveKnown(d), d.sub = "report", d.pos >= Len(d.bits), NEW v
  PROVE  LET e == Heard(d, NextBit, v)
         IN  DriveKnown(e) /\ e.sub = "none" /\ e.trk0 /\ e.cue = d.cue /\ e.bits = d.bits
<1>0. Len(d.bits) \in Nat /\ d.pos \in Nat
  BY DEF DriveKnown, Drives
<1>1. Heard(d, NextBit, v) = [d EXCEPT !.sub = "none", !.trk0 = TRUE]
  BY <1>0 DEF Heard, NextBit, SoftReset
<1> QED BY <1>1 DEF DriveKnown, Drives, Subs

LEMMA HeardIllegal ==
  ASSUME NEW d, DriveKnown(d), d.sub = "report", NEW n, n # NextBit, n # SoftReset, NEW v
  PROVE  LET e == Heard(d, n, v)
         IN  DriveKnown(e) /\ e.sub = "none" /\ ~e.trk0 /\ ~e.cue
<1>1. Heard(d, n, v) = [[d EXCEPT !.trk0 = FALSE, !.cue = FALSE]
                           EXCEPT !.sub = "none", !.did = <<"illegal", <<>>>>]
  BY DEF Heard
<1>2. <<"illegal", <<>>>> \in Dids
  BY EmptyInSeq DEF Dids
<1> QED BY <1>1, <1>2 DEF DriveKnown, Drives, Subs

LEMMA HeardArgument ==
  ASSUME NEW d, DriveKnown(d), d.sub = "arg", NEW n \in Int, n # SoftReset, NEW v
  PROVE  LET e == Heard(d, n, v)
             args == Append(d.args, n)
         IN  /\ DriveKnown(e) /\ ~e.trk0 /\ ~e.cue
             /\ IF Len(args) < Wanted(d.cmd)
                THEN e.sub = "arg" /\ e.cmd = d.cmd /\ e.args = args
                ELSE e.sub = "none" /\ e.did = <<d.cmd, args>>
<1> DEFINE args == Append(d.args, n)
           quiet == [d EXCEPT !.trk0 = FALSE, !.cue = FALSE]
<1>0. d.args \in Seq(Int) /\ d.cmd \in Names
  BY DEF DriveKnown, Drives
<1>1. args \in Seq(Int) /\ <<d.cmd, args>> \in Dids
  <2>1. args \in Seq(Int)
    BY <1>0
  <2> HIDE DEF args
  <2> QED BY <1>0, <2>1 DEF Dids
<1>2. CASE Len(args) < Wanted(d.cmd)
  <2>1. Heard(d, n, v) = [quiet EXCEPT !.args = args]
    BY <1>2 DEF Heard
  <2> QED BY <1>1, <1>2, <2>1 DEF DriveKnown, Drives
<1>3. CASE ~(Len(args) < Wanted(d.cmd))
  <2>1. Heard(d, n, v) = Execute(quiet, d.cmd, args)
    BY <1>3 DEF Heard
  <2>2. d \in Drives
    BY DEF DriveKnown
  <2>3. LET e == Execute(quiet, d.cmd, args)
        IN  DriveKnown(e) /\ e.sub = "none" /\ ~e.trk0 /\ ~e.cue /\ e.did = <<d.cmd, args>>
    <3> HIDE DEF args
    <3> QED BY <1>0, <1>1, <2>2, Executed
  <2> QED BY <1>3, <2>1, <2>3, Zenon
<1> QED BY <1>2, <1>3

LEMMA HeardReport ==
  ASSUME NEW d, DriveKnown(d), d.sub = "none", NEW c \in Reports, NEW v \in Seq(BOOLEAN)
  PROVE  LET e == Heard(d, Cmds[c].code, v)
         IN  DriveKnown(e) /\ e.sub = "report" /\ e.pos = 0 /\ e.bits = v /\ e.trk0 /\ e.cue
<1> DEFINE n == Cmds[c].code
<1>1. c \in Names /\ n > NextBit /\ n \in Nat
  BY CodesDiffer DEF Reports
<1>2. (CHOOSE x \in Names : Cmds[x].code = n) = c
  BY <1>1, CodesDiffer
<1>3. n # SoftReset /\ n # NextBit
  BY <1>1 DEF SoftReset, NextBit
<1>4. Heard(d, n, v) = [d EXCEPT !.sub = "report", !.did = <<"none", <<>>>>, !.bits = v, !.pos = 0,
                                 !.trk0 = TRUE, !.cue = TRUE]
  BY <1>1, <1>2, <1>3 DEF Heard
<1>5. <<"none", <<>>>> \in Dids
  BY EmptyInSeq DEF Dids
<1> SUFFICES LET e == Heard(d, n, v)
             IN  DriveKnown(e) /\ e.sub = "report" /\ e.pos = 0 /\ e.bits = v /\ e.trk0 /\ e.cue
  OBVIOUS
<1> HIDE DEF n
<1>6. Len(v) \in Nat
  OBVIOUS
<1> DEFINE e == Heard(d, n, v)
<1> HIDE DEF e
<1>7. /\ e \in Drives /\ e.sub = "report" /\ e.pos = 0 /\ e.bits = v
      /\ e.trk0 = TRUE /\ e.cue = TRUE
  <2> DEFINE none == <<"none", <<>>>>
  <2>1. none \in Dids
    BY <1>5
  <2> HIDE DEF none
  <2>2. e = [d EXCEPT !.sub = "report", !.did = none, !.bits = v, !.pos = 0,
                      !.trk0 = TRUE, !.cue = TRUE]
    BY <1>4 DEF none, e
  <2> QED BY <2>1, <2>2 DEF DriveKnown, Drives, Subs
<1>8. DriveKnown(e)
  BY <1>6, <1>7 DEF DriveKnown
<1>9. e.trk0 /\ e.cue
  BY <1>7
<1> QED BY <1>7, <1>8, <1>9 DEF e

LEMMA HeardCommand ==
  ASSUME NEW d, DriveKnown(d), d.sub = "none", NEW c \in Names \ Reports, NEW v
  PROVE  LET e == Heard(d, Cmds[c].code, v)
         IN  /\ DriveKnown(e) /\ ~e.trk0 /\ ~e.cue
             /\ IF Wanted(c) > 0 THEN e.sub = "arg" /\ e.cmd = c /\ e.args = <<>>
                ELSE e.sub = "none" /\ e.did = <<c, <<>>>>
<1> DEFINE n == Cmds[c].code
           quiet == [d EXCEPT !.trk0 = FALSE, !.cue = FALSE]
<1>1. c \in Names /\ n > NextBit /\ n \in Nat
  BY CodesDiffer
<1>2. (CHOOSE x \in Names : Cmds[x].code = n) = c
  BY <1>1, CodesDiffer
<1>3. n # SoftReset /\ n # NextBit
  BY <1>1 DEF SoftReset, NextBit
<1>4. Heard(d, n, v) = IF Wanted(c) > 0 THEN [quiet EXCEPT !.sub = "arg", !.cmd = c, !.args = <<>>]
                       ELSE Execute(quiet, c, <<>>)
  BY <1>1, <1>2, <1>3 DEF Heard
<1>5. (~Cmds[c].moves) \in BOOLEAN /\ <<>> \in Seq(Int) /\ <<>> \in Seq(BOOLEAN)
  BY Moves
<1>6. <<c, <<>>>> \in Dids /\ Wanted(c) \in 0 .. 3
  BY <1>5, WantedIs DEF Dids
<1> SUFFICES LET e == Heard(d, n, v)
             IN  /\ DriveKnown(e) /\ ~e.trk0 /\ ~e.cue
                 /\ IF Wanted(c) > 0 THEN e.sub = "arg" /\ e.cmd = c /\ e.args = <<>>
                    ELSE e.sub = "none" /\ e.did = <<c, <<>>>>
  OBVIOUS
<1> HIDE DEF n
<1>7. CASE Wanted(c) > 0
  <2> DEFINE e == Heard(d, n, v)
  <2>1. e = [d EXCEPT !.trk0 = FALSE, !.cue = FALSE, !.sub = "arg", !.cmd = c, !.args = <<>>]
    BY <1>4, <1>7
  <2> HIDE DEF e
  <2>2. d \in Drives
    BY DEF DriveKnown
  <2>3. e \in Drives
    BY <1>5, <2>1, <2>2 DEF Drives, Subs
  <2>4. e.trk0 = FALSE /\ e.cue = FALSE /\ e.sub = "arg" /\ e.cmd = c /\ e.args = <<>>
    BY <2>1, <2>2 DEF Drives
  <2>5. Len(e.args) < Wanted(e.cmd)
    BY <1>7, <2>4
  <2>6. DriveKnown(e)
    BY <2>3, <2>4, <2>5 DEF DriveKnown
  <2> QED BY <1>7, <2>4, <2>6 DEF e
<1>8. CASE ~(Wanted(c) > 0)
  <2> DEFINE e == Execute(quiet, c, <<>>)
  <2>1. Heard(d, n, v) = e
    BY <1>4, <1>8
  <2>2. d \in Drives
    BY DEF DriveKnown
  <2>3. DriveKnown(e) /\ e.sub = "none" /\ ~e.trk0 /\ ~e.cue /\ e.did = <<c, <<>>>>
    BY <1>1, <1>5, <2>2, Executed
  <2> HIDE DEF e
  <2> QED BY <1>8, <2>1, <2>3
<1> QED BY <1>7, <1>8

LEMMA HeardNothing ==
  ASSUME NEW d, DriveKnown(d), d.sub = "none", NEW n, n # SoftReset,
         \A c \in Names : Cmds[c].code # n, NEW v
  PROVE  LET e == Heard(d, n, v)
         IN  /\ DriveKnown(e) /\ e.sub = "none" /\ ~e.trk0 /\ ~e.cue /\ e.bits = d.bits
             /\ e.did = d.did
<1>1. Heard(d, n, v) = [d EXCEPT !.trk0 = FALSE, !.cue = FALSE]
  BY DEF Heard
<1> QED BY <1>1 DEF DriveKnown, Drives

LEMMA HeardReset == ASSUME NEW d, NEW v PROVE Heard(d, SoftReset, v) = Reset(d)
BY DEF Heard

\* Whatever it hears, the drive is in one of its states.
LEMMA HeardKnown ==
  ASSUME NEW d, DriveKnown(d), NEW n \in Int, NEW v \in Seq(BOOLEAN)
  PROVE  DriveKnown(Heard(d, n, v))
<1>1. d.sub \in Subs /\ d.pos \in Nat /\ Len(d.bits) \in Nat
  BY DEF DriveKnown, Drives
<1>2. CASE n = SoftReset
  BY <1>2, HeardReset, ResetIs
<1>3. CASE n # SoftReset /\ d.sub = "report"
  BY <1>1, <1>3, HeardNextBit, HeardFinal, HeardIllegal
<1>4. CASE n # SoftReset /\ d.sub = "arg"
  BY <1>4, HeardArgument
<1>5. CASE n # SoftReset /\ d.sub = "none"
  <2>1. CASE \E c \in Reports : Cmds[c].code = n
    BY <1>5, <2>1, HeardReport
  <2>2. CASE \E c \in Names \ Reports : Cmds[c].code = n
    BY <1>5, <2>2, HeardCommand
  <2>3. CASE \A c \in Names : Cmds[c].code # n
    BY <1>5, <2>3, HeardNothing
  <2> QED BY <2>1, <2>2, <2>3
<1> QED BY <1>1, <1>2, <1>3, <1>4, <1>5 DEF Subs

LEMMA Tossed ==
  ASSUME NEW k \in Nat, NEW v \in [1 .. k -> BOOLEAN]
  PROVE  v \in Seq(BOOLEAN) /\ Len(v) = k
<1>1. v \in Seq(BOOLEAN)
  BY SeqDef
<1>2. DOMAIN v = 1 .. k
  OBVIOUS
<1> QED BY <1>1, <1>2, LenProperties

LEMMA PulsesHeard ==
  ASSUME NEW n, Pulses(n)
  PROVE  \E v \in Seq(BOOLEAN) :
           /\ drive' = Heard(drive, n, v)
           /\ \A c \in Reports : n = Cmds[c].code => Len(v) = Width(c)
<1> DEFINE k == IF n = Cmds.status.code THEN ByteBits ELSE MaxBits
<1>1. k \in Nat
  BY Numbers
<1>2. PICK v \in [1 .. k -> BOOLEAN] : drive' = Heard(drive, n, v)
  BY DEF Pulses
<1>3. v \in Seq(BOOLEAN) /\ Len(v) = k
  BY <1>1, <1>2, Tossed
<1>4. \A c \in Reports : n = Cmds[c].code => Width(c) = k
  BY WidthIs
<1> QED BY <1>2, <1>3, <1>4

-----------------------------------------------------------------------------
(* Where the host's call and the firmware's verb are. *)

Samples == BOOLEAN \cup (BOOLEAN \X BOOLEAN)
Steps   == {"none", "train", "ack", "bits", "sample", "close", "poll"}
Fws     == [verb : {"none", "pulses", "wait", "scope"}, step : Steps, n : Int, want : Nat,
            bits : Seq(Samples), ack : BOOLEAN, final : BOOLEAN, late : BOOLEAN, onIndex : BOOLEAN]
Replies == [of : {"none", "pulses", "wait", "scope"}, ack : BOOLEAN, final : BOOLEAN, late : BOOLEAN,
            bits : Seq(Samples)]
Calls   == Names \cup {"none", "wait", "scope"}
NoneAsked == <<"none", <<>>>>
Hosts   == [stage : {"closed", "refused", "open", "asked", "answered"}, call : Calls, trains : Seq(Int),
            tries : Nat, value : Seq(Samples), order : {"lsb", "msb"}, answer : Replies \cup {NoAnswer},
            outcome : {"none", "okay", "timedOut", "error"}, asked : {NoneAsked} \cup (Names \X Nat)]
Seens   == [faults : 0 .. MaxFaults, reset : BOOLEAN, failed : BOOLEAN, lost : BOOLEAN]

Typed == DriveKnown(drive) /\ fw \in Fws /\ host \in Hosts /\ seen \in Seens

\* The steps of the verbs.
StepOfVerb ==
  /\ fw.verb = "none" => fw.step = "none"
  /\ fw.verb = "wait" => fw.step = "train"
  /\ fw.verb = "scope" => fw.step \in {"train", "poll"}
  /\ fw.verb = "pulses" => fw.step \in {"train", "ack", "bits", "sample", "close"}
  /\ fw.step \in {"none", "train", "ack"} => fw.bits = <<>> /\ fw.ack = FALSE
  /\ fw.step # "close" => fw.final = FALSE
  /\ fw.step \in {"ack", "bits", "sample", "close"} => fw.want # 0
  /\ fw.verb # "pulses" => fw.want = 0
  /\ fw.want # 0 => \E c \in Reports : fw.n = Cmds[c].code /\ fw.want = Width(c)

\* A verb is under way for the call that the host waits on, or for one it has given up.
VerbOfCall ==
  /\ host.stage = "asked" => fw.verb # "none"
  /\ host.stage \in {"answered", "closed", "refused"} => fw.verb = "none"
  /\ host.stage = "open" /\ host.outcome = "okay" => fw.verb = "none"
  /\ host.stage = "asked" /\ host.call \in Reports =>
       fw.verb = "pulses" /\ fw.n = Cmds[host.call].code /\ fw.want = Width(host.call)
  /\ host.stage = "asked" /\ host.call \in Names \ Reports => fw.verb = "pulses" /\ fw.want = 0
  /\ host.stage = "asked" /\ host.call \notin Names => fw.verb = host.call
  /\ host.stage = "answered" => host.answer \in Replies
  /\ host.stage = "closed" => host.call = "none"
  /\ host.call \in Names => host.asked[1] = host.call
  /\ host.call \notin Names \ Reports => host.trains = <<>>

Known == Typed /\ StepOfVerb /\ VerbOfCall

LEMMA SamplesAre ==
  /\ BOOLEAN \subseteq Samples
  /\ \A d : DriveKnown(d) => ScopeLines(d) \in Samples
<1>1. BOOLEAN \subseteq Samples
  BY DEF Samples
<1>2. ASSUME NEW d, DriveKnown(d) PROVE ScopeLines(d) \in Samples
  <2>1. d.trk0 \in BOOLEAN
    BY <1>2 DEF DriveKnown, Drives
  <2>2. Index(d) \in BOOLEAN
    BY DEF Index
  <2> QED BY <2>1, <2>2, Zenon DEF ScopeLines, Samples
<1> QED BY <1>1, <1>2

LEMMA CallsAre ==
  /\ "none" \notin Names /\ "wait" \notin Names /\ "scope" \notin Names
  /\ Reports \subseteq Names
BY NamesAre, ReportsAre DEF NameSet

LEMMA InitKnown ==
  ASSUME Init
  PROVE  Known
<1>1. <<>> \in Seq(Samples) /\ <<>> \in Seq(Int)
  BY EmptyInSeq
<1>2. PICK o \in {"lsb", "msb"} : host = [NoCall EXCEPT !.order = o]
  BY DEF Init
<1>3. host \in Hosts /\ host.stage = "closed" /\ host.call = "none" /\ host.trains = <<>>
  BY <1>1, <1>2, CallsAre DEF NoCall, Hosts, Calls, NoneAsked
<1>4. fw \in Fws /\ fw = Idle
  BY <1>1 DEF Init, Idle, Fws, Steps
<1>5. seen \in Seens
  BY Numbers DEF Init, Seens
<1>6. DriveKnown(drive)
  BY AfterResetKnown DEF Init
<1>7. StepOfVerb
  BY <1>4 DEF StepOfVerb, Idle
<1>8. VerbOfCall
  BY <1>3, <1>4, CallsAre DEF VerbOfCall, Idle
<1> QED BY <1>3, <1>4, <1>5, <1>6, <1>7, <1>8 DEF Known, Typed

\* The verb is over, and the host has its answer if it still waits.
Ended(f) ==
  /\ fw'.verb = "none" /\ fw'.step = "none" /\ fw'.bits = <<>> /\ fw'.want = 0 /\ fw'.n = 0
  /\ fw'.ack = FALSE /\ fw'.final = FALSE
  /\ host'.call = host.call /\ host'.trains = host.trains /\ host'.tries = host.tries
  /\ host'.value = host.value /\ host'.order = host.order /\ host'.outcome = host.outcome
  /\ host'.asked = host.asked
  /\ host.stage # "asked" => host' = host
  /\ host.stage = "asked" =>
       /\ host'.stage = "answered" /\ host'.answer \in Replies
       /\ host'.answer.ack = f.ack /\ host'.answer.final = f.final /\ host'.answer.bits = f.bits

LEMMA AnswersEnd ==
  ASSUME Typed, NEW f \in Fws, Answers(f)
  PROVE  fw' \in Fws /\ host' \in Hosts /\ Ended(f)
<1>1. <<>> \in Seq(Samples)
  BY EmptyInSeq
<1>2. fw' = [Idle EXCEPT !.onIndex = fw.onIndex] /\ fw.onIndex \in BOOLEAN
  BY DEF Answers, Typed, Fws
<1>3. /\ fw' \in Fws /\ fw'.verb = "none" /\ fw'.step = "none" /\ fw'.bits = <<>> /\ fw'.want = 0
      /\ fw'.n = 0 /\ fw'.ack = FALSE /\ fw'.final = FALSE
  <2>1. fw' = [verb |-> "none", step |-> "none", n |-> 0, want |-> 0, bits |-> <<>>, ack |-> FALSE,
               final |-> FALSE, late |-> FALSE, onIndex |-> fw.onIndex]
    BY <1>2 DEF Idle
  <2> DEFINE on == fw.onIndex
  <2>2. /\ fw' = [verb |-> "none", step |-> "none", n |-> 0, want |-> 0, bits |-> <<>>, ack |-> FALSE,
                  final |-> FALSE, late |-> FALSE, onIndex |-> on]
        /\ on \in BOOLEAN
    BY <1>2, <2>1
  <2> HIDE DEF on
  <2>3. fw' \in Fws
    BY <1>1, <2>2 DEF Fws, Steps
  <2> QED BY <2>1, <2>3
<1>4. CASE host.stage = "asked"
  <2>1. Answer(f) \in Replies
    BY DEF Answer, Replies, Fws
  <2>2. /\ Answer(f).ack = f.ack /\ Answer(f).final = f.final /\ Answer(f).bits = f.bits
    BY DEF Answer
  <2>3. host' = [host EXCEPT !.stage = "answered", !.answer = Answer(f)] /\ host \in Hosts
    BY <1>4 DEF Answers, Typed
  <2> HIDE DEF Answer
  <2>4. /\ host' \in Hosts /\ host'.stage = "answered" /\ host'.answer = Answer(f)
        /\ host'.call = host.call /\ host'.trains = host.trains /\ host'.tries = host.tries
        /\ host'.value = host.value /\ host'.order = host.order /\ host'.outcome = host.outcome
        /\ host'.asked = host.asked
    BY <2>1, <2>3 DEF Hosts
  <2> QED BY <1>3, <1>4, <2>1, <2>2, <2>4 DEF Ended
<1>5. CASE host.stage # "asked"
  <2>1. host' = host
    BY <1>5 DEF Answers
  <2> QED BY <1>3, <1>5, <2>1 DEF Ended, Typed
<1> QED BY <1>4, <1>5

\* An ended verb leaves the call where the host waits for nothing.
LEMMA EndedKnown ==
  ASSUME Known, NEW f, Ended(f), fw' \in Fws, host' \in Hosts, DriveKnown(drive'), seen' \in Seens,
         fw.verb # "none"
  PROVE  Known'
<1>1. StepOfVerb'
  BY DEF Ended, StepOfVerb
<1>2. VerbOfCall'
  <2>1. host.stage \in {"asked", "open"}
    BY DEF Known, VerbOfCall, Typed, Hosts
  <2>2. CASE host.stage = "asked"
    BY <2>2 DEF Known, VerbOfCall, Ended
  <2>3. CASE host.stage = "open"
    BY <2>3 DEF Known, VerbOfCall, Ended
  <2> QED BY <2>1, <2>2, <2>3
<1> QED BY <1>1, <1>2 DEF Known, Typed

\* A verb that goes on leaves the call as it is.
LEMMA GoesOnKnown ==
  ASSUME Known, host' = host, fw'.verb = fw.verb, fw'.n = fw.n, fw'.want = fw.want,
         fw' \in Fws, StepOfVerb', DriveKnown(drive'), seen' \in Seens
  PROVE  Known'
<1>1. VerbOfCall'
  BY DEF Known, VerbOfCall
<1> QED BY <1>1 DEF Known, Typed

LEMMA PulsesKnown ==
  ASSUME Typed, NEW n \in Int, Pulses(n)
  PROVE  DriveKnown(drive')
<1>1. DriveKnown(drive)
  BY DEF Typed
<1> QED BY <1>1, PulsesHeard, HeardKnown

LEMMA CmdPulsesKnown ==
  ASSUME Known, CmdPulses
  PROVE  Known' /\ (fw.want = 0 => Ended(fw))
<1>1. fw \in Fws /\ fw.n \in Int /\ fw.verb = "pulses" /\ fw.step = "train" /\ Typed /\ StepOfVerb
  BY DEF Known, Typed, Fws, CmdPulses
<1>2. DriveKnown(drive') /\ seen' \in Seens
  BY <1>1, PulsesKnown DEF CmdPulses, Typed
<1>3. CASE fw.want = 0
  <2>1. fw' \in Fws /\ host' \in Hosts /\ Ended(fw)
    BY <1>1, <1>3, AnswersEnd DEF CmdPulses
  <2> QED BY <1>1, <1>2, <1>3, <2>1, EndedKnown
<1>4. CASE fw.want # 0
  <2>1. fw' = [fw EXCEPT !.step = "ack"] /\ host' = host
    BY <1>4 DEF CmdPulses
  <2>2. /\ fw' \in Fws /\ fw'.verb = "pulses" /\ fw'.step = "ack" /\ fw'.n = fw.n
        /\ fw'.want = fw.want /\ fw'.bits = fw.bits /\ fw'.ack = fw.ack /\ fw'.final = fw.final
    BY <1>1, <2>1 DEF Fws, Steps
  <2>3. StepOfVerb'
    BY <1>1, <1>4, <2>2 DEF StepOfVerb
  <2> QED BY <1>1, <1>2, <1>4, <2>1, <2>2, <2>3, GoesOnKnown
<1> QED BY <1>3, <1>4

\* The ACK is seen and the bits are next, or the verb ends without it.
AckSeen == /\ drive.trk0 /\ host' = host /\ seen' = seen
           /\ fw'.step = "bits" /\ fw'.bits = <<>> /\ fw'.ack = TRUE /\ fw'.final = FALSE
           /\ fw'.verb = fw.verb /\ fw'.n = fw.n /\ fw'.want = fw.want
AckLate == /\ \E f \in Fws : f.ack = FALSE /\ f.final = FALSE /\ Ended(f)
           /\ \/ ~drive.trk0 /\ seen' = seen
              \/ drive.trk0 /\ Fault /\ seen' = Struck

LEMMA FaultCounts ==
  ASSUME seen \in Seens, Fault
  PROVE  /\ Struck \in Seens /\ [Struck EXCEPT !.reset = TRUE] \in Seens
         /\ [Struck EXCEPT !.failed = TRUE] \in Seens
         /\ Struck.faults = seen.faults + 1 /\ Struck.reset = seen.reset
         /\ Struck.failed = seen.failed /\ Struck.lost = TRUE
<1>1. seen.faults + 1 \in 0 .. MaxFaults
  BY Numbers DEF Seens, Fault
<1>2. PICK yes \in BOOLEAN : yes = TRUE
  OBVIOUS
<1>3. Struck = [seen EXCEPT !.faults = @ + 1, !.lost = yes]
  BY <1>2 DEF Struck
<1>4. /\ Struck \in Seens /\ Struck.faults = seen.faults + 1 /\ Struck.reset = seen.reset
      /\ Struck.failed = seen.failed /\ Struck.lost = yes
  BY <1>1, <1>3 DEF Seens
<1>5. [Struck EXCEPT !.reset = yes] \in Seens /\ [Struck EXCEPT !.failed = yes] \in Seens
  BY <1>4 DEF Seens
<1> QED BY <1>2, <1>4, <1>5

LEMMA ReportAckKnown ==
  ASSUME Known, ReportAck
  PROVE  Known' /\ drive' = drive /\ (AckSeen \/ AckLate)
<1>1. fw \in Fws /\ fw.verb = "pulses" /\ fw.step = "ack" /\ Typed /\ StepOfVerb /\ seen \in Seens
  BY DEF Known, Typed, Fws, ReportAck, StepOfVerb
<1>2. drive' = drive /\ DriveKnown(drive')
  BY DEF ReportAck, Known, Typed
<1>3. CASE drive.trk0 /\ fw' = [fw EXCEPT !.ack = TRUE, !.step = "bits"] /\ UNCHANGED <<host, seen>>
  <2>1. /\ fw' \in Fws /\ fw'.verb = "pulses" /\ fw'.step = "bits" /\ fw'.n = fw.n
        /\ fw'.want = fw.want /\ fw'.bits = fw.bits /\ fw'.ack = TRUE /\ fw'.final = fw.final
    BY <1>1, <1>3 DEF Fws, Steps
  <2>2. fw.bits = <<>> /\ fw.final = FALSE /\ fw.want # 0
    BY <1>1 DEF StepOfVerb
  <2>3. StepOfVerb'
    BY <1>1, <2>1, <2>2 DEF StepOfVerb
  <2>4. host' = host /\ seen' = seen /\ seen' \in Seens
    BY <1>1, <1>3
  <2>5. AckSeen
    BY <1>1, <1>3, <2>1, <2>2, <2>4 DEF AckSeen
  <2> QED BY <1>1, <1>2, <2>1, <2>3, <2>4, <2>5, GoesOnKnown
<1>4. CASE /\ Answers([fw EXCEPT !.late = TRUE])
           /\ \/ ~drive.trk0 /\ seen' = seen
              \/ drive.trk0 /\ Fault /\ seen' = Struck
  <2> DEFINE f == [fw EXCEPT !.late = TRUE]
  <2>1. f \in Fws /\ f.ack = fw.ack /\ f.final = fw.final
    BY <1>1 DEF Fws
  <2>2. fw.ack = FALSE /\ fw.final = FALSE
    BY <1>1 DEF StepOfVerb
  <2> HIDE DEF f
  <2>3. fw' \in Fws /\ host' \in Hosts /\ Ended(f)
    BY <1>1, <1>4, <2>1, AnswersEnd DEF f
  <2>4. seen' \in Seens
    BY <1>1, <1>4, FaultCounts
  <2>5. Known'
    BY <1>1, <1>2, <2>3, <2>4, EndedKnown
  <2> QED BY <1>2, <1>4, <2>1, <2>2, <2>3, <2>5 DEF AckLate
<1> QED BY <1>3, <1>4 DEF ReportAck

LEMMA ReportBitKnown ==
  ASSUME Known, ReportBit
  PROVE  /\ Known' /\ host' = host /\ seen' = seen
         /\ fw'.step = "sample" /\ fw'.bits = fw.bits /\ fw'.ack = fw.ack /\ fw'.final = FALSE
         /\ fw'.verb = fw.verb /\ fw'.n = fw.n /\ fw'.want = fw.want
<1>1. fw \in Fws /\ fw.verb = "pulses" /\ fw.step = "bits" /\ Typed /\ StepOfVerb /\ seen \in Seens
  BY DEF Known, Typed, Fws, ReportBit, StepOfVerb
<1>2. DriveKnown(drive')
  BY <1>1, PulsesKnown DEF ReportBit, NextBit
<1>3. fw' = [fw EXCEPT !.step = "sample"] /\ host' = host /\ seen' = seen
  BY DEF ReportBit
<1>4. /\ fw' \in Fws /\ fw'.verb = fw.verb /\ fw'.step = "sample" /\ fw'.n = fw.n
      /\ fw'.want = fw.want /\ fw'.bits = fw.bits /\ fw'.ack = fw.ack /\ fw'.final = fw.final
  BY <1>1, <1>3 DEF Fws, Steps
<1>5. StepOfVerb' /\ fw.final = FALSE
  BY <1>1, <1>4 DEF StepOfVerb
<1> QED BY <1>1, <1>2, <1>3, <1>4, <1>5, GoesOnKnown

\* A sample is taken, of a bit or of Final; or its cue does not come.
Kept == host' = host /\ fw'.verb = fw.verb /\ fw'.n = fw.n /\ fw'.want = fw.want /\ fw'.ack = fw.ack
BitRead   == /\ Kept /\ seen' = seen /\ NextIsBit
             /\ fw'.bits = Append(fw.bits, drive.trk0) /\ fw'.step = "bits" /\ fw'.final = FALSE
FinalRead == /\ Kept /\ seen' = seen /\ ~NextIsBit
             /\ fw'.bits = fw.bits /\ fw'.step = "close" /\ fw'.final = drive.trk0
CueMissed == \/ ~Index(drive) /\ seen' = seen
             \/ Index(drive) /\ Fault /\ seen' = Struck
BitMissed   == CueMissed /\ \E f \in Fws : f.final = FALSE /\ Ended(f)
FinalMissed == /\ CueMissed /\ Kept /\ ~NextIsBit
               /\ fw'.bits = fw.bits /\ fw'.step = "close" /\ fw'.final = FALSE

LEMMA CueMissedSeen == ASSUME Typed, CueMissed PROVE seen' \in Seens
BY FaultCounts DEF CueMissed, Typed

LEMMA SampleKnown ==
  ASSUME Known, Sample
  PROVE  Known' /\ drive' = drive /\ (BitRead \/ FinalRead \/ BitMissed \/ FinalMissed)
<1>1. fw \in Fws /\ fw.verb = "pulses" /\ fw.step = "sample" /\ Typed /\ StepOfVerb /\ seen \in Seens
  BY DEF Known, Typed, Fws, Sample, StepOfVerb
<1>2. drive' = drive /\ DriveKnown(drive') /\ drive.trk0 \in BOOLEAN /\ DriveKnown(drive)
  BY DEF Sample, Known, Typed, DriveKnown, Drives
<1>3. fw.final = FALSE /\ fw.want # 0 /\ fw.bits \in Seq(Samples)
  BY <1>1 DEF StepOfVerb, Fws
<1>4. CASE UNCHANGED <<host, seen>> /\ NextIsBit
           /\ fw' = [fw EXCEPT !.bits = Append(@, SampleOf(drive)), !.step = "bits"]
  <2> DEFINE more == Append(fw.bits, drive.trk0)
  <2>1. more \in Seq(Samples)
    BY <1>2, <1>3, SamplesAre
  <2> HIDE DEF more
  <2>2. fw' = [fw EXCEPT !.bits = more, !.step = "bits"]
    BY <1>4, <1>1 DEF more, SampleOf, Fws
  <2>3. /\ fw' \in Fws /\ fw'.verb = fw.verb /\ fw'.step = "bits" /\ fw'.n = fw.n
        /\ fw'.want = fw.want /\ fw'.bits = more /\ fw'.ack = fw.ack /\ fw'.final = fw.final
    BY <1>1, <2>1, <2>2 DEF Fws, Steps
  <2>4. StepOfVerb'
    BY <1>1, <1>3, <2>3 DEF StepOfVerb
  <2>5. BitRead
    BY <1>3, <1>4, <2>3 DEF BitRead, Kept, more
  <2> QED BY <1>1, <1>2, <1>4, <2>3, <2>4, <2>5, GoesOnKnown
<1>5. CASE UNCHANGED <<host, seen>> /\ ~NextIsBit
           /\ fw' = [fw EXCEPT !.final = SampleOf(drive), !.step = "close"]
  <2> DEFINE last == drive.trk0
  <2>1. fw' = [fw EXCEPT !.final = last, !.step = "close"] /\ last \in BOOLEAN
    BY <1>2, <1>5 DEF SampleOf
  <2> HIDE DEF last
  <2>2. /\ fw' \in Fws /\ fw'.verb = fw.verb /\ fw'.step = "close" /\ fw'.n = fw.n
        /\ fw'.want = fw.want /\ fw'.bits = fw.bits /\ fw'.ack = fw.ack /\ fw'.final = last
    BY <1>1, <2>1 DEF Fws, Steps
  <2>3. StepOfVerb'
    BY <1>1, <1>3, <2>2 DEF StepOfVerb
  <2>4. FinalRead
    BY <1>5, <2>2 DEF FinalRead, Kept, last
  <2> QED BY <1>1, <1>2, <1>5, <2>2, <2>3, <2>4, GoesOnKnown
<1>6. CASE CueMissed /\ NextIsBit /\ Answers([fw EXCEPT !.late = TRUE])
  <2> DEFINE f == [fw EXCEPT !.late = TRUE]
  <2>1. f \in Fws /\ f.final = fw.final
    BY <1>1 DEF Fws
  <2> HIDE DEF f
  <2>3. fw' \in Fws /\ host' \in Hosts /\ Ended(f)
    BY <1>1, <1>6, <2>1, AnswersEnd DEF f
  <2>4. seen' \in Seens
    BY <1>1, <1>6, CueMissedSeen
  <2>5. Known'
    BY <1>1, <1>2, <2>3, <2>4, EndedKnown
  <2> QED BY <1>2, <1>3, <1>6, <2>1, <2>3, <2>5 DEF BitMissed
<1>7. CASE CueMissed /\ ~NextIsBit /\ fw' = [fw EXCEPT !.late = TRUE, !.step = "close"] /\ host' = host
  <2>2. /\ fw' \in Fws /\ fw'.verb = fw.verb /\ fw'.step = "close" /\ fw'.n = fw.n
        /\ fw'.want = fw.want /\ fw'.bits = fw.bits /\ fw'.ack = fw.ack /\ fw'.final = fw.final
    BY <1>1, <1>7 DEF Fws, Steps
  <2>3. StepOfVerb'
    BY <1>1, <1>3, <2>2 DEF StepOfVerb
  <2>4. seen' \in Seens
    BY <1>1, <1>7, CueMissedSeen
  <2>5. FinalMissed
    BY <1>3, <1>7, <2>2 DEF FinalMissed, Kept
  <2> QED BY <1>1, <1>2, <1>7, <2>2, <2>3, <2>4, <2>5, GoesOnKnown
<1>8. \/ UNCHANGED <<host, seen>> /\ fw' = IF NextIsBit
              THEN [fw EXCEPT !.bits = Append(@, SampleOf(drive)), !.step = "bits"]
              ELSE [fw EXCEPT !.final = SampleOf(drive), !.step = "close"]
      \/ /\ CueMissed
         /\ IF NextIsBit THEN Answers([fw EXCEPT !.late = TRUE])
            ELSE fw' = [fw EXCEPT !.late = TRUE, !.step = "close"] /\ UNCHANGED host
  <2>1. ASSUME Index(drive) => Fault,
               seen' = IF Index(drive) THEN Struck ELSE seen
        PROVE  CueMissed
    <3>1. CASE Index(drive)
      BY <2>1, <3>1 DEF CueMissed
    <3>2. CASE ~Index(drive)
      <4>1. seen' = seen
        BY <1>1, <2>1, <3>2 DEF Seens
      <4> QED BY <3>2, <4>1 DEF CueMissed
    <3> QED BY <3>1, <3>2
  <2> QED BY <2>1 DEF Sample
<1> QED BY <1>4, <1>5, <1>6, <1>7, <1>8

LEMMA ReportCloseKnown ==
  ASSUME Known, ReportClose
  PROVE  Known' /\ Ended(fw) /\ Pulses(NextBit) /\ seen' = seen
<1>1. fw \in Fws /\ fw.verb = "pulses" /\ fw.step = "close" /\ Typed /\ StepOfVerb /\ seen \in Seens
  BY DEF Known, Typed, Fws, ReportClose, StepOfVerb
<1>2. Pulses(NextBit) /\ seen' = seen /\ Answers(fw)
  BY DEF ReportClose, ClosesWith
<1>3. DriveKnown(drive')
  BY <1>1, <1>2, PulsesKnown DEF NextBit
<1>4. fw' \in Fws /\ host' \in Hosts /\ Ended(fw)
  BY <1>1, <1>2, AnswersEnd
<1> QED BY <1>1, <1>2, <1>3, <1>4, EndedKnown

LEMMA WaitReadyKnown ==
  ASSUME Known, WaitReady
  PROVE  /\ Known' /\ drive' = drive /\ seen' = seen
         /\ \E f \in Fws : Ended(f) /\ f.final = FALSE /\ (f.ack => Index(drive))
<1>1. fw \in Fws /\ fw.verb = "wait" /\ Typed /\ StepOfVerb /\ seen \in Seens /\ fw.step = "train"
  BY DEF Known, Typed, Fws, WaitReady, StepOfVerb
<1>2. PICK cue \in {Index(drive), FALSE} : Answers([fw EXCEPT !.ack = cue])
  BY DEF WaitReady
<1>3. cue \in BOOLEAN /\ (cue => Index(drive))
  BY <1>2 DEF Index
<1> DEFINE f == [fw EXCEPT !.ack = cue]
<1>4. f \in Fws /\ f.final = fw.final /\ f.ack = cue
  BY <1>1, <1>3 DEF Fws
<1>5. fw.final = FALSE
  BY <1>1 DEF StepOfVerb
<1> HIDE DEF f
<1>6. fw' \in Fws /\ host' \in Hosts /\ Ended(f)
  BY <1>1, <1>2, <1>4, AnswersEnd DEF f
<1>7. drive' = drive /\ seen' = seen /\ DriveKnown(drive')
  BY <1>1 DEF WaitReady, Typed
<1>8. Known'
  BY <1>1, <1>6, <1>7, EndedKnown
<1> QED BY <1>3, <1>4, <1>5, <1>6, <1>7, <1>8

LEMMA ScopeKnown ==
  ASSUME Known, ScopeStart \/ ScopePoll
  PROVE  /\ Known' /\ seen' = seen /\ fw.verb = "scope"
         /\ fw.n <= 0 => drive' = drive
         /\ \/ Kept /\ fw'.step = "poll" /\ fw.step \in {"train", "poll"}
            \/ fw.step = "poll" /\ (\E f \in Fws : Ended(f)) /\ drive' = drive
<1>1. fw \in Fws /\ fw.verb = "scope" /\ Typed /\ StepOfVerb /\ seen \in Seens /\ DriveKnown(drive)
  BY DEF Known, Typed, Fws, ScopeStart, ScopePoll, StepOfVerb
<1>2. CASE ScopeStart
  <2>1. DriveKnown(drive') /\ (fw.n <= 0 => drive' = drive)
    <3>1. fw.n \in Int
      BY <1>1 DEF Fws
    <3> QED BY <1>1, <1>2, <3>1, PulsesKnown DEF ScopeStart
  <2> DEFINE lines == <<ScopeLines(drive')>>
  <2>2. lines \in Seq(Samples)
    <3>1. ScopeLines(drive') \in Samples
      BY <2>1, SamplesAre
    <3> QED BY <3>1
  <2> HIDE DEF lines
  <2>3. fw' = [fw EXCEPT !.step = "poll", !.bits = lines] /\ host' = host /\ seen' = seen
        /\ fw.step = "train"
    BY <1>2 DEF ScopeStart, lines
  <2>4. /\ fw' \in Fws /\ fw'.verb = fw.verb /\ fw'.step = "poll" /\ fw'.n = fw.n
        /\ fw'.want = fw.want /\ fw'.ack = fw.ack /\ fw'.final = fw.final
    BY <1>1, <2>2, <2>3 DEF Fws, Steps
  <2>5. StepOfVerb'
    BY <1>1, <2>3, <2>4 DEF StepOfVerb
  <2> QED BY <1>1, <2>1, <2>3, <2>4, <2>5, GoesOnKnown DEF Kept
<1>3. CASE ScopePoll
  <2>1. drive' = drive /\ seen' = seen /\ fw.step = "poll" /\ DriveKnown(drive')
    BY <1>1, <1>3 DEF ScopePoll
  <2>2. CASE fw' = [fw EXCEPT !.bits = Append(@, ScopeLines(drive))] /\ host' = host
    <3> DEFINE more == Append(fw.bits, ScopeLines(drive))
    <3>1. more \in Seq(Samples)
      <4>1. fw.bits \in Seq(Samples) /\ ScopeLines(drive) \in Samples
        BY <1>1, SamplesAre DEF Fws
      <4> QED BY <4>1
    <3>2. fw' = [fw EXCEPT !.bits = more]
      BY <1>1, <2>2 DEF Fws
    <3> HIDE DEF more
    <3>4. /\ fw' \in Fws /\ fw'.verb = fw.verb /\ fw'.step = "poll" /\ fw'.n = fw.n
          /\ fw'.want = fw.want /\ fw'.ack = fw.ack /\ fw'.final = fw.final
      BY <1>1, <2>1, <3>1, <3>2 DEF Fws, Steps
    <3>5. StepOfVerb'
      BY <1>1, <2>1, <3>4 DEF StepOfVerb
    <3> QED BY <1>1, <2>1, <2>2, <3>4, <3>5, GoesOnKnown DEF Kept
  <2>3. CASE Answers([fw EXCEPT !.late = ScopeLines(drive) # Last(fw.bits)])
    <3> DEFINE late == (ScopeLines(drive) # Last(fw.bits))
               f == [fw EXCEPT !.late = late]
    <3>1. late \in BOOLEAN
      OBVIOUS
    <3> HIDE DEF late
    <3>2. f \in Fws
      BY <1>1, <3>1 DEF Fws
    <3> HIDE DEF f
    <3>3. fw' \in Fws /\ host' \in Hosts /\ Ended(f)
      BY <1>1, <2>3, <3>2, AnswersEnd DEF f, late
    <3>4. Known'
      BY <1>1, <2>1, <3>3, EndedKnown
    <3> QED BY <1>1, <2>1, <3>2, <3>3, <3>4
  <2> QED BY <1>3, <2>2, <2>3 DEF ScopePoll
<1> QED BY <1>2, <1>3

\* The drive changes on its own: it is ready, or it resets.
LEMMA DriveReadyKnown ==
  ASSUME Known, DriveReady
  PROVE  /\ Known' /\ fw' = fw /\ host' = host /\ seen' = seen
         /\ drive'.sub = drive.sub /\ drive'.bits = drive.bits /\ drive'.pos = drive.pos
         /\ drive'.cmd = drive.cmd /\ drive'.args = drive.args /\ drive'.did = drive.did
         /\ drive'.trk0 = drive.trk0 /\ drive'.cue = drive.cue /\ drive'.ready = TRUE
<1>1. DriveKnown(drive) /\ drive' = [drive EXCEPT !.ready = TRUE]
  BY DEF DriveReady, Known, Typed
<1>2. /\ drive' \in Drives
      /\ drive'.sub = drive.sub /\ drive'.bits = drive.bits /\ drive'.pos = drive.pos
      /\ drive'.cmd = drive.cmd /\ drive'.args = drive.args /\ drive'.did = drive.did
      /\ drive'.trk0 = drive.trk0 /\ drive'.cue = drive.cue /\ drive'.ready = TRUE
  BY <1>1 DEF DriveKnown, Drives
<1>3. DriveKnown(drive')
  BY <1>1, <1>2 DEF DriveKnown
<1>4. fw' = fw /\ host' = host /\ seen' = seen
  BY DEF DriveReady
<1>5. Known'
  BY <1>3, <1>4 DEF Known, Typed, StepOfVerb, VerbOfCall
<1> QED BY <1>2, <1>4, <1>5

LEMMA DriveResetsKnown ==
  ASSUME Known, DriveResets
  PROVE  /\ Known' /\ fw' = fw /\ host' = host /\ drive' = Reset(drive)
         /\ seen'.faults = seen.faults + 1 /\ seen'.reset = TRUE /\ seen'.failed = seen.failed
         /\ seen'.lost = TRUE
<1>1. seen \in Seens /\ seen' = [Struck EXCEPT !.reset = TRUE] /\ Fault
  BY DEF DriveResets, Known, Typed
<1>2. seen' \in Seens
  BY <1>1, FaultCounts
<1>3. /\ seen'.faults = seen.faults + 1 /\ seen'.reset = TRUE /\ seen'.failed = seen.failed
      /\ seen'.lost = TRUE
  <2>1. /\ Struck \in Seens /\ Struck.faults = seen.faults + 1 /\ Struck.failed = seen.failed
        /\ Struck.lost = TRUE
    BY <1>1, FaultCounts
  <2>2. /\ seen'.faults = Struck.faults /\ seen'.reset = TRUE /\ seen'.failed = Struck.failed
        /\ seen'.lost = Struck.lost
    BY <1>1, <2>1 DEF Seens
  <2> QED BY <2>1, <2>2
<1>4. fw' = fw /\ host' = host /\ drive' = Reset(drive) /\ DriveKnown(drive')
  BY ResetIs DEF DriveResets, Known, Typed
<1>5. Known'
  BY <1>2, <1>4 DEF Known, Typed, StepOfVerb, VerbOfCall
<1> QED BY <1>3, <1>4, <1>5

LEMMA OpenKnown ==
  ASSUME Known, Open
  PROVE  /\ Known' /\ drive' = drive /\ seen' = seen
         /\ host.stage = "closed" /\ host'.stage \in {"open", "refused"} /\ fw.verb = "none"
         /\ fw'.verb = "none" /\ fw'.step = "none" /\ host'.call = "none" /\ fw'.n = fw.n
<1>1. PICK capable \in BOOLEAN, onIndex \in BOOLEAN :
        /\ host' = [host EXCEPT !.stage = IF capable THEN "open" ELSE "refused"]
        /\ fw' = [fw EXCEPT !.onIndex = capable /\ onIndex]
  BY DEF Open
<1>2. /\ host.stage = "closed" /\ drive' = drive /\ seen' = seen /\ fw.verb = "none"
      /\ fw.step = "none" /\ host.call = "none" /\ fw \in Fws /\ host \in Hosts
  BY DEF Open, Known, VerbOfCall, StepOfVerb, Typed
<1> DEFINE stage == IF capable THEN "open" ELSE "refused"
           on == (capable /\ onIndex)
<1>3. stage \in {"open", "refused"} /\ on \in BOOLEAN
  OBVIOUS
<1> HIDE DEF stage, on
<1>4. /\ host' \in Hosts /\ host'.stage = stage /\ host'.call = host.call
      /\ host'.trains = host.trains /\ host'.asked = host.asked
  BY <1>1, <1>2, <1>3 DEF Hosts, stage
<1>5. /\ fw' \in Fws /\ fw'.verb = fw.verb /\ fw'.step = fw.step /\ fw'.n = fw.n
      /\ fw'.want = fw.want /\ fw'.ack = fw.ack /\ fw'.final = fw.final /\ fw'.bits = fw.bits
  BY <1>1, <1>2, <1>3 DEF Fws, on
<1>6. StepOfVerb'
  BY <1>5 DEF Known, StepOfVerb
<1>7. VerbOfCall'
  BY <1>2, <1>3, <1>4, <1>5 DEF Known, VerbOfCall
<1>8. Typed'
  BY <1>2, <1>4, <1>5 DEF Known, Typed
<1> QED BY <1>2, <1>3, <1>4, <1>5, <1>6, <1>7, <1>8 DEF Known

\* A verb goes to the board for the call h.
Sent(h, verb, n, want) ==
  /\ fw.verb = "none" /\ fw.step = "none"
  /\ fw'.verb = verb /\ fw'.step = "train" /\ fw'.n = n /\ fw'.want = want
  /\ fw'.bits = <<>> /\ fw'.ack = FALSE /\ fw'.final = FALSE
  /\ host'.stage = "asked" /\ host'.call = h.call /\ host'.trains = h.trains
  /\ host'.tries = h.tries /\ host'.asked = h.asked

LEMMA SendSent ==
  ASSUME Known, NEW h \in Hosts, NEW verb \in {"pulses", "wait", "scope"}, NEW n \in Int,
         NEW want \in Nat, Send(h, verb, n, want)
  PROVE  fw' \in Fws /\ host' \in Hosts /\ Sent(h, verb, n, want)
<1>1. fw.verb = "none" /\ fw \in Fws
  BY DEF Send, Known, Typed
<1>2. fw.step = "none" /\ fw.bits = <<>> /\ fw.ack = FALSE /\ fw.final = FALSE
  BY <1>1 DEF Known, StepOfVerb
<1>3. /\ fw' = [fw EXCEPT !.verb = verb, !.step = "train", !.n = n, !.want = want]
      /\ host' = [h EXCEPT !.stage = "asked", !.answer = NoAnswer]
  BY DEF Send
<1>4. /\ fw' \in Fws /\ fw'.verb = verb /\ fw'.step = "train" /\ fw'.n = n /\ fw'.want = want
      /\ fw'.bits = fw.bits /\ fw'.ack = fw.ack /\ fw'.final = fw.final
  BY <1>1, <1>3 DEF Fws, Steps
<1>5. /\ host' \in Hosts /\ host'.stage = "asked" /\ host'.call = h.call /\ host'.trains = h.trains
      /\ host'.tries = h.tries /\ host'.asked = h.asked
  BY <1>3 DEF Hosts
<1> QED BY <1>1, <1>2, <1>4, <1>5 DEF Sent

LEMMA SentKnown ==
  ASSUME Known, NEW h \in Hosts, NEW verb \in {"pulses", "wait", "scope"}, NEW n \in Int,
         NEW want \in Nat, Send(h, verb, n, want), drive' = drive, seen' \in Seens,
         verb # "pulses" => want = 0 /\ h.call = verb,
         verb = "pulses" => h.call \in Names,
         h.call \in Reports => n = Cmds[h.call].code /\ want = Width(h.call),
         h.call \in Names \ Reports => want = 0,
         h.call \in Names => h.asked[1] = h.call,
         h.call \notin Names \ Reports => h.trains = <<>>
  PROVE  Known' /\ Sent(h, verb, n, want)
<1>1. fw' \in Fws /\ host' \in Hosts /\ Sent(h, verb, n, want)
  BY SendSent
<1>2. Typed'
  BY <1>1 DEF Known, Typed
<1>3. want # 0 => \E c \in Reports : n = Cmds[c].code /\ want = Width(c)
  BY CallsAre
<1>4. StepOfVerb'
  BY <1>1, <1>3 DEF Sent, StepOfVerb
<1>5. VerbOfCall'
  BY <1>1, CallsAre DEF Sent, VerbOfCall
<1> QED BY <1>1, <1>2, <1>4, <1>5 DEF Known

LEMMA NoCallIs ==
  /\ NoCall \in Hosts /\ NoCall.call = "none" /\ NoCall.trains = <<>> /\ NoCall.tries = 0
  /\ NoCall.asked = NoneAsked
<1>1. <<>> \in Seq(Samples) /\ <<>> \in Seq(Int)
  BY EmptyInSeq
<1> QED BY <1>1, CallsAre DEF NoCall, Hosts, Calls, NoneAsked

LEMMA ReportKnown ==
  ASSUME Known, NEW n \in Reports, NEW tries \in {1, Tries}, Report(n, tries)
  PROVE  /\ Known' /\ drive' = drive /\ seen' = seen /\ host.stage = "open"
         /\ fw.verb = "none" /\ fw'.verb = "pulses" /\ fw'.step = "train" /\ fw'.n = Cmds[n].code
         /\ host'.stage = "asked" /\ host'.call = n /\ host'.tries = tries /\ host'.asked = <<n, tries>>
<1> DEFINE pair == <<n, tries>>
           h == [NoCall EXCEPT !.order = host.order, !.call = n, !.tries = tries, !.asked = pair]
<1>1. /\ Send(h, "pulses", Cmds[n].code, Width(n))
      /\ drive' = drive /\ seen' = seen /\ host.stage = "open"
  BY DEF Report
<1>2. n \in Names /\ tries \in Nat /\ host \in Hosts /\ seen' \in Seens
  BY <1>1, CallsAre, Numbers DEF Known, Typed
<1>3. n \in Calls /\ pair \in Names \X Nat /\ pair[1] = n
  BY <1>2 DEF Calls
<1> HIDE DEF pair
<1>5. h \in Hosts /\ h.call = n /\ h.trains = <<>> /\ h.tries = tries /\ h.asked = pair
  BY <1>2, <1>3, NoCallIs DEF Hosts
<1>6. Cmds[n].code \in Int /\ Width(n) \in Nat
  BY <1>2, CodesDiffer, WidthIs
<1> HIDE DEF h
<1>9. Known' /\ Sent(h, "pulses", Cmds[n].code, Width(n))
  BY <1>1, <1>2, <1>3, <1>5, <1>6, SentKnown
<1> QED BY <1>1, <1>5, <1>9 DEF Sent, pair

LEMMA TrainsAre ==
  ASSUME NEW n \in Names \ Reports, NEW v \in Nat, NEW ts \in Trains(Cmds[n].form, v)
  PROVE  /\ ts \in Seq(Int) /\ Len(ts) = Wanted(n)
         /\ \A i \in 1 .. Len(ts) : ts[i] \in Nat /\ ts[i] >= 2
<1>1. Cmds[n].form \in {"none", "one", "literal", "twice", "two", "three"}
  BY FormsAre
<1>2. \A k \in Nat : Plus2(k) \in Nat /\ Plus2(k) >= 2
  BY DEF Plus2
<1>3. \A k \in Nat : k % Nibble \in Nat /\ k \div Nibble \in Nat
  BY Numbers
<1>4. CASE Cmds[n].form = "none"
  <2>1. ts = <<>>
    BY <1>4 DEF Trains
  <2> QED BY <1>4, <2>1, WantedIs
<1>5. CASE Cmds[n].form \in {"literal", "twice"}
  <2>1. ts = <<20>> \/ ts = <<28>>
  BY <1>5 DEF Trains
  <2>2. Len(ts) = 1 /\ ts[1] \in {20, 28} /\ ts \in Seq(Int)
    BY <2>1
  <2> QED BY <1>5, <2>2, WantedIs
<1>6. CASE Cmds[n].form = "one"
  <2>1. ts = <<Plus2(v)>>
    BY <1>6 DEF Trains
  <2> HIDE DEF Plus2
  <2> QED BY <1>2, <1>6, <2>1, WantedIs
<1>7. CASE Cmds[n].form = "two"
  <2>1. ts = <<Plus2(v % Nibble), Plus2(v \div Nibble)>>
    BY <1>7 DEF Trains
  <2>2. \A a, b \in Nat : a >= 2 /\ b >= 2 /\ ts = <<a, b>> =>
           ts \in Seq(Int) /\ Len(ts) = 2 /\ \A i \in 1 .. Len(ts) : ts[i] \in Nat /\ ts[i] >= 2
    OBVIOUS
  <2> QED BY <1>2, <1>3, <1>7, <2>1, <2>2, WantedIs
<1>8. CASE Cmds[n].form = "three"
  <2>1. ts = <<Plus2(v % Nibble), Plus2((v \div Nibble) % Nibble), Plus2((v \div Nibble) \div Nibble)>>
    BY <1>8 DEF Trains
  <2>2. \A a, b, c \in Nat : a >= 2 /\ b >= 2 /\ c >= 2 /\ ts = <<a, b, c>> =>
           ts \in Seq(Int) /\ Len(ts) = 3 /\ \A i \in 1 .. Len(ts) : ts[i] \in Nat /\ ts[i] >= 2
    OBVIOUS
  <2> QED BY <1>2, <1>3, <1>8, <2>1, <2>2, WantedIs
<1> QED BY <1>1, <1>4, <1>5, <1>6, <1>7, <1>8

\* A command goes out with its trains to come.
LEMMA CommandKnown ==
  ASSUME Known, NEW n \in Names, NEW v \in Nat, Command(n, v)
  PROVE  /\ Known' /\ drive' = drive /\ seen' = seen /\ host.stage = "open" /\ n \notin Reports
         /\ fw.verb = "none" /\ fw'.verb = "pulses" /\ fw'.step = "train" /\ fw'.n = Cmds[n].code
         /\ host'.stage = "asked" /\ host'.call = n /\ host'.asked = <<n, v>>
         /\ \E ts \in Trains(Cmds[n].form, v) : host'.trains = ts
<1>1. PICK ts \in Trains(Cmds[n].form, v) :
        Send([NoCall EXCEPT !.order = host.order, !.call = n, !.trains = ts, !.asked = <<n, v>>],
             "pulses", Cmds[n].code, 0)
  BY DEF Command
<1> DEFINE pair == <<n, v>>
           h == [NoCall EXCEPT !.order = host.order, !.call = n, !.trains = ts, !.asked = pair]
<1>2. /\ Send(h, "pulses", Cmds[n].code, 0)
      /\ drive' = drive /\ seen' = seen /\ host.stage = "open" /\ n \notin Reports
  BY <1>1 DEF Command
<1>3. host \in Hosts /\ seen' \in Seens /\ ts \in Seq(Int)
  BY <1>2, TrainsAre DEF Known, Typed
<1>4. n \in Calls /\ pair \in Names \X Nat /\ pair[1] = n
  BY DEF Calls
<1> HIDE DEF pair
<1>5. h \in Hosts /\ h.call = n /\ h.trains = ts /\ h.asked = pair
  BY <1>3, <1>4, NoCallIs DEF Hosts
<1>6. Cmds[n].code \in Int
  BY CodesDiffer
<1> HIDE DEF h
<1>7. Known' /\ Sent(h, "pulses", Cmds[n].code, 0)
  BY <1>2, <1>3, <1>4, <1>5, <1>6, SentKnown
<1> QED BY <1>2, <1>5, <1>7 DEF Sent, pair

\* Its next train.
LEMMA NextTrainKnown ==
  ASSUME Known, NextTrain
  PROVE  /\ Known' /\ drive' = drive /\ seen' = seen /\ host.stage = "answered" /\ host.trains # <<>>
         /\ host.call \in Names \ Reports
         /\ fw.verb = "none" /\ fw'.verb = "pulses" /\ fw'.step = "train" /\ fw'.n = Head(host.trains)
         /\ host'.stage = "asked" /\ host'.call = host.call /\ host'.asked = host.asked
         /\ host'.trains = Tail(host.trains)
<1>1. host \in Hosts /\ seen' \in Seens /\ host.trains \in Seq(Int) /\ host.call \in Calls
  BY DEF Known, Typed, Hosts, NextTrain
<1>2. /\ drive' = drive /\ seen' = seen /\ host.stage = "answered" /\ host.trains # <<>>
      /\ host.call \in Names \ Reports /\ (host.call \in Names => host.asked[1] = host.call)
  BY DEF NextTrain, Known, VerbOfCall
<1> DEFINE rest == Tail(host.trains)
           h == [host EXCEPT !.trains = rest]
           n == Head(host.trains)
<1>3. rest \in Seq(Int) /\ n \in Int
  BY <1>1, <1>2
<1>4. Send(h, "pulses", n, 0)
  BY <1>1 DEF NextTrain, Hosts
<1> HIDE DEF rest, n
<1>5. h \in Hosts /\ h.call = host.call /\ h.trains = rest /\ h.asked = host.asked
  BY <1>1, <1>3 DEF Hosts
<1> HIDE DEF h
<1>6. Known' /\ Sent(h, "pulses", n, 0)
  BY <1>1, <1>2, <1>3, <1>4, <1>5, SentKnown
<1> QED BY <1>2, <1>5, <1>6 DEF Sent, rest, n

\* A probe or a wait goes out.
LEMMA AskKnown ==
  ASSUME Known, NEW verb \in {"wait", "scope"}, NEW n \in Nat, Ask(verb, n)
  PROVE  /\ Known' /\ drive' = drive /\ host.stage = "open"
         /\ n = 0 => seen' = seen
         /\ n > 0 => seen'.faults = seen.faults + 1 /\ seen'.reset = seen.reset
                     /\ seen'.failed = seen.failed /\ seen'.lost = TRUE
         /\ fw.verb = "none" /\ fw'.verb = verb /\ fw'.step = "train" /\ fw'.n = n
         /\ host'.stage = "asked" /\ host'.call = verb
<1> DEFINE h == [NoCall EXCEPT !.order = host.order, !.call = verb]
<1>1. /\ Send(h, verb, n, 0) /\ drive' = drive /\ host.stage = "open" /\ (n > 0 => Fault)
      /\ seen' = IF n > 0 THEN Struck ELSE seen
      /\ host \in Hosts /\ seen \in Seens
  BY DEF Ask, Known, Typed
<1>2. CASE n = 0
  <2>1. seen' = seen
    BY <1>1, <1>2 DEF Seens
  <2> QED
    <3>1. h \in Hosts /\ h.call = verb /\ h.trains = <<>>
      BY <1>1, NoCallIs DEF Hosts, Calls
    <3> HIDE DEF h
    <3>2. Known' /\ Sent(h, verb, n, 0)
      BY <1>1, <2>1, <3>1, CallsAre, SentKnown
    <3> QED BY <1>1, <1>2, <2>1, <3>1, <3>2 DEF Sent
<1>3. CASE n > 0
  <2>1. seen' = Struck /\ Fault
    BY <1>1, <1>3
  <2>2. seen' \in Seens
    BY <1>1, <2>1, FaultCounts
  <2>3. /\ seen'.faults = seen.faults + 1 /\ seen'.reset = seen.reset /\ seen'.failed = seen.failed
        /\ seen'.lost = TRUE
    BY <1>1, <2>1, FaultCounts
  <2> QED
    <3>1. h \in Hosts /\ h.call = verb /\ h.trains = <<>>
      BY <1>1, NoCallIs DEF Hosts, Calls
    <3> HIDE DEF h
    <3>2. Known' /\ Sent(h, verb, n, 0)
      BY <1>1, <2>2, <3>1, CallsAre, SentKnown
    <3>3. /\ fw.verb = "none" /\ fw'.verb = verb /\ fw'.step = "train" /\ fw'.n = n
          /\ host'.stage = "asked" /\ host'.call = verb
      BY <3>1, <3>2 DEF Sent
    <3>4. n # 0
      BY <1>3
    <3> QED BY <1>1, <2>3, <3>2, <3>3, <3>4, Zenon
<1>4. n = 0 \/ n > 0
  OBVIOUS
<1> QED BY <1>2, <1>3, <1>4, Zenon

\* The call is over: the host goes on with nothing under way.
Closed(outcome) ==
  /\ fw' = fw /\ host'.stage = "open" /\ host'.outcome = outcome
  /\ host'.call = host.call /\ host'.trains = host.trains /\ host'.tries = host.tries
  /\ host'.asked = host.asked /\ host'.order = host.order

LEMMA ReverseIs ==
  ASSUME NEW S, NEW s \in Seq(S)
  PROVE  /\ Reverse(s) \in Seq(S) /\ Len(Reverse(s)) = Len(s)
         /\ \A i \in 1 .. Len(s) : Reverse(s)[i] = s[Len(s) - i + 1]
         /\ Reverse(Reverse(s)) = s
<1> DEFINE n == Len(s)
           r == [i \in 1 .. n |-> s[n - i + 1]]
<1>1. n \in Nat /\ \A i \in 1 .. n : n - i + 1 \in 1 .. n /\ s[i] \in S
  OBVIOUS
<1>2. r \in Seq(S) /\ Len(r) = n /\ \A i \in 1 .. n : r[i] = s[n - i + 1]
  <2> HIDE DEF n
  <2>1. r \in [1 .. n -> S]
    BY <1>1
  <2>2. r \in Seq(S)
    BY <1>1, <2>1, SeqDef
  <2>3. DOMAIN r = 1 .. n
    BY <2>1
  <2> QED BY <1>1, <2>2, <2>3, LenProperties
<1>3. Reverse(s) = r
  BY DEF Reverse
<1> DEFINE t == [i \in 1 .. Len(r) |-> r[Len(r) - i + 1]]
<1>4. Reverse(r) = t
  BY DEF Reverse
<1> HIDE DEF n, r
<1>5. t = s
  <2>1. t = [i \in 1 .. n |-> r[n - i + 1]]
    BY <1>2
  <2>2. \A i \in 1 .. n : r[n - i + 1] = s[i]
    <3> TAKE i \in 1 .. n
    <3>1. n - i + 1 \in 1 .. n /\ n - (n - i + 1) + 1 = i
      BY <1>1
    <3> QED BY <1>2, <3>1
  <2>3. s = [i \in 1 .. n |-> s[i]]
    BY DEF n
  <2> QED BY <2>1, <2>2, <2>3
<1> QED BY <1>2, <1>3, <1>4, <1>5 DEF n

\* A report is accepted, which ends what a fault has confused.
Regained ==
  /\ host.stage = "answered" /\ host.call \in Reports /\ Accepted(host.answer)
  /\ host'.stage = "open"
  /\ seen'.faults = seen.faults /\ seen'.reset = seen.reset /\ seen'.failed = seen.failed
  /\ seen'.lost = FALSE

LEMMA ConcludeKnown ==
  ASSUME Known, Conclude
  PROVE  /\ Known' /\ drive' = drive /\ host.stage = "answered" /\ host.trains = <<>>
         /\ fw.verb = "none" /\ (seen' = seen \/ Regained)
         /\ \/ /\ host.call \notin Reports
               /\ \/ Closed("okay") /\ (host.call = "wait" => host.answer.ack)
                  \/ Closed("timedOut")
            \/ /\ host.call \in Reports /\ Accepted(host.answer) /\ Closed("okay")
               /\ Value(host'.value, host'.order) = host.answer.bits
            \/ /\ host.call \in Reports /\ ~Accepted(host.answer) /\ host.tries > 1
               /\ fw'.verb = "pulses" /\ fw'.step = "train" /\ fw'.n = Cmds[host.call].code
               /\ host'.stage = "asked" /\ host'.call = host.call /\ host'.tries = host.tries - 1
               /\ host'.asked = host.asked
            \/ host.call \in Reports /\ ~Accepted(host.answer) /\ host.tries <= 1 /\ Closed("error")
<1>1. /\ host.stage = "answered" /\ host.trains = <<>> /\ drive' = drive
      /\ host \in Hosts /\ fw.verb = "none" /\ fw \in Fws /\ host.answer \in Replies
      /\ host.tries \in Nat /\ seen \in Seens
  BY DEF Conclude, Known, Typed, VerbOfCall, Hosts
<1>2. ASSUME NEW o \in {"okay", "timedOut", "error"}, NEW x \in Seq(Samples), fw' = fw,
             seen' \in Seens,
             host' = [Done(host, o) EXCEPT !.value = x]
      PROVE  Known' /\ Closed(o) /\ host'.value = x
  <2>1. host' = [host EXCEPT !.stage = "open", !.outcome = o, !.answer = NoAnswer, !.value = x]
    BY <1>1, <1>2 DEF Done, Hosts
  <2>2. /\ host' \in Hosts /\ host'.value = x
        /\ host'.stage = "open" /\ host'.outcome = o
        /\ host'.call = host.call /\ host'.trains = host.trains /\ host'.tries = host.tries
        /\ host'.asked = host.asked /\ host'.order = host.order
    BY <1>1, <2>1 DEF Hosts
  <2>3. Typed' /\ StepOfVerb'
    BY <1>1, <1>2, <2>2 DEF Known, Typed, StepOfVerb
  <2>4. VerbOfCall'
    BY <1>1, <1>2, <2>2 DEF Known, VerbOfCall
  <2> QED BY <1>2, <2>2, <2>3, <2>4 DEF Known, Closed
<1>3. ASSUME NEW o \in {"okay", "timedOut", "error"}, fw' = fw, host' = Done(host, o), seen' = seen
      PROVE  Known' /\ Closed(o)
  <2>1. host.value \in Seq(Samples) /\ host' = [Done(host, o) EXCEPT !.value = host.value]
    BY <1>1, <1>3 DEF Done, Hosts
  <2> QED BY <1>1, <1>2, <1>3, <2>1
<1>4. CASE host.call \notin Reports
  <2>1. CASE host.call = "wait" /\ ~host.answer.ack
    BY <1>1, <1>3, <1>4, <2>1 DEF Conclude
  <2>2. CASE ~(host.call = "wait" /\ ~host.answer.ack)
    BY <1>1, <1>3, <1>4, <2>2 DEF Conclude
  <2> QED BY <2>1, <2>2
<1>5. CASE host.call \in Reports /\ Accepted(host.answer)
  <2> DEFINE x == Value(host.answer.bits, host.order)
  <2>1. host.answer.bits \in Seq(Samples) /\ host.order \in {"lsb", "msb"}
    BY <1>1 DEF Replies, Hosts
  <2>2. x \in Seq(Samples) /\ Value(x, host.order) = host.answer.bits
    BY <2>1, ReverseIs DEF Value
  <2>3. /\ host' = [Done(host, "okay") EXCEPT !.value = x] /\ fw' = fw
        /\ seen' = [seen EXCEPT !.lost = FALSE]
    BY <1>5 DEF Conclude, Good
  <2> HIDE DEF x
  <2>5. /\ seen' \in Seens /\ seen'.faults = seen.faults /\ seen'.reset = seen.reset
        /\ seen'.failed = seen.failed /\ seen'.lost = FALSE
    BY <1>1, <2>3 DEF Seens
  <2>4. Known' /\ Closed("okay") /\ host'.value = x
    BY <1>2, <2>2, <2>3, <2>5
  <2>6. Regained
    BY <1>1, <1>5, <2>4, <2>5 DEF Closed, Regained
  <2> QED BY <1>1, <1>5, <2>2, <2>4, <2>6 DEF Closed
<1>6. CASE host.call \in Reports /\ ~Accepted(host.answer) /\ host.tries > 1
  <2> DEFINE c == host.call
             h == [host EXCEPT !.tries = @ - 1]
  <2>1. Send(h, "pulses", Cmds[c].code, Width(c)) /\ seen' = seen
    BY <1>6 DEF Conclude, Good, AskAgain, AsksAgain
  <2>2. host.tries - 1 \in Nat
    BY <1>1, <1>6
  <2>3. /\ h \in Hosts /\ h.call = c /\ h.trains = <<>> /\ h.tries = host.tries - 1
        /\ h.asked = host.asked
    BY <1>1, <2>2 DEF Hosts
  <2>4. Cmds[c].code \in Int /\ Width(c) \in Nat /\ c \in Names /\ seen' \in Seens
    BY <1>1, <1>6, <2>1, CallsAre, CodesDiffer, WidthIs DEF Known, Typed
  <2>5. host.asked[1] = c
    BY <2>4 DEF Known, VerbOfCall
  <2> HIDE DEF h
  <2>6. Known' /\ Sent(h, "pulses", Cmds[c].code, Width(c))
    BY <1>1, <1>6, <2>1, <2>3, <2>4, <2>5, SentKnown
  <2>7. /\ fw'.verb = "pulses" /\ fw'.step = "train" /\ fw'.n = Cmds[c].code
        /\ host'.stage = "asked" /\ host'.call = c /\ host'.tries = host.tries - 1
        /\ host'.asked = host.asked
    BY <2>3, <2>6 DEF Sent
  <2> QED BY <1>1, <1>6, <2>1, <2>6, <2>7
<1>7. CASE host.call \in Reports /\ ~Accepted(host.answer) /\ host.tries <= 1
  <2>1. host' = Done(host, "error") /\ fw' = fw /\ seen' = seen
    BY <1>1, <1>7 DEF Conclude, Good, AskAgain, AsksAgain
  <2> QED BY <1>1, <1>3, <1>7, <2>1
<1> QED BY <1>1, <1>4, <1>5, <1>6, <1>7

LEMMA LinkFailsKnown ==
  ASSUME Known, LinkFails
  PROVE  /\ Known' /\ drive' = drive /\ fw' = fw /\ host.stage = "asked" /\ host'.stage = "open"
         /\ host'.outcome = "error" /\ host'.call = host.call
         /\ seen'.faults = seen.faults + 1 /\ seen'.reset = seen.reset /\ seen'.failed = TRUE
         /\ seen'.lost = TRUE
<1>1. /\ host.stage = "asked" /\ drive' = drive /\ fw' = fw /\ host \in Hosts /\ seen \in Seens
      /\ seen' = [Struck EXCEPT !.failed = TRUE] /\ Fault
      /\ host' = Done(host, "error")
  BY DEF LinkFails, Known, Typed
<1>2. seen' \in Seens
  BY <1>1, FaultCounts
<1>3. /\ seen'.faults = seen.faults + 1 /\ seen'.reset = seen.reset /\ seen'.failed = TRUE
      /\ seen'.lost = TRUE
  <2>1. /\ Struck \in Seens /\ Struck.faults = seen.faults + 1 /\ Struck.reset = seen.reset
        /\ Struck.lost = TRUE
    BY <1>1, FaultCounts
  <2>2. /\ seen'.faults = Struck.faults /\ seen'.reset = Struck.reset /\ seen'.failed = TRUE
        /\ seen'.lost = Struck.lost
    BY <1>1, <2>1 DEF Seens
  <2> QED BY <2>1, <2>2
<1>4. /\ host' \in Hosts /\ host'.stage = "open" /\ host'.outcome = "error"
      /\ host'.call = host.call /\ host'.trains = host.trains /\ host'.asked = host.asked
  BY <1>1 DEF Done, Hosts
<1>5. VerbOfCall'
  BY <1>1, <1>4 DEF Known, VerbOfCall
<1>6. Known'
  BY <1>1, <1>2, <1>4, <1>5 DEF Known, Typed, StepOfVerb
<1> QED BY <1>1, <1>3, <1>4, <1>6

LEMMA Cases ==
  ASSUME Next
  PROVE  \/ CmdPulses \/ ReportAck \/ ReportBit \/ Sample \/ ReportClose \/ WaitReady
         \/ ScopeStart \/ ScopePoll \/ DriveReady \/ DriveResets
         \/ Open \/ NextTrain \/ Conclude \/ LinkFails
         \/ \E n \in Reports : \E tries \in {1, Tries} : Report(n, tries)
         \/ \E n \in Names : \E v \in Nat : Command(n, v)
         \/ \E verb \in {"wait", "scope"} : \E n \in Nat : Ask(verb, n) /\ (verb = "wait" => n = 0)
<1>1. Cmds.status.code = 6
  BY Codes
<1>2. ASSUME NEW n \in Names, NEW v \in IF Cmds[n].form \in {"none", "literal"} THEN {0} ELSE 0 .. MaxValue
      PROVE  v \in Nat
  BY Numbers
<1> QED BY <1>1, <1>2 DEF Next, Verb

LEMMA StepKnown ==
  ASSUME Known, [Next]_vars
  PROVE  Known'
<1>1. CASE UNCHANGED vars
  BY <1>1 DEF vars, Known, Typed, StepOfVerb, VerbOfCall
<1>2. CASE Next
  BY <1>2, Cases, CmdPulsesKnown, ReportAckKnown, ReportBitKnown, SampleKnown, ReportCloseKnown,
     WaitReadyKnown, ScopeKnown, DriveReadyKnown, DriveResetsKnown, OpenKnown, NextTrainKnown,
     ConcludeKnown, LinkFailsKnown, ReportKnown, CommandKnown, AskKnown
<1> QED BY <1>1, <1>2

-----------------------------------------------------------------------------
(* What is read of a report. *)

\* The bits that were read are the report's; so are they while its cues come.
Copied ==
  /\ fw.ack = TRUE
  /\ Len(drive.bits) = fw.want /\ Len(fw.bits) <= fw.want
  /\ \A i \in 1 .. Len(fw.bits) : fw.bits[i] = drive.bits[i]
BitsAgree == Copied /\ drive.cue = TRUE
\* TRK0 after a report command is the ACK of the report it opened.
AckIsOpen == fw.step = "ack" /\ drive.trk0 =>
  drive.sub = "report" /\ drive.pos = 0 /\ Len(drive.bits) = fw.want /\ drive.cue = TRUE
\* A drive that was reset leaves TRK0 alone, so that the report it cut has no Final.
Cut == drive.sub = "none" /\ drive.trk0 = FALSE /\ drive.cue = FALSE
Whole ==
  /\ fw.step = "bits" => BitsAgree /\ drive.sub = "report" /\ drive.pos = Len(fw.bits)
  /\ fw.step = "sample" =>
       /\ BitsAgree
       /\ Len(fw.bits) < fw.want => /\ drive.sub = "report" /\ drive.pos = Len(fw.bits) + 1
                                    /\ drive.trk0 = drive.bits[drive.pos]
       /\ Len(fw.bits) = fw.want => drive.sub = "none" /\ drive.trk0 = TRUE
Reading ==
  /\ fw.step \in {"bits", "sample"} => Cut \/ Whole
  /\ fw.step = "close" =>
       drive.sub = "none" /\ (fw.final = TRUE => Copied /\ Len(fw.bits) = fw.want)
\* The report that an accepted answer was read from is closed, and it is that answer.
Closing == drive.sub = "none" /\ drive.cue = FALSE
Delivered == host.call \in Reports =>
  /\ host.stage = "answered" /\ Accepted(host.answer) => host.answer.bits = drive.bits /\ Closing
  /\ host.stage = "open" /\ host.outcome = "okay" =>
       Value(host.value, host.order) = drive.bits /\ Closing
\* A report is cut by a reset only, which is a fault.
Uncut == (~seen.reset \/ ~seen.lost) /\ fw.step \in {"bits", "sample"} => drive.cue = TRUE
ReportInv == AckIsOpen /\ Reading /\ Delivered /\ Uncut

\* A report whose cues come is whole.
LEMMA WholeIs ==
  ASSUME ReportInv, fw.step \in {"bits", "sample"}, drive.cue = TRUE
  PROVE  Whole
BY DEF ReportInv, Reading, Cut

\* While a verb is under way nothing is delivered, and an answer without Final is none.
LEMMA NothingDelivered ==
  ASSUME Known, fw.verb # "none",
         \/ host' = host
         \/ \E f : Ended(f) /\ (f.final = FALSE \/ fw.verb # "pulses")
  PROVE  Delivered'
<1>1. host.stage # "answered" /\ ~(host.stage = "open" /\ host.outcome = "okay")
  BY DEF Known, VerbOfCall
<1>2. CASE host' = host
  BY <1>1, <1>2 DEF Delivered
<1>3. ASSUME NEW f, Ended(f), f.final = FALSE \/ fw.verb # "pulses" PROVE Delivered'
  <2>1. CASE host.stage # "asked"
    BY <1>1, <1>3, <2>1 DEF Delivered, Ended
  <2>2. CASE host.stage = "asked" /\ f.final = FALSE
    BY <1>3, <2>2 DEF Delivered, Ended, Accepted
  <2>3. CASE host.stage = "asked" /\ fw.verb # "pulses"
    BY <1>3, <2>3 DEF Delivered, Ended, Known, VerbOfCall
  <2> QED BY <1>3, <2>1, <2>2, <2>3
<1> QED BY <1>2, <1>3

\* A report command opens a report, or TRK0 stays away.
LEMMA CmdPulsesReport ==
  ASSUME Known, CmdPulses
  PROVE  ReportInv'
<1>1. /\ fw.verb = "pulses" /\ fw.step = "train" /\ fw.final = FALSE /\ fw \in Fws
      /\ DriveKnown(drive) /\ drive.sub \in Subs
  BY DEF CmdPulses, Known, Typed, StepOfVerb, DriveKnown, Drives
<1>2. CASE fw.want = 0
  <2>1. Ended(fw)
    BY <1>2, CmdPulsesKnown
  <2>2. Delivered'
    BY <1>1, <2>1, NothingDelivered
  <2> QED BY <2>1, <2>2 DEF ReportInv, AckIsOpen, Reading, Uncut, Ended
<1>3. CASE fw.want # 0
  <2>1. fw' = [fw EXCEPT !.step = "ack"] /\ host' = host /\ Pulses(fw.n)
    BY <1>3 DEF CmdPulses
  <2>2. fw'.step = "ack" /\ fw'.want = fw.want
    BY <1>1, <2>1 DEF Fws
  <2>3. PICK c \in Reports : fw.n = Cmds[c].code /\ fw.want = Width(c)
    BY <1>3 DEF Known, StepOfVerb
  <2>4. PICK v \in Seq(BOOLEAN) :
          drive' = Heard(drive, fw.n, v) /\ \A d \in Reports : fw.n = Cmds[d].code => Len(v) = Width(d)
    BY <2>1, PulsesHeard
  <2>5. Len(v) = fw.want
    BY <2>3, <2>4
  <2>6. fw.n # NextBit /\ fw.n # SoftReset /\ fw.n \in Int
    BY <2>3, CallsAre, CodesDiffer DEF NextBit, SoftReset
  <2>7. AckIsOpen'
    <3>1. CASE drive.sub = "none"
      <4>1. drive'.sub = "report" /\ drive'.pos = 0 /\ drive'.bits = v /\ drive'.cue
        BY <1>1, <2>3, <2>4, <3>1, HeardReport
      <4>2. drive'.cue = TRUE
        <5>1. DriveKnown(drive')
          BY <2>1, <2>6, PulsesKnown DEF Known
        <5> QED BY <4>1, <5>1 DEF DriveKnown, Drives
      <4> QED BY <2>2, <2>5, <4>1, <4>2 DEF AckIsOpen
    <3>2. CASE drive.sub = "report"
      <4>1. ~drive'.trk0
        BY <1>1, <2>4, <2>6, <3>2, HeardIllegal
      <4> QED BY <4>1 DEF AckIsOpen
    <3>3. CASE drive.sub = "arg"
      <4>1. ~drive'.trk0
        BY <1>1, <2>4, <2>6, <3>3, HeardArgument
      <4> QED BY <4>1 DEF AckIsOpen
    <3> QED BY <1>1, <3>1, <3>2, <3>3 DEF Subs
  <2>8. Delivered'
    BY <1>1, <2>1, NothingDelivered
  <2> QED BY <2>2, <2>7, <2>8 DEF ReportInv, Reading, Uncut
<1> QED BY <1>2, <1>3

LEMMA ReportAckReport ==
  ASSUME Known, ReportInv, ReportAck
  PROVE  ReportInv'
<1>1. drive' = drive /\ (AckSeen \/ AckLate) /\ fw.step = "ack" /\ fw.verb # "none"
  BY ReportAckKnown DEF ReportAck, Known, StepOfVerb
<1>2. CASE AckSeen
  <2>1. drive.sub = "report" /\ drive.pos = 0 /\ Len(drive.bits) = fw.want /\ drive.cue = TRUE
    BY <1>1, <1>2 DEF AckSeen, ReportInv, AckIsOpen
  <2>2. fw.want \in Nat
    BY DEF Known, Typed, Fws
  <2>3. BitsAgree'
    BY <1>1, <1>2, <2>1, <2>2 DEF AckSeen, BitsAgree, Copied
  <2>4. Delivered'
    BY <1>1, <1>2, NothingDelivered DEF AckSeen
  <2>5. Whole'
    BY <1>1, <1>2, <2>1, <2>3 DEF AckSeen, Whole
  <2>6. drive'.cue = TRUE /\ fw'.step = "bits"
    BY <1>1, <1>2, <2>1 DEF AckSeen
  <2> QED BY <2>4, <2>5, <2>6 DEF ReportInv, AckIsOpen, Reading, Uncut
<1>3. CASE AckLate
  <2>1. PICK f : f.final = FALSE /\ Ended(f)
    BY <1>3 DEF AckLate
  <2>2. Delivered'
    BY <1>1, <2>1, NothingDelivered
  <2> QED BY <2>1, <2>2 DEF Ended, ReportInv, AckIsOpen, Reading, Uncut
<1> QED BY <1>1, <1>2, <1>3

LEMMA ReportBitReport ==
  ASSUME Known, ReportInv, ReportBit
  PROVE  ReportInv'
<1>1. /\ fw.step = "bits" /\ fw.verb # "none" /\ host' = host /\ seen' = seen
      /\ fw'.step = "sample" /\ fw'.bits = fw.bits /\ fw'.ack = fw.ack /\ fw'.want = fw.want
  BY ReportBitKnown DEF ReportBit, Known, StepOfVerb
<1>2. /\ DriveKnown(drive) /\ drive.bits \in Seq(BOOLEAN) /\ drive.pos \in Nat
      /\ fw.bits \in Seq(Samples) /\ fw.want \in Nat
  BY DEF Known, Typed, DriveKnown, Drives, Fws
<1>3. PICK v : drive' = Heard(drive, NextBit, v)
  BY PulsesHeard DEF ReportBit
<1>4. DriveKnown(drive')
  BY ReportBitKnown DEF Known, Typed
<1>5. ASSUME Whole PROVE Whole' /\ drive'.cue = TRUE
  <2>1. BitsAgree /\ drive.sub = "report" /\ drive.pos = Len(fw.bits)
    BY <1>1, <1>5 DEF Whole
  <2>2. CASE drive.pos < Len(drive.bits)
    <3>1. /\ drive'.sub = "report" /\ drive'.pos = drive.pos + 1
          /\ drive'.trk0 = drive.bits[drive.pos + 1] /\ drive'.cue = drive.cue /\ drive'.bits = drive.bits
      BY <1>2, <1>3, <2>1, <2>2, HeardNextBit
    <3>2. BitsAgree'
      BY <1>1, <2>1, <3>1 DEF BitsAgree, Copied
    <3>3. Len(fw.bits) < fw.want
      BY <2>1, <2>2 DEF BitsAgree, Copied
    <3> QED BY <1>1, <1>2, <2>1, <3>1, <3>2, <3>3 DEF Whole, BitsAgree
  <2>3. CASE drive.pos >= Len(drive.bits)
    <3>1. drive'.sub = "none" /\ drive'.trk0 /\ drive'.cue = drive.cue /\ drive'.bits = drive.bits
      BY <1>2, <1>3, <2>1, <2>3, HeardFinal
    <3>2. BitsAgree'
      BY <1>1, <2>1, <3>1 DEF BitsAgree, Copied
    <3>3. ~(Len(fw.bits) < fw.want)
      BY <1>2, <2>1, <2>3 DEF BitsAgree, Copied
    <3>4. drive'.trk0 = TRUE
      BY <1>4, <3>1 DEF DriveKnown, Drives
    <3>5. fw'.step = "sample" /\ fw'.bits = fw.bits /\ fw'.want = fw.want
      BY <1>1
    <3>6. drive'.sub = "none"
      BY <3>1
    <3>7. Whole'
      BY <3>2, <3>3, <3>4, <3>5, <3>6 DEF Whole
    <3> QED BY <3>2, <3>7 DEF BitsAgree
  <2>4. drive.pos < Len(drive.bits) \/ drive.pos >= Len(drive.bits)
    BY <1>2
  <2> QED BY <2>2, <2>3, <2>4, Zenon
<1>7. ASSUME Cut PROVE Cut'
  <2>1. NextBit # SoftReset /\ \A c \in Names : Cmds[c].code # NextBit
    BY CodesDiffer DEF NextBit, SoftReset
  <2>2. drive'.sub = "none" /\ ~drive'.trk0 /\ ~drive'.cue
    BY <1>2, <1>3, <1>7, <2>1, HeardNothing DEF Cut
  <2> QED BY <1>4, <2>2 DEF Cut, DriveKnown, Drives
<1>6. Delivered'
  BY <1>1, NothingDelivered
<1>8. Reading'
  BY <1>1, <1>5, <1>7 DEF ReportInv, Reading
<1>9. Uncut'
  <2>1. CASE ~seen.reset \/ ~seen.lost
    <3>1. drive.cue = TRUE
      BY <1>1, <2>1 DEF ReportInv, Uncut
    <3>2. Whole
      BY <1>1, <3>1, WholeIs
    <3> QED BY <1>5, <3>2 DEF Uncut
  <2>2. CASE seen.reset /\ seen.lost
    BY <1>1, <2>2 DEF Uncut
  <2> QED BY <2>1, <2>2
<1> QED BY <1>1, <1>6, <1>8, <1>9 DEF ReportInv, AckIsOpen

LEMMA SampleReport ==
  ASSUME Known, ReportInv, Sample
  PROVE  ReportInv'
<1>1. /\ drive' = drive /\ (BitRead \/ FinalRead \/ BitMissed \/ FinalMissed)
      /\ fw.step = "sample" /\ fw.verb # "none"
  BY SampleKnown DEF Sample, Known, StepOfVerb
<1>2. fw.bits \in Seq(Samples) /\ fw.want \in Nat /\ drive.trk0 \in Samples
  BY SamplesAre DEF Known, Typed, Fws, DriveKnown, Drives
<1>3. CASE BitRead
  <2>1. Delivered'
    BY <1>1, <1>3, NothingDelivered DEF BitRead, Kept
  <2>2. ASSUME Whole PROVE Whole'
    <3>1. BitsAgree /\ Len(fw.bits) < fw.want
      BY <1>1, <1>3, <2>2 DEF Whole, BitRead, NextIsBit
    <3>2. drive.sub = "report" /\ drive.pos = Len(fw.bits) + 1 /\ drive.trk0 = drive.bits[drive.pos]
      BY <1>1, <2>2, <3>1 DEF Whole
    <3>3. /\ fw'.bits = Append(fw.bits, drive.trk0) /\ fw'.step = "bits" /\ fw'.want = fw.want
          /\ fw'.ack = fw.ack
      BY <1>3 DEF BitRead, Kept
    <3>4. Len(fw'.bits) = Len(fw.bits) + 1 /\ \A i \in 1 .. Len(fw'.bits) :
             fw'.bits[i] = IF i <= Len(fw.bits) THEN fw.bits[i] ELSE drive.trk0
      BY <1>2, <3>3
    <3>5. \A i \in 1 .. Len(fw'.bits) : fw'.bits[i] = drive.bits[i]
      <4> TAKE i \in 1 .. Len(fw'.bits)
      <4>1. CASE i <= Len(fw.bits)
        BY <1>2, <3>1, <3>4, <4>1 DEF BitsAgree, Copied
      <4>2. CASE i = Len(fw.bits) + 1
        <5>1. fw'.bits[i] = drive.trk0
          BY <1>2, <3>4, <4>2
        <5> QED BY <3>2, <4>2, <5>1
      <4> QED BY <1>2, <3>4, <4>1, <4>2
    <3>6. BitsAgree'
      BY <1>1, <1>2, <3>1, <3>3, <3>4, <3>5 DEF BitsAgree, Copied
    <3> QED BY <1>1, <3>2, <3>3, <3>4, <3>6 DEF Whole
  <2>3. fw'.step = "bits" /\ seen' = seen /\ (Cut => Cut')
    BY <1>1, <1>3 DEF BitRead, Cut
  <2>4. Reading'
    BY <1>1, <2>2, <2>3 DEF ReportInv, Reading
  <2>5. Uncut'
    BY <1>1, <2>3 DEF ReportInv, Uncut
  <2> QED BY <2>1, <2>3, <2>4, <2>5 DEF ReportInv, AckIsOpen
<1>4. CASE FinalRead \/ FinalMissed
  <2>1. /\ fw'.step = "close" /\ fw'.bits = fw.bits /\ fw'.ack = fw.ack /\ fw'.want = fw.want
        /\ host' = host /\ ~NextIsBit
    BY <1>4 DEF FinalRead, FinalMissed, Kept
  <2>3. Delivered'
    BY <1>1, <2>1, NothingDelivered
  <2>2. drive.sub = "none"
    <3>1. CASE Cut
      BY <3>1 DEF Cut
    <3>2. CASE Whole
      <4>1. Len(fw.bits) = fw.want
        BY <1>1, <1>2, <2>1, <3>2 DEF Whole, NextIsBit, BitsAgree, Copied
      <4> QED BY <1>1, <3>2, <4>1 DEF Whole
    <3> QED BY <1>1, <3>1, <3>2 DEF ReportInv, Reading
  <2>4. ASSUME fw'.final = TRUE PROVE Copied' /\ Len(fw'.bits) = fw'.want
    <3>1. drive.trk0 = TRUE
      BY <1>4, <2>4 DEF FinalRead, FinalMissed
    <3>2. Whole
      BY <1>1, <3>1 DEF ReportInv, Reading, Cut
    <3>3. Copied /\ Len(fw.bits) = fw.want
      BY <1>1, <1>2, <2>1, <3>2 DEF Whole, NextIsBit, BitsAgree, Copied
    <3> QED BY <1>1, <2>1, <3>3 DEF Copied
  <2> QED BY <1>1, <2>1, <2>2, <2>3, <2>4 DEF ReportInv, AckIsOpen, Reading, Uncut
<1>5. CASE BitMissed
  <2>1. PICK f : f.final = FALSE /\ Ended(f)
    BY <1>5 DEF BitMissed
  <2>2. Delivered'
    BY <1>1, <2>1, NothingDelivered
  <2> QED BY <2>1, <2>2 DEF Ended, ReportInv, AckIsOpen, Reading, Uncut
<1> QED BY <1>1, <1>3, <1>4, <1>5

\* The train that closes the report leaves its value, and that is what was read.
LEMMA ReportCloseReport ==
  ASSUME Known, ReportInv, ReportClose
  PROVE  ReportInv'
<1>1. Ended(fw) /\ Pulses(NextBit) /\ seen' = seen /\ fw.step = "close" /\ fw.verb # "none"
  BY ReportCloseKnown DEF ReportClose, Known, StepOfVerb
<1>2. /\ DriveKnown(drive) /\ drive.bits \in Seq(BOOLEAN) /\ fw.bits \in Seq(Samples)
  BY DEF Known, Typed, DriveKnown, Drives, Fws
<1>3. PICK v : drive' = Heard(drive, NextBit, v)
  BY <1>1, PulsesHeard
<1>4. drive.sub = "none" /\ (fw.final = TRUE => Copied /\ Len(fw.bits) = fw.want)
  BY <1>1 DEF ReportInv, Reading
<1>5. DriveKnown(drive') /\ fw.final \in BOOLEAN
  BY ReportCloseKnown DEF Known, Typed, Fws
<1>6. drive'.bits = drive.bits /\ drive'.sub = "none" /\ drive'.cue = FALSE
  <2>1. NextBit # SoftReset /\ \A c \in Names : Cmds[c].code # NextBit
    BY CodesDiffer DEF NextBit, SoftReset
  <2>2. drive'.bits = drive.bits /\ drive'.sub = "none" /\ ~drive'.cue
    BY <1>2, <1>3, <1>4, <2>1, HeardNothing
  <2> QED BY <1>5, <2>2 DEF DriveKnown, Drives
<1>7. Delivered'
  <2>1. CASE host.stage = "asked" /\ fw.final = TRUE
    <3>1. drive.bits \in Seq(Samples)
      BY <1>2, SamplesAre
    <3>2. fw.bits = drive.bits
      BY <1>2, <1>4, <2>1, <3>1, SeqEqual DEF Copied
    <3> QED BY <1>1, <1>6, <2>1, <3>2 DEF Delivered, Closing, Ended
  <2>2. CASE fw.final = FALSE
    BY <1>1, <2>2, NothingDelivered
  <2>3. CASE host.stage # "asked"
    <3>1. host' = host
      BY <1>1, <2>3 DEF Ended
    <3> QED BY <1>1, <3>1, NothingDelivered
  <2> QED BY <1>5, <2>1, <2>2, <2>3
<1> QED BY <1>1, <1>7 DEF Ended, ReportInv, AckIsOpen, Reading, Uncut

LEMMA VerbReport ==
  ASSUME Known, ReportInv, WaitReady \/ ScopeStart \/ ScopePoll
  PROVE  ReportInv'
<1>1. fw.verb \in {"wait", "scope"}
  BY ScopeKnown DEF WaitReady
<1>2. (host' = host /\ fw'.step = "poll") \/ (\E f : Ended(f))
  BY WaitReadyKnown, ScopeKnown DEF Kept
<1>3. fw'.step \in {"none", "poll"}
  BY <1>2 DEF Ended
<1>4. Delivered'
  BY <1>1, <1>2, NothingDelivered
<1> QED BY <1>3, <1>4 DEF ReportInv, AckIsOpen, Reading, Uncut

LEMMA ReportStep ==
  ASSUME Known, ReportInv, [Next]_vars
  PROVE  ReportInv'
<1>1. CASE UNCHANGED vars
  BY <1>1 DEF vars, ReportInv, AckIsOpen, Reading, Cut, Whole, BitsAgree, Copied, Delivered, Closing, Uncut
<1>2. CASE CmdPulses
  BY <1>2, CmdPulsesReport
<1>3. CASE ReportAck
  BY <1>3, ReportAckReport
<1>4. CASE ReportBit
  BY <1>4, ReportBitReport
<1>5. CASE Sample
  BY <1>5, SampleReport
<1>6. CASE ReportClose
  BY <1>6, ReportCloseReport
<1>7. CASE WaitReady \/ ScopeStart \/ ScopePoll
  BY <1>7, VerbReport
<1>8. CASE DriveReady
  <2>1. /\ fw' = fw /\ host' = host /\ seen' = seen
        /\ drive'.sub = drive.sub /\ drive'.bits = drive.bits /\ drive'.pos = drive.pos
        /\ drive'.trk0 = drive.trk0 /\ drive'.cue = drive.cue
    BY <1>8, DriveReadyKnown
  <2>2. AckIsOpen'
    BY <2>1 DEF ReportInv, AckIsOpen
  <2>3. Reading'
    BY <2>1 DEF ReportInv, Reading, Cut, Whole, BitsAgree, Copied
  <2>4. Delivered' /\ Uncut'
    BY <2>1 DEF ReportInv, Delivered, Closing, Uncut
  <2> QED BY <2>2, <2>3, <2>4 DEF ReportInv
<1>9. CASE DriveResets
  <2>1. /\ seen'.reset = TRUE /\ seen'.lost = TRUE /\ drive' = Reset(drive)
        /\ fw' = fw /\ host' = host /\ DriveKnown(drive)
    BY <1>9, DriveResetsKnown DEF Known, Typed
  <2>2. /\ drive'.bits = drive.bits /\ drive'.sub = "none"
        /\ drive'.trk0 = FALSE /\ drive'.cue = FALSE
    BY <2>1, ResetIs
  <2>3. Reading'
    BY <2>1, <2>2 DEF ReportInv, Reading, Cut, Copied
  <2>4. Delivered'
    BY <2>1, <2>2 DEF ReportInv, Delivered, Closing
  <2> QED BY <2>1, <2>2, <2>3, <2>4 DEF ReportInv, AckIsOpen, Uncut
<1>10. CASE Open
  <2>1. fw'.step = "none" /\ host'.call = "none"
    BY <1>10, OpenKnown
  <2> QED BY <2>1, CallsAre DEF ReportInv, AckIsOpen, Reading, Delivered, Uncut
<1>11. CASE fw'.step = "train" /\ host'.stage = "asked"
  BY <1>11 DEF ReportInv, AckIsOpen, Reading, Delivered, Uncut
<1>12. CASE Conclude
  <2>1. CASE fw'.step = "train" /\ host'.stage = "asked"
    BY <2>1, <1>11
  <2>2. CASE host'.stage # "asked"
    <3>1. fw' = fw /\ drive' = drive /\ fw.step = "none" /\ host.stage = "answered"
      BY <1>12, <2>2, ConcludeKnown DEF Closed, Known, StepOfVerb
    <3>2. Delivered'
      <4>1. CASE host.call \notin Reports
        BY <1>12, <4>1, ConcludeKnown DEF Closed, Delivered
      <4>2. CASE host.call \in Reports /\ Accepted(host.answer)
        BY <1>12, <3>1, <4>2, ConcludeKnown DEF Closed, ReportInv, Delivered, Closing
      <4>3. CASE host.call \in Reports /\ ~Accepted(host.answer)
        BY <1>12, <2>2, <4>3, ConcludeKnown DEF Closed, Delivered
      <4> QED BY <4>1, <4>2, <4>3
    <3> QED BY <3>1, <3>2 DEF ReportInv, AckIsOpen, Reading, Uncut
  <2> QED BY <1>12, <2>1, <2>2, ConcludeKnown DEF Closed
<1>13. CASE LinkFails
  <2>1. /\ drive' = drive /\ fw' = fw /\ seen'.reset = seen.reset
        /\ host'.stage = "open" /\ host'.outcome = "error" /\ seen'.lost = TRUE
    BY <1>13, LinkFailsKnown
  <2>2. Reading'
    BY <2>1 DEF ReportInv, Reading, Cut, Whole, BitsAgree, Copied
  <2> QED BY <2>1, <2>2 DEF ReportInv, AckIsOpen, Delivered, Uncut
<1>14. CASE NextTrain \/ (\E n \in Reports : \E tries \in {1, Tries} : Report(n, tries))
            \/ (\E n \in Names : \E v \in Nat : Command(n, v))
            \/ (\E verb \in {"wait", "scope"} : \E n \in Nat : Ask(verb, n))
  BY <1>11, <1>14, NextTrainKnown, ReportKnown, CommandKnown, AskKnown
<1> QED BY <1>1, <1>2, <1>3, <1>4, <1>5, <1>6, <1>7, <1>8, <1>9, <1>10, <1>12, <1>13, <1>14, Cases

-----------------------------------------------------------------------------
(* Host, board and drive are in step, from the start or an accepted report to a fault. *)

\* Between two verbs no report is open, and a report that was asked for is there.
Clear ==
  /\ host.stage \in {"closed", "refused", "open"} => fw.verb = "none" /\ drive.sub = "none"
  /\ fw.step \in {"none", "train", "poll"} => drive.cue = FALSE
  /\ fw.step \in {"none", "train", "poll"} /\ host.call \notin Names \ Reports => drive.sub = "none"
  /\ fw.verb = "scope" => fw.n = 0
  /\ fw.step = "ack" => drive.trk0
  /\ fw.step = "close" => fw.final
  /\ host.call = "wait" /\ host.stage = "answered" /\ host.answer.ack => drive.ready
  /\ host.call = "wait" /\ host.stage = "open" /\ host.outcome = "okay" => drive.ready

\* Of the trains T, s holds what comes after the first k; s is the first of them.
Left(s, T, k) == Len(s) = Len(T) - k /\ \A i \in 1 .. Len(s) : s[i] = T[k + i]
Got(s, T)     == Len(s) < Len(T) /\ \A i \in 1 .. Len(s) : s[i] = T[i]

\* The drive has the first trains of the command, and the others are to come; or it
\* has executed the command with all of them.
Collecting(T) == drive.sub = "arg" /\ drive.cmd = host.call /\ Got(drive.args, T)
Did(T)        == drive.sub = "none" /\ drive.did = <<host.call, T>>
Doing(T) ==
  /\ host.stage = "asked" =>
       \/ drive.sub = "none" /\ fw.n = Cmds[host.call].code /\ Left(host.trains, T, 0)
       \/ /\ Collecting(T) /\ fw.n = T[Len(drive.args) + 1]
          /\ Left(host.trains, T, Len(drive.args) + 1)
  /\ host.stage = "answered" =>
       \/ Collecting(T) /\ Left(host.trains, T, Len(drive.args))
       \/ Did(T) /\ host.trains = <<>>
  /\ host.stage = "open" /\ host.outcome = "okay" => Did(T)
Arriving == host.call \in Names \ Reports =>
  \E T \in Trains(Cmds[host.call].form, host.asked[2]) : Doing(T)

InStep == (seen.faults = 0 => ~seen.lost) /\ (~seen.lost => Clear /\ Arriving)

LEMMA AskedIs ==
  ASSUME Known, host.call \in Names
  PROVE  host.asked = <<host.call, host.asked[2]>> /\ host.asked[2] \in Nat
<1>1. host.asked[1] = host.call /\ host.asked \in {NoneAsked} \cup (Names \X Nat)
  BY DEF Known, Typed, VerbOfCall, Hosts
<1>2. host.asked # NoneAsked
  BY <1>1, CallsAre DEF NoneAsked
<1> QED BY <1>1, <1>2

\* The next train of a command is heard.
LEMMA TrainArrives ==
  ASSUME Known, CmdPulses, fw.want = 0, host.stage = "asked", host.call \in Names \ Reports, Arriving
  PROVE  Arriving' /\ drive'.cue = FALSE
<1> DEFINE c == host.call
<1>1. PICK T \in Trains(Cmds[c].form, host.asked[2]) : Doing(T)
  BY DEF Arriving
<1>2. /\ T \in Seq(Int) /\ Len(T) = Wanted(c) /\ Len(T) \in Nat
      /\ \A i \in 1 .. Len(T) : T[i] \in Int /\ T[i] # SoftReset
  BY AskedIs, TrainsAre DEF SoftReset
<1>3. /\ Ended(fw) /\ fw \in Fws /\ DriveKnown(drive) /\ host.trains \in Seq(Int)
      /\ DriveKnown(drive')
  BY CmdPulsesKnown DEF Known, Typed, Hosts
<1>4. PICK v \in Seq(BOOLEAN) : drive' = Heard(drive, fw.n, v)
  BY PulsesHeard DEF CmdPulses
<1>5. host'.stage = "answered" /\ host'.call = c /\ host'.trains = host.trains /\ host'.asked = host.asked
  BY <1>3 DEF Ended
<1>6. (\/ Collecting(T) /\ Left(host.trains, T, Len(drive.args))
       \/ Did(T) /\ host.trains = <<>>)' /\ ~drive'.cue
  <2>1. CASE drive.sub = "none" /\ fw.n = Cmds[c].code /\ Left(host.trains, T, 0)
    <3>1. /\ ~drive'.cue
          /\ IF Wanted(c) > 0 THEN drive'.sub = "arg" /\ drive'.cmd = c /\ drive'.args = <<>>
             ELSE drive'.sub = "none" /\ drive'.did = <<c, <<>>>>
      <4>1. drive' = Heard(drive, Cmds[c].code, v)
        BY <1>4, <2>1
      <4>2. c \in Names \ Reports /\ DriveKnown(drive) /\ drive.sub = "none"
        BY <1>3, <2>1
      <4> HIDE DEF c
      <4>3. LET e == Heard(drive, Cmds[c].code, v)
            IN  /\ ~e.cue
                /\ IF Wanted(c) > 0 THEN e.sub = "arg" /\ e.cmd = c /\ e.args = <<>>
                   ELSE e.sub = "none" /\ e.did = <<c, <<>>>>
        BY <4>2, HeardCommand
      <4> QED BY <4>1, <4>3, Zenon
    <3>2. CASE Wanted(c) > 0
      BY <1>2, <1>5, <2>1, <3>1, <3>2 DEF Collecting, Got, Left
    <3>3. CASE ~(Wanted(c) > 0)
      <4>1. T = <<>> /\ host.trains = <<>>
        BY <1>2, <1>3, <2>1, <3>3, EmptySeq DEF Left
      <4> QED BY <1>5, <3>1, <3>3, <4>1 DEF Did
    <3> QED BY <3>1, <3>2, <3>3
  <2>2. CASE /\ Collecting(T) /\ fw.n = T[Len(drive.args) + 1]
             /\ Left(host.trains, T, Len(drive.args) + 1)
    <3> DEFINE k == Len(drive.args)
               args == Append(drive.args, fw.n)
    <3>1. /\ drive.args \in Seq(Int) /\ k \in Nat /\ k < Len(T) /\ drive.sub = "arg" /\ drive.cmd = c
          /\ fw.n = T[k + 1]
      BY <1>3, <2>2 DEF DriveKnown, Drives, Collecting, Got
    <3>2. fw.n \in Int /\ fw.n # SoftReset
      <4>1. k + 1 \in 1 .. Len(T)
        BY <1>2, <3>1
      <4> QED BY <1>2, <3>1, <4>1
    <3>3. /\ ~drive'.cue
          /\ IF Len(args) < Wanted(c) THEN drive'.sub = "arg" /\ drive'.cmd = c /\ drive'.args = args
             ELSE drive'.sub = "none" /\ drive'.did = <<c, args>>
      BY <1>3, <1>4, <3>1, <3>2, HeardArgument
    <3>4. args \in Seq(Int) /\ Len(args) = k + 1 /\ \A i \in 1 .. k + 1 : args[i] = T[i]
      <4>1. args \in Seq(Int) /\ Len(args) = k + 1
        BY <3>1, <3>2
      <4>2. \A i \in 1 .. k + 1 : args[i] = IF i <= k THEN drive.args[i] ELSE fw.n
        BY <3>1, <3>2
      <4>3. \A i \in 1 .. k : drive.args[i] = T[i]
        BY <2>2 DEF Collecting, Got
      <4> HIDE DEF args
      <4>4. \A i \in 1 .. k + 1 : args[i] = T[i]
        BY <3>1, <4>2, <4>3
      <4> QED BY <4>1, <4>4
    <3>5. /\ Len(host.trains) = Len(T) - (k + 1)
          /\ \A i \in 1 .. Len(host.trains) : host.trains[i] = T[k + 1 + i]
      BY <2>2 DEF Left
    <3> HIDE DEF args, k
    <3>6. CASE Len(args) < Wanted(c)
      <4>1. drive'.sub = "arg" /\ drive'.cmd = c /\ drive'.args = args /\ ~drive'.cue
        BY <3>3, <3>6
      <4>2. Collecting(T)'
        BY <1>2, <1>5, <3>4, <3>6, <4>1 DEF Collecting, Got
      <4>3. Left(host.trains, T, Len(drive.args))'
        BY <1>5, <3>4, <3>5, <4>1 DEF Left
      <4> QED BY <4>1, <4>2, <4>3
    <3>7. CASE ~(Len(args) < Wanted(c))
      <4>1. Len(T) = k + 1
        BY <1>2, <3>1, <3>4, <3>7
      <4>2. args = T
        BY <1>2, <3>4, <4>1, SeqEqual
      <4>3. host.trains = <<>>
        BY <1>3, <3>5, <4>1, EmptySeq
      <4> QED BY <1>5, <3>3, <3>7, <4>2, <4>3 DEF Did
    <3> QED BY <3>6, <3>7
  <2> QED BY <1>1, <2>1, <2>2 DEF Doing
<1>7. Doing(T)'
  BY <1>5, <1>6 DEF Doing
<1>8. drive'.cue = FALSE
  BY <1>3, <1>6 DEF DriveKnown, Drives
<1> QED BY <1>1, <1>5, <1>7, <1>8 DEF Arriving

\* A step that is no fault leaves the history alone, or regains the drive.
Faulted == seen'.faults = seen.faults + 1 /\ seen.faults < MaxFaults /\ seen'.lost = TRUE
LEMMA FaultsGrow ==
  ASSUME Known, [Next]_vars
  PROVE  seen' = seen \/ Faulted \/ Regained
<1>0. seen.faults \in Nat /\ seen \in Seens
  BY DEF Known, Typed, Seens
<1>1. CASE UNCHANGED vars
  BY <1>1 DEF vars
<1>2. CASE Fault /\ seen' = Struck
  BY <1>0, <1>2, FaultCounts DEF Fault, Faulted
<1>3. CASE ReportAck
  BY <1>2, <1>3 DEF ReportAck
<1>4. CASE Sample
  <2>1. CASE CueMissed
    BY <1>2, <2>1 DEF CueMissed
  <2> QED BY <1>4, <2>1, SampleKnown DEF BitRead, FinalRead, BitMissed, FinalMissed
<1>5. CASE \E verb \in {"wait", "scope"} : \E n \in Nat : Ask(verb, n)
  <2>1. PICK verb \in {"wait", "scope"}, n \in Nat : Ask(verb, n)
    BY <1>5
  <2>2. CASE n > 0
    <3>1. Fault /\ seen' = Struck
      BY <2>1, <2>2 DEF Ask
    <3> QED BY <1>2, <3>1
  <2>3. CASE ~(n > 0)
    <3>1. seen' = seen
      BY <2>1, <2>3 DEF Ask
    <3> QED BY <3>1
  <2> QED BY <2>2, <2>3
<1>6. CASE DriveResets \/ LinkFails
  <2>1. Fault
    BY <1>6 DEF DriveResets, LinkFails
  <2> QED BY <1>6, <2>1, DriveResetsKnown, LinkFailsKnown DEF Fault, Faulted
<1>8. CASE Conclude
  BY <1>8, ConcludeKnown
<1>7. CASE \/ CmdPulses \/ ReportBit \/ ReportClose \/ WaitReady \/ ScopeStart \/ ScopePoll
           \/ DriveReady \/ Open \/ NextTrain
           \/ \E n \in Reports : \E tries \in {1, Tries} : Report(n, tries)
           \/ \E n \in Names : \E v \in Nat : Command(n, v)
  BY Zenon, <1>7 DEF CmdPulses, ReportBit, ReportClose, WaitReady, ScopeStart, ScopePoll, DriveReady, Open,
     NextTrain, Report, Command
<1> QED BY <1>1, <1>3, <1>4, <1>5, <1>6, <1>7, <1>8, Cases

\* In step, a verb that is under way is the call's own.
LEMMA OwnVerb ==
  ASSUME Known, Clear, fw.verb # "none"
  PROVE  /\ host.stage = "asked"
         /\ fw.want # 0 => host.call \in Reports
         /\ fw.verb = "pulses" /\ fw.want = 0 => host.call \in Names \ Reports
         /\ fw.verb # "pulses" => host.call = fw.verb /\ host.call \notin Names
<1>1. host.stage = "asked"
  BY DEF Known, Typed, Hosts, VerbOfCall, Clear
<1>2. host.call \in Reports => fw.verb = "pulses" /\ fw.want # 0
  BY <1>1, WidthIs DEF Known, VerbOfCall
<1>3. host.call \in Names \ Reports => fw.verb = "pulses" /\ fw.want = 0
  BY <1>1 DEF Known, VerbOfCall
<1>4. host.call \notin Names => fw.verb = host.call /\ host.call \in {"wait", "scope", "none"}
  BY <1>1 DEF Known, Typed, Hosts, VerbOfCall, Calls
<1>5. fw.verb # "pulses" => fw.want = 0
  BY DEF Known, StepOfVerb
<1> QED BY <1>1, <1>2, <1>3, <1>4, <1>5, CallsAre

LEMMA CmdPulsesInStep ==
  ASSUME Known, Clear, Arriving, CmdPulses
  PROVE  Clear' /\ Arriving'
<1>1. fw.verb = "pulses" /\ fw.step = "train" /\ seen' = seen /\ fw \in Fws
  BY DEF CmdPulses, Known, Typed
<1>2. CASE fw.want = 0
  <2>1. host.stage = "asked" /\ host.call \in Names \ Reports
    BY <1>1, <1>2, OwnVerb
  <2>2. Arriving' /\ drive'.cue = FALSE /\ Ended(fw)
    BY <1>2, <2>1, TrainArrives, CmdPulsesKnown
  <2>3. /\ fw'.step = "none" /\ fw'.verb = "none" /\ host'.stage = "answered" /\ host'.call = host.call
    BY <2>1, <2>2 DEF Ended
  <2> QED BY <1>1, <2>1, <2>2, <2>3, CallsAre DEF Clear
<1>3. CASE fw.want # 0
  <2>1. host.stage = "asked" /\ host.call \in Reports /\ fw.n = Cmds[host.call].code
    BY <1>1, <1>3, OwnVerb DEF Known, VerbOfCall
  <2>2. drive.sub = "none" /\ DriveKnown(drive)
    BY <1>1, <2>1 DEF Clear, Known, Typed
  <2>3. PICK v \in Seq(BOOLEAN) : drive' = Heard(drive, fw.n, v)
    BY PulsesHeard DEF CmdPulses
  <2>4. drive'.trk0
    BY <2>1, <2>2, <2>3, HeardReport
  <2>5. fw' = [fw EXCEPT !.step = "ack"] /\ host' = host
    BY <1>3 DEF CmdPulses
  <2>6. fw'.step = "ack" /\ fw'.verb = "pulses"
    BY <1>1, <2>5 DEF Fws
  <2> QED BY <1>1, <2>1, <2>4, <2>5, <2>6, CallsAre DEF Clear, Arriving
<1> QED BY <1>2, <1>3

LEMMA ReportInStep ==
  ASSUME Known, ReportInv, ~seen.lost, ~seen'.lost, Clear,
         ReportAck \/ ReportBit \/ Sample \/ ReportClose
  PROVE  Clear' /\ Arriving'
<1>1. fw.verb = "pulses" /\ fw.want # 0
  BY DEF Known, StepOfVerb, ReportAck, ReportBit, Sample, ReportClose
<1>2. host.stage = "asked" /\ host.call \in Reports
  BY <1>1, OwnVerb
<1>3. seen' = seen
  BY <1>2, FaultsGrow DEF Next, Verb, Faulted, Regained
<1>4. CASE \/ host' = host /\ fw'.verb = fw.verb /\ fw'.step \in {"bits", "sample"}
           \/ host' = host /\ fw'.verb = fw.verb /\ fw'.step = "close" /\ fw'.final = TRUE
  BY <1>1, <1>2, <1>3, <1>4, CallsAre DEF Clear, Arriving
<1>5. CASE ReportAck
  <2>1. AckSeen
    <3>1. drive.trk0
      BY <1>5 DEF ReportAck, Clear
    <3>2. ~(Fault /\ seen' = Struck)
      BY FaultCounts DEF Known, Typed
    <3> QED BY <1>5, <3>1, <3>2, ReportAckKnown DEF AckLate
  <2> QED BY <1>4, <2>1 DEF AckSeen
<1>6. CASE ReportBit
  BY <1>4, <1>6, ReportBitKnown
<1>7. CASE Sample
  <2>0. fw.step = "sample" /\ fw.want \in Nat /\ Len(fw.bits) \in Nat /\ drive.cue = TRUE
    BY <1>7 DEF Sample, ReportInv, Uncut, Known, Typed, Fws
  <2>1. fw.step = "sample" /\ BitsAgree /\ fw.want \in Nat /\ Len(fw.bits) \in Nat /\ Whole
    BY <2>0, WholeIs DEF Whole
  <2>2. Index(drive)
    BY <2>1 DEF BitsAgree, Index
  <2>3. ~CueMissed
    BY <2>2, FaultCounts DEF CueMissed, Known, Typed
  <2>4. CASE BitRead
    BY <1>4, <2>4 DEF BitRead, Kept
  <2>5. CASE FinalRead
    <3>1. Len(fw.bits) = fw.want
      BY <2>1, <2>5 DEF FinalRead, NextIsBit, BitsAgree, Copied
    <3>2. drive.trk0 = TRUE
      BY <2>1, <3>1 DEF Whole
    <3> QED BY <1>4, <2>5, <3>2 DEF FinalRead, Kept
  <2> QED BY <1>7, <2>3, <2>4, <2>5, SampleKnown DEF BitMissed, FinalMissed
<1>8. CASE ReportClose
  <2>1. Ended(fw) /\ Pulses(NextBit) /\ fw.step = "close"
    BY <1>8, ReportCloseKnown DEF ReportClose
  <2>2. PICK v : drive' = Heard(drive, NextBit, v)
    BY <2>1, PulsesHeard
  <2>3. drive.sub = "none" /\ DriveKnown(drive) /\ DriveKnown(drive')
    BY <1>8, <2>1, ReportCloseKnown DEF ReportInv, Reading, Known, Typed
  <2>4. drive'.sub = "none" /\ ~drive'.cue
    <3>1. NextBit # SoftReset /\ \A c \in Names : Cmds[c].code # NextBit
      BY CodesDiffer DEF NextBit, SoftReset
    <3> QED BY <2>2, <2>3, <3>1, HeardNothing
  <2>5. drive'.cue = FALSE
    BY <2>3, <2>4 DEF DriveKnown, Drives
  <2>6. fw'.step = "none" /\ fw'.verb = "none" /\ host'.stage = "answered" /\ host'.call = host.call
    BY <1>2, <2>1 DEF Ended
  <2> QED BY <1>2, <1>3, <2>4, <2>5, <2>6, CallsAre DEF Clear, Arriving
<1> QED BY <1>5, <1>6, <1>7, <1>8

LEMMA VerbInStep ==
  ASSUME Known, Clear, WaitReady \/ ScopeStart \/ ScopePoll
  PROVE  Clear' /\ Arriving'
<1>1. /\ fw.verb \in {"wait", "scope"} /\ host.stage = "asked" /\ host.call = fw.verb
      /\ host.call \notin Names /\ seen' = seen
  BY OwnVerb, ScopeKnown DEF WaitReady
<1>2. fw.step \in {"train", "poll"}
  BY ScopeKnown DEF WaitReady, Known, StepOfVerb
<1>3. drive.cue = FALSE /\ drive.sub = "none"
  BY <1>1, <1>2 DEF Clear
<1>4. CASE WaitReady
  <2>1. PICK f : Ended(f) /\ (f.ack => Index(drive))
    BY <1>4, WaitReadyKnown
  <2>2. drive' = drive
    BY <1>4, WaitReadyKnown
  <2>3. /\ fw'.step = "none" /\ fw'.verb = "none" /\ host'.stage = "answered" /\ host'.call = host.call
        /\ host'.answer.ack = f.ack
    BY <1>1, <2>1 DEF Ended
  <2>4. f.ack => drive.ready
    BY <1>3, <2>1 DEF Index
  <2> QED BY <1>1, <1>3, <2>2, <2>3, <2>4 DEF Clear, Arriving
<1>5. CASE ScopeStart \/ ScopePoll
  <2>1. fw.verb = "scope" /\ fw.n = 0
    BY <1>5, ScopeKnown DEF Clear
  <2>2. drive' = drive
    BY <1>5, <2>1, ScopeKnown
  <2>3. CASE Kept /\ fw'.step = "poll"
    BY <1>1, <1>3, <2>1, <2>2, <2>3 DEF Kept, Clear, Arriving
  <2>4. ASSUME NEW f, Ended(f) PROVE Clear' /\ Arriving'
    <3>1. fw'.step = "none" /\ fw'.verb = "none" /\ host'.stage = "answered" /\ host'.call = host.call
      BY <1>1, <2>4 DEF Ended
    <3> QED BY <1>1, <1>3, <2>1, <2>2, <3>1 DEF Clear, Arriving
  <2> QED BY <1>5, <2>3, <2>4, ScopeKnown
<1> QED BY <1>4, <1>5

LEMMA CallInStep ==
  ASSUME Known, Clear, Arriving, ~seen'.lost,
         \/ Open \/ NextTrain \/ (\E n \in Reports : \E tries \in {1, Tries} : Report(n, tries))
         \/ (\E n \in Names : \E v \in Nat : Command(n, v))
         \/ (\E verb \in {"wait", "scope"} : \E n \in Nat : Ask(verb, n))
  PROVE  Clear' /\ Arriving'
<1>1. fw.verb = "none" => drive.cue = FALSE
  BY DEF Clear, Known, StepOfVerb
<1>2. CASE Open
  <2>1. /\ drive' = drive /\ seen' = seen /\ host.stage = "closed" /\ host'.stage \in {"open", "refused"}
        /\ fw.verb = "none" /\ fw'.verb = "none" /\ fw'.step = "none" /\ host'.call = "none"
    BY <1>2, OpenKnown
  <2> QED BY <1>1, <2>1, CallsAre DEF Clear, Arriving
<1>3. ASSUME NEW n \in Reports, NEW tries \in {1, Tries}, Report(n, tries) PROVE Clear' /\ Arriving'
  <2>1. /\ drive' = drive /\ seen' = seen /\ host.stage = "open" /\ fw.verb = "none"
        /\ fw'.verb = "pulses" /\ fw'.step = "train" /\ host'.stage = "asked" /\ host'.call = n
    BY <1>3, ReportKnown
  <2> QED BY <1>1, <2>1, CallsAre DEF Clear, Arriving
<1>4. ASSUME NEW n \in Names, NEW v \in Nat, Command(n, v) PROVE Clear' /\ Arriving'
  <2>1. /\ drive' = drive /\ seen' = seen /\ host.stage = "open" /\ fw.verb = "none" /\ n \notin Reports
        /\ fw'.verb = "pulses" /\ fw'.step = "train" /\ host'.stage = "asked" /\ host'.call = n
        /\ fw'.n = Cmds[n].code /\ host'.asked = <<n, v>>
    BY <1>4, CommandKnown
  <2>2. PICK ts \in Trains(Cmds[n].form, v) : host'.trains = ts
    BY <1>4, CommandKnown
  <2>3. drive.sub = "none"
    BY <2>1 DEF Clear
  <2>4. Left(ts, ts, 0)
    <3>1. ts \in Seq(Int)
      BY <2>1, TrainsAre
    <3> QED BY <3>1 DEF Left
  <2>5. Doing(ts)'
    BY <2>1, <2>2, <2>3, <2>4 DEF Doing
  <2>6. host'.asked[2] = v
    BY <2>1
  <2>7. Arriving'
    BY <2>1, <2>5, <2>6 DEF Arriving
  <2> QED BY <1>1, <2>1, <2>3, <2>7, CallsAre DEF Clear
<1>5. CASE NextTrain
  <2>1. /\ drive' = drive /\ seen' = seen /\ host.stage = "answered" /\ host.trains # <<>>
        /\ host.call \in Names \ Reports
        /\ fw.verb = "none" /\ fw'.verb = "pulses" /\ fw'.step = "train" /\ fw'.n = Head(host.trains)
        /\ host'.stage = "asked" /\ host'.call = host.call /\ host'.asked = host.asked
        /\ host'.trains = Tail(host.trains)
    BY <1>5, NextTrainKnown
  <2>2. PICK T \in Trains(Cmds[host.call].form, host.asked[2]) : Doing(T)
    BY <2>1 DEF Arriving
  <2>3. Collecting(T) /\ Left(host.trains, T, Len(drive.args))
    BY <2>1, <2>2 DEF Doing
  <2>4. T \in Seq(Int) /\ host.trains \in Seq(Int) /\ Len(drive.args) \in Nat
    BY <2>1, AskedIs, TrainsAre DEF Known, Typed, Hosts, DriveKnown, Drives
  <2>5. fw'.n = T[Len(drive.args) + 1]
    <3>1. 1 \in 1 .. Len(host.trains) /\ Head(host.trains) = host.trains[1]
      BY <2>1, <2>4
    <3> QED BY <2>1, <2>3, <3>1 DEF Left
  <2>6. Left(Tail(host.trains), T, Len(drive.args) + 1)
    <3> DEFINE k == Len(drive.args)
               s == host.trains
               t == Tail(s)
    <3>1. Len(t) = Len(s) - 1 /\ \A i \in 1 .. Len(t) : t[i] = s[i + 1] /\ i + 1 \in 1 .. Len(s)
      BY <2>1, <2>4
    <3>2. Len(s) = Len(T) - k /\ \A i \in 1 .. Len(s) : s[i] = T[k + i]
      BY <2>3 DEF Left
    <3>3. Len(s) \in Nat /\ Len(T) \in Nat /\ k \in Nat
      BY <2>4
    <3> HIDE DEF k, s, t
    <3>4. \A i \in 1 .. Len(t) : t[i] = T[k + 1 + i]
      <4> TAKE i \in 1 .. Len(t)
      <4>1. t[i] = T[k + (i + 1)]
        BY <3>1, <3>2
      <4>2. k + (i + 1) = k + 1 + i
        BY <3>1, <3>3
      <4> QED BY <4>1, <4>2
    <3>5. Len(t) = Len(T) - (k + 1)
      BY <3>1, <3>2, <3>3
    <3>6. Left(t, T, k + 1)
      BY <3>4, <3>5 DEF Left
    <3> QED BY <3>6 DEF k, s, t
  <2>7. Collecting(T)'
    BY <2>1, <2>3 DEF Collecting
  <2>8. Doing(T)'
    BY <2>1, <2>5, <2>6, <2>7 DEF Doing
  <2>9. Arriving'
    BY <2>1, <2>2, <2>8 DEF Arriving
  <2> QED BY <1>1, <2>1, <2>9, CallsAre DEF Clear
<1>6. ASSUME NEW verb \in {"wait", "scope"}, NEW n \in Nat, Ask(verb, n) PROVE Clear' /\ Arriving'
  <2>1. /\ drive' = drive /\ host.stage = "open" /\ fw.verb = "none" /\ fw'.verb = verb
        /\ fw'.step = "train" /\ fw'.n = n /\ host'.stage = "asked" /\ host'.call = verb
    BY <1>6, AskKnown
  <2>2. n = 0 /\ seen' = seen
    <3>1. CASE n = 0
      BY <1>6, <3>1, AskKnown
    <3>2. CASE n > 0
      BY <1>6, <3>2, AskKnown
    <3> QED BY <3>1, <3>2
  <2> QED BY <1>1, <2>1, <2>2, CallsAre DEF Clear, Arriving
<1> QED BY <1>2, <1>3, <1>4, <1>5, <1>6

LEMMA ConcludeInStep ==
  ASSUME Known, Clear, Arriving, Conclude
  PROVE  Clear' /\ Arriving'
<1>1. /\ drive' = drive /\ host.stage = "answered" /\ host.trains = <<>>
      /\ fw.verb = "none" /\ fw.step = "none" /\ drive.cue = FALSE
  BY ConcludeKnown DEF Known, StepOfVerb, Clear
<1>2. CASE host.call \in Names \ Reports
  <2>1. PICK T \in Trains(Cmds[host.call].form, host.asked[2]) : Doing(T)
    BY <1>2 DEF Arriving
  <2>2. T \in Seq(Int) /\ Len(drive.args) \in Nat
    BY <1>2, AskedIs, TrainsAre DEF Known, Typed, DriveKnown, Drives
  <2>3. ~(Collecting(T) /\ Left(host.trains, T, Len(drive.args)))
    BY <1>1, <2>2 DEF Collecting, Got, Left
  <2>4. Did(T)
    BY <1>1, <2>1, <2>3 DEF Doing
  <2>5. /\ fw' = fw /\ host'.stage = "open" /\ host'.call = host.call /\ host'.asked = host.asked
    BY <1>2, ConcludeKnown DEF Closed
  <2>6. Doing(T)'
    BY <1>1, <2>4, <2>5 DEF Doing, Did
  <2>7. Arriving'
    BY <2>1, <2>5, <2>6 DEF Arriving
  <2> QED BY <1>1, <1>2, <2>4, <2>5, <2>7, CallsAre DEF Clear, Did
<1>3. CASE host.call \notin Names
  <2>1. drive.sub = "none"
    BY <1>1, <1>3 DEF Clear
  <2>2. host.call = "wait" /\ host'.outcome = "okay" => drive.ready
    BY <1>1, <1>3, ConcludeKnown, CallsAre DEF Closed, Clear
  <2>3. fw' = fw /\ host'.stage = "open" /\ host'.call = host.call
    BY <1>3, ConcludeKnown, CallsAre DEF Closed
  <2> QED BY <1>1, <1>3, <2>1, <2>2, <2>3 DEF Clear, Arriving
<1>4. CASE host.call \in Reports
  <2>1. drive.sub = "none"
    BY <1>1, <1>4 DEF Clear
  <2>2. /\ host'.call = host.call
        /\ \/ fw' = fw /\ host'.stage = "open"
           \/ fw'.verb = "pulses" /\ fw'.step = "train" /\ host'.stage = "asked"
    BY <1>4, ConcludeKnown DEF Closed
  <2> QED BY <1>1, <1>4, <2>1, <2>2, CallsAre DEF Clear, Arriving
<1> QED BY <1>2, <1>3, <1>4

\* An accepted report puts them in step.
LEMMA RegainedInStep ==
  ASSUME Known, ReportInv, Conclude, Regained
  PROVE  Clear' /\ Arriving'
<1>1. /\ drive' = drive /\ host.stage = "answered" /\ fw.verb = "none" /\ fw.step = "none"
      /\ host.call \in Reports /\ Accepted(host.answer)
  BY ConcludeKnown DEF Known, StepOfVerb, Regained
<1>2. drive.sub = "none" /\ drive.cue = FALSE
  BY <1>1 DEF ReportInv, Delivered, Closing
<1>3. fw' = fw /\ host'.stage = "open" /\ host'.call = host.call
  BY <1>1, ConcludeKnown DEF Closed
<1> QED BY <1>1, <1>2, <1>3, CallsAre DEF Clear, Arriving

LEMMA InStepStep ==
  ASSUME Known, ReportInv, InStep, [Next]_vars
  PROVE  InStep'
<1>0. seen'.faults = 0 => ~seen'.lost
  <2>1. seen.faults \in Nat /\ seen.faults + 1 # 0
    BY DEF Known, Typed, Seens
  <2> QED BY <2>1, FaultsGrow DEF InStep, Faulted, Regained
<1> SUFFICES ASSUME ~seen'.lost
             PROVE  Clear' /\ Arriving'
  BY <1>0 DEF InStep
<1>9. CASE Regained
  <2>1. ~(\/ CmdPulses \/ ReportAck \/ ReportBit \/ Sample \/ ReportClose \/ WaitReady
          \/ ScopeStart \/ ScopePoll)
    BY <1>9 DEF Regained, Known, VerbOfCall, StepOfVerb, CmdPulses, ReportAck, ReportBit, Sample,
       ReportClose, WaitReady, ScopeStart, ScopePoll
  <2>2. ~(\/ UNCHANGED vars \/ DriveReady \/ DriveResets)
    BY <1>9, DriveReadyKnown, DriveResetsKnown DEF Regained, vars
  <2>3. ~(\/ Open \/ LinkFails \/ \E n \in Reports : \E tries \in {1, Tries} : Report(n, tries)
          \/ \E n \in Names : \E v \in Nat : Command(n, v)
          \/ \E verb \in {"wait", "scope"} : \E n \in Nat : Ask(verb, n))
    BY <1>9 DEF Regained, Open, LinkFails, Report, Command, Ask
  <2>4. ~NextTrain
    BY <1>9, NextTrainKnown DEF Regained
  <2> QED BY <1>9, <2>1, <2>2, <2>3, <2>4, RegainedInStep, Cases
<1> SUFFICES ASSUME ~Regained
             PROVE  Clear' /\ Arriving'
  BY <1>9
<1>1. ~seen.lost /\ seen' = seen /\ Clear /\ Arriving
  BY FaultsGrow DEF InStep, Faulted
<1>2. CASE UNCHANGED vars
  BY <1>1, <1>2 DEF vars, Clear, Arriving, Doing, Did, Collecting
<1>3. CASE CmdPulses
  BY <1>1, <1>3, CmdPulsesInStep
<1>4. CASE ReportAck \/ ReportBit \/ Sample \/ ReportClose
  BY <1>1, <1>4, ReportInStep
<1>5. CASE WaitReady \/ ScopeStart \/ ScopePoll
  BY <1>1, <1>5, VerbInStep
<1>6. CASE DriveReady
  <2>1. /\ fw' = fw /\ host' = host
        /\ drive'.sub = drive.sub /\ drive'.cmd = drive.cmd /\ drive'.args = drive.args
        /\ drive'.did = drive.did /\ drive'.trk0 = drive.trk0 /\ drive'.cue = drive.cue
        /\ drive'.ready = TRUE
    BY <1>6, DriveReadyKnown
  <2>2. Clear'
    BY <1>1, <2>1 DEF Clear
  <2>3. Arriving'
    BY <1>1, <2>1 DEF Arriving, Doing, Did, Collecting
  <2> QED BY <2>2, <2>3
<1>7. CASE DriveResets \/ LinkFails
  BY <1>7, DriveResetsKnown, LinkFailsKnown
<1>8. CASE Conclude
  BY <1>1, <1>8, ConcludeInStep
<1> QED BY <1>1, <1>2, <1>3, <1>4, <1>5, <1>6, <1>7, <1>8, CallInStep, Cases

-----------------------------------------------------------------------------
(* A drive that was late once is found. *)

\* The trains that take the drive out of a subcontext it was left in.
Needed == IF drive.sub = "report" THEN 1
          ELSE IF drive.sub = "arg" THEN Wanted(drive.cmd) - Len(drive.args) ELSE 0

\* A detection has more tries left than the drive needs trains.
Spare == host.call \in Reports /\ host.asked[2] = Tries /\ ~seen.reset /\ ~seen.failed =>
  /\ host.stage = "asked" =>
       /\ seen.faults = 0 => host.tries = Tries
       /\ fw.step = "train" => host.tries > Needed
       /\ fw.step = "ack" /\ ~drive.trk0 => host.tries > Needed + 1
       /\ fw.step = "close" => fw.final \/ (seen.faults # 0 /\ host.tries > 1)
  /\ host.stage = "answered" =>
       Accepted(host.answer) \/ (seen.faults # 0 /\ host.tries > Needed + 1)
  /\ host.stage = "open" => host.outcome # "error"

LEMMA NeededIs ==
  ASSUME Known
  PROVE  Needed \in 0 .. 3
<1>1. drive.sub = "arg" => Wanted(drive.cmd) \in 0 .. 3 /\ Len(drive.args) \in Nat
                           /\ Len(drive.args) < Wanted(drive.cmd)
  BY WantedIs DEF Known, Typed, DriveKnown, Drives
<1> QED BY <1>1 DEF Needed

\* A report command that finds another subcontext open takes one train off it.
LEMMA CmdPulsesSpare ==
  ASSUME Known, Spare, CmdPulses, host.stage = "asked", host.call \in Reports
  PROVE  Spare'
<1>1. /\ fw.step = "train" /\ fw.want # 0 /\ fw.n = Cmds[host.call].code /\ fw \in Fws
      /\ seen' = seen /\ DriveKnown(drive) /\ DriveKnown(drive') /\ drive.sub \in Subs
      /\ host.tries \in Nat
  BY CmdPulsesKnown, WidthIs DEF CmdPulses, Known, Typed, VerbOfCall, DriveKnown, Drives, Hosts
<1>2. fw' = [fw EXCEPT !.step = "ack"] /\ host' = host
  BY <1>1 DEF CmdPulses
<1>3. fw'.step = "ack"
  BY <1>1, <1>2 DEF Fws
<1>4. PICK v \in Seq(BOOLEAN) : drive' = Heard(drive, fw.n, v)
  BY PulsesHeard DEF CmdPulses
<1>5. fw.n # NextBit /\ fw.n # SoftReset /\ fw.n \in Int
  BY <1>1, CallsAre, CodesDiffer DEF NextBit, SoftReset
<1>6. ASSUME ~drive'.trk0, host.tries > Needed PROVE host.tries > Needed' + 1
  <2>1. CASE drive.sub = "none"
    BY <1>1, <1>4, <1>6, <2>1, HeardReport
  <2>2. CASE drive.sub = "report"
    <3>1. drive'.sub = "none"
      BY <1>1, <1>4, <1>5, <2>2, HeardIllegal
    <3> QED BY <1>6, <2>2, <3>1 DEF Needed
  <2>3. CASE drive.sub = "arg"
    <3>1. /\ IF Len(Append(drive.args, fw.n)) < Wanted(drive.cmd)
             THEN drive'.sub = "arg" /\ drive'.cmd = drive.cmd /\ drive'.args = Append(drive.args, fw.n)
             ELSE drive'.sub = "none"
      BY <1>1, <1>4, <1>5, <2>3, HeardArgument
    <3>2. /\ Len(Append(drive.args, fw.n)) = Len(drive.args) + 1 /\ Len(drive.args) \in Nat
          /\ Wanted(drive.cmd) \in 0 .. 3 /\ Len(drive.args) < Wanted(drive.cmd)
      BY <1>1, <1>5, <2>3, WantedIs DEF DriveKnown, Drives
    <3> QED BY <1>1, <1>6, <2>3, <3>1, <3>2 DEF Needed
  <2> QED BY <1>1, <2>1, <2>2, <2>3 DEF Subs
<1> QED BY <1>1, <1>2, <1>3, <1>6 DEF Spare

\* What goes wrong while a report is read is the one fault, and costs one try.
LEMMA ReportSpare ==
  ASSUME Known, ReportInv, InStep, Spare, Tries >= 4, MaxFaults <= 1,
         host.stage = "asked", host.call \in Reports,
         ReportAck \/ ReportBit \/ Sample \/ ReportClose
  PROVE  Spare'
<1>0. host.tries \in Nat /\ seen.faults \in Nat /\ Tries \in Nat /\ Needed \in 0 .. 3
  BY Numbers, NeededIs DEF Known, Typed, Hosts, Seens
<1> SUFFICES ASSUME host.asked[2] = Tries, ~seen'.reset, ~seen'.failed,
                    host'.asked = host.asked
             PROVE  Spare'
  <2>1. host'.asked = host.asked
    BY ReportAckKnown, ReportBitKnown, SampleKnown, ReportCloseKnown
       DEF AckSeen, AckLate, BitRead, FinalRead, BitMissed, FinalMissed, Kept, Ended
  <2> QED BY <2>1 DEF Spare
<1>1. /\ seen'.reset = seen.reset /\ seen'.failed = seen.failed
      /\ seen' = seen \/ (seen.faults = 0 /\ seen'.faults = 1)
  <2>1. seen' = seen \/ (seen'.faults = seen.faults + 1 /\ seen.faults < MaxFaults)
    BY FaultsGrow DEF Next, Verb, Faulted, Regained
  <2>2. seen'.reset = seen.reset /\ seen'.failed = seen.failed
    BY FaultCounts DEF ReportAck, ReportBit, Sample, ReportClose, Known, Typed
  <2> QED BY <1>0, <2>1, <2>2, Numbers
<1>2. /\ seen.faults = 0 => host.tries = Tries
      /\ fw.step = "ack" /\ ~drive.trk0 => host.tries > Needed + 1
      /\ fw.step = "close" => fw.final \/ (seen.faults # 0 /\ host.tries > 1)
      /\ ~seen.reset
  BY <1>1 DEF Spare
<1>3. CASE host' = host /\ fw'.step \in {"bits", "sample"}
  BY <1>1, <1>2, <1>3 DEF Spare
<1>4. ASSUME NEW f, Ended(f), seen'.faults # 0, host.tries > Needed + 1, drive' = drive PROVE Spare'
  <2>1. host'.stage = "answered" /\ host'.tries = host.tries
    BY <1>4 DEF Ended
  <2>2. Needed' = Needed
    BY <1>4 DEF Needed
  <2> QED BY <1>4, <2>1, <2>2 DEF Spare
<1>5. CASE ReportAck
  <2>1. CASE AckSeen
    BY <1>3, <2>1 DEF AckSeen
  <2>2. CASE AckLate
    <3>1. PICK f : Ended(f)
      BY <2>2 DEF AckLate
    <3>2. fw.step = "ack" /\ drive' = drive
      BY <1>5 DEF ReportAck
    <3>3. CASE drive.trk0
      <4>1. seen' = Struck
        BY <2>2, <3>3 DEF AckLate
      <4>2. seen'.faults = seen.faults + 1
        BY <2>2, <3>3, FaultCounts DEF AckLate, Known, Typed
      <4>3. seen.faults = 0 /\ seen'.faults # 0
        BY <1>0, <1>1, <4>2
      <4>4. Needed = 1
        BY <3>2, <3>3 DEF ReportInv, AckIsOpen, Needed
      <4>5. host.tries > Needed + 1
        BY <1>0, <1>2, <4>3, <4>4
      <4> QED BY <1>4, <3>1, <3>2, <4>3, <4>5
    <3>4. CASE ~drive.trk0
      <4>1. seen' = seen
        BY <2>2, <3>4 DEF AckLate
      <4>2. seen.faults # 0
        BY <3>2, <3>4 DEF InStep, Clear
      <4> QED BY <1>2, <1>4, <3>1, <3>2, <3>4, <4>1, <4>2
    <3> QED BY <3>3, <3>4
  <2> QED BY <1>5, <2>1, <2>2, ReportAckKnown
<1>6. CASE ReportBit
  BY <1>3, <1>6, ReportBitKnown
<1>7. CASE Sample
  <2>1. fw.step = "sample" /\ drive' = drive /\ Len(fw.bits) \in Nat /\ fw.want \in Nat
    BY <1>7 DEF Sample, Known, Typed, Fws
  <2>2. BitsAgree /\ Whole
    <3>1. drive.cue = TRUE
      BY <1>2, <2>1 DEF ReportInv, Uncut
    <3> QED BY <2>1, <3>1, WholeIs DEF Whole
  <2>3. Index(drive)
    BY <2>2 DEF BitsAgree, Index
  <2>4. ASSUME CueMissed PROVE seen.faults = 0 /\ seen'.faults # 0 /\ host.tries = Tries
    <3>1. Fault /\ seen' = Struck
      BY <2>3, <2>4 DEF CueMissed
    <3>2. seen'.faults = seen.faults + 1
      BY <3>1, FaultCounts DEF Known, Typed
    <3>3. seen.faults = 0 /\ seen'.faults # 0
      BY <1>0, <1>1, <3>2
    <3> QED BY <1>2, <3>3
  <2>5. CASE BitRead
    BY <1>3, <2>5 DEF BitRead, Kept
  <2>6. CASE BitMissed
    <3>1. PICK f : Ended(f)
      BY <2>6 DEF BitMissed
    <3>2. Needed \in 0 .. 1
      <4>1. Len(fw.bits) < fw.want \/ Len(fw.bits) = fw.want
        BY <2>1, <2>2 DEF BitsAgree, Copied
      <4>2. drive.sub # "arg"
        BY <2>1, <2>2, <4>1 DEF Whole
      <4> QED BY <4>2 DEF Needed
    <3>3. seen'.faults # 0 /\ host.tries = Tries
      BY <2>4, <2>6 DEF BitMissed
    <3>4. host.tries > Needed + 1
      BY <1>0, <3>2, <3>3
    <3> QED BY <1>4, <2>1, <3>1, <3>3, <3>4
  <2>7. CASE FinalRead
    <3>1. Len(fw.bits) = fw.want
      BY <2>1, <2>2, <2>7 DEF FinalRead, NextIsBit, BitsAgree, Copied
    <3>2. drive.trk0 = TRUE
      BY <2>1, <2>2, <3>1 DEF Whole
    <3>3. fw'.step = "close" /\ fw'.final /\ host' = host /\ seen' = seen
      BY <2>7, <3>2 DEF FinalRead, Kept
    <3> QED BY <1>2, <3>3 DEF Spare
  <2>8. CASE FinalMissed
    <3>1. seen'.faults # 0 /\ host.tries > 1
      BY <1>0, <2>4, <2>8 DEF FinalMissed
    <3>2. fw'.step = "close" /\ host' = host
      BY <2>8 DEF FinalMissed, Kept
    <3> QED BY <3>1, <3>2 DEF Spare
  <2> QED BY <1>7, <2>5, <2>6, <2>7, <2>8, SampleKnown
<1>8. CASE ReportClose
  <2>1. Ended(fw) /\ Pulses(NextBit) /\ fw.step = "close" /\ seen' = seen
    BY <1>8, ReportCloseKnown DEF ReportClose
  <2>2. PICK v : drive' = Heard(drive, NextBit, v)
    BY <2>1, PulsesHeard
  <2>3. /\ drive.sub = "none" /\ DriveKnown(drive) /\ fw.final \in BOOLEAN
        /\ fw.final = TRUE => fw.ack = TRUE
    BY <2>1 DEF ReportInv, Reading, Copied, Known, Typed, Fws
  <2>4. Needed' = 0
    <3>1. NextBit # SoftReset /\ \A c \in Names : Cmds[c].code # NextBit
      BY CodesDiffer DEF NextBit, SoftReset
    <3>2. drive'.sub = "none"
      BY <2>2, <2>3, <3>1, HeardNothing
    <3> QED BY <3>2 DEF Needed
  <2>5. /\ host'.stage = "answered" /\ host'.tries = host.tries
        /\ host'.answer.ack = fw.ack /\ host'.answer.final = fw.final
    BY <2>1 DEF Ended
  <2>6. CASE fw.final
    <3>1. Accepted(host'.answer)
      BY <2>3, <2>5, <2>6 DEF Accepted
    <3> QED BY <2>5, <3>1 DEF Spare
  <2>7. CASE ~fw.final
    <3>1. seen.faults # 0 /\ host.tries > 1
      BY <1>2, <2>1, <2>7
    <3> QED BY <2>1, <2>4, <2>5, <3>1 DEF Spare
  <2> QED BY <2>6, <2>7
<1> QED BY <1>5, <1>6, <1>7, <1>8

LEMMA SpareStep ==
  ASSUME Known, ReportInv, InStep, Spare, Tries >= 4, MaxFaults <= 1, [Next]_vars
  PROVE  Spare'
<1>0. host.tries \in Nat /\ seen.faults \in Nat /\ Tries \in Nat /\ Needed \in 0 .. 3
      /\ host.stage \in {"closed", "refused", "open", "asked", "answered"}
  BY Numbers, NeededIs DEF Known, Typed, Hosts, Seens
<1>1. CASE UNCHANGED vars
  BY <1>1 DEF vars, Spare, Needed
<1>2. CASE Verb
  <2>1. fw.verb # "none" /\ host.stage # "answered"
    BY <1>2 DEF Verb, CmdPulses, ReportAck, ReportBit, Sample, ReportClose, WaitReady, ScopeStart, ScopePoll,
       Known, StepOfVerb, VerbOfCall
  <2>2. CASE host.stage # "asked"
    <3>1. host' = host
      BY <1>2, <2>2, CmdPulsesKnown, ReportAckKnown, ReportBitKnown, SampleKnown, ReportCloseKnown,
         WaitReadyKnown, ScopeKnown
         DEF Verb, CmdPulses, AckSeen, AckLate, BitRead, FinalRead, BitMissed, FinalMissed, Kept, Ended
    <3>2. seen'.reset = seen.reset /\ seen'.failed = seen.failed
      BY <1>2, FaultCounts DEF Verb, CmdPulses, ReportAck, ReportBit, Sample, ReportClose, WaitReady,
         ScopeStart, ScopePoll, Known, Typed
    <3> QED BY <2>1, <2>2, <3>1, <3>2 DEF Spare
  <2>3. CASE host.stage = "asked" /\ host.call \in Reports
    <3>1. fw.verb = "pulses"
      BY <2>3 DEF Known, VerbOfCall
    <3>2. ~(WaitReady \/ ScopeStart \/ ScopePoll)
      BY <3>1 DEF WaitReady, ScopeStart, ScopePoll
    <3> QED BY <1>2, <2>3, <3>2, CmdPulsesSpare, ReportSpare DEF Verb
  <2>4. CASE host.stage = "asked" /\ host.call \notin Reports
    <3>1. host'.call = host.call
      BY <1>2, CmdPulsesKnown, ReportAckKnown, ReportBitKnown, SampleKnown, ReportCloseKnown,
         WaitReadyKnown, ScopeKnown
         DEF Verb, CmdPulses, AckSeen, AckLate, BitRead, FinalRead, BitMissed, FinalMissed, Kept, Ended
    <3> QED BY <2>4, <3>1 DEF Spare
  <2> QED BY <2>2, <2>3, <2>4
<1>3. CASE DriveReady
  <2>1. /\ fw' = fw /\ host' = host /\ seen' = seen /\ drive'.sub = drive.sub /\ drive'.cmd = drive.cmd
        /\ drive'.args = drive.args /\ drive'.trk0 = drive.trk0
    BY <1>3, DriveReadyKnown
  <2>2. Needed' = Needed
    BY <2>1 DEF Needed
  <2> QED BY <2>1, <2>2 DEF Spare
<1>4. CASE DriveResets \/ LinkFails
  BY <1>4, DriveResetsKnown, LinkFailsKnown DEF Spare
<1>5. ASSUME NEW n \in Reports, NEW tries \in {1, Tries}, Report(n, tries) PROVE Spare'
  <2>1. /\ drive' = drive /\ seen' = seen /\ fw'.step = "train"
        /\ host'.stage = "asked" /\ host'.tries = tries /\ host'.asked = <<n, tries>>
    BY <1>5, ReportKnown
  <2>2. host'.asked[2] = tries /\ Needed' = Needed
    BY <2>1 DEF Needed
  <2> QED BY <1>0, <2>1, <2>2 DEF Spare
<1>6. CASE Conclude
  <2>1. /\ drive' = drive /\ host.stage = "answered"
        /\ seen'.reset = seen.reset /\ seen'.failed = seen.failed /\ seen'.faults = seen.faults
    BY <1>6, ConcludeKnown DEF Regained
  <2>2. Needed' = Needed
    BY <2>1 DEF Needed
  <2>3. CASE host.call \notin Reports
    BY <1>6, <2>3, ConcludeKnown DEF Closed, Spare
  <2>4. CASE host.call \in Reports /\ Accepted(host.answer)
    BY <1>6, <2>4, ConcludeKnown DEF Closed, Spare
  <2>5. CASE host.call \in Reports /\ ~Accepted(host.answer)
    <3>1. host.asked[2] = Tries /\ ~seen.reset /\ ~seen.failed
            => seen.faults # 0 /\ host.tries > Needed + 1
      BY <2>1, <2>5 DEF Spare
    <3>2. CASE host.tries > 1
      <4>1. /\ fw'.step = "train" /\ host'.stage = "asked" /\ host'.tries = host.tries - 1
            /\ host'.asked = host.asked /\ host'.call = host.call
        BY <1>0, <1>6, <2>5, <3>2, ConcludeKnown DEF Closed
      <4> QED BY <1>0, <2>1, <2>2, <3>1, <4>1 DEF Spare
    <3>3. CASE ~(host.tries > 1)
      <4>1. /\ host'.call = host.call /\ host'.asked = host.asked
        BY <1>6, <2>5, <3>3, ConcludeKnown DEF Closed
      <4> QED BY <1>0, <2>1, <3>1, <3>3, <4>1 DEF Spare
    <3> QED BY <3>2, <3>3
  <2> QED BY <2>3, <2>4, <2>5
<1>7. CASE host'.call \notin Reports
  BY <1>7 DEF Spare
<1>8. CASE Open \/ NextTrain
  BY <1>7, <1>8, OpenKnown, NextTrainKnown, CallsAre
<1>9. ASSUME NEW n \in Names, NEW v \in Nat, Command(n, v) PROVE Spare'
  BY <1>7, <1>9, CommandKnown
<1>10. ASSUME NEW verb \in {"wait", "scope"}, NEW n \in Nat, Ask(verb, n) PROVE Spare'
  BY <1>7, <1>10, AskKnown, CallsAre
<1> QED BY <1>1, <1>2, <1>3, <1>4, <1>5, <1>6, <1>8, <1>9, <1>10, Cases DEF Verb

-----------------------------------------------------------------------------
(* The theorems. *)

LEMMA InitInv ==
  ASSUME Init
  PROVE  Known /\ ReportInv /\ InStep /\ Spare
<1>1. Known
  BY InitKnown
<1>2. PICK o \in {"lsb", "msb"} : host = [NoCall EXCEPT !.order = o]
  BY DEF Init
<1>3. host.stage = "closed" /\ host.call = "none"
  BY <1>2 DEF NoCall
<1>4. /\ fw.step = "none" /\ fw.verb = "none" /\ drive.sub = "none" /\ drive.cue = FALSE
      /\ ~seen.lost
  BY DEF Init, Idle, AfterReset
<1>5. ReportInv /\ Spare
  BY <1>3, <1>4, CallsAre DEF ReportInv, AckIsOpen, Reading, Delivered, Uncut, Spare
<1>6. InStep
  BY <1>3, <1>4, CallsAre DEF InStep, Clear, Arriving
<1> QED BY <1>1, <1>5, <1>6

LEMMA KnownAlways == Spec => [](Known /\ ReportInv /\ InStep)
<1>1. Known /\ ReportInv /\ InStep /\ [Next]_vars => (Known /\ ReportInv /\ InStep)'
  BY StepKnown, ReportStep, InStepStep
<1> QED BY <1>1, InitInv, PTL DEF Spec

\* Every report that the host accepts is the one the drive gave (qic.c's qic_report(),
\* device.py's command_txn()), whatever late answers, lost transactions or resets of the
\* drive come before it or between its bits, and it leaves the drive's subcontext closed
\* and INDEX without its cues; WAIT_READY tells the truth from the start, or from an
\* accepted report, to the next fault.
THEOREM AnswersAreTrueAlways == Spec => []AnswersAreTrue
<1>1. Known /\ ReportInv /\ InStep => AnswersAreTrue
  <2> SUFFICES ASSUME Known, ReportInv, InStep PROVE AnswersAreTrue
    OBVIOUS
  <2>1. \A n \in Reports : Over(n) =>
          Value(host.value, host.order) = drive.bits /\ drive.sub = "none" /\ drive.cue = FALSE
    BY DEF ReportInv, Delivered, Closing, Over
  <2>2. Over("wait") /\ ~seen.lost => drive.ready
    BY DEF InStep, Clear, Over
  <2> QED BY <2>1, <2>2 DEF AnswersAreTrue
<1> QED BY <1>1, KnownAlways, PTL

\* The nibbles of a number make that number.
LEMMA Nibbles ==
  ASSUME NEW v \in Nat
  PROVE  /\ v % Nibble \in Nat /\ v \div Nibble \in Nat
         /\ (v % Nibble) + Nibble * (v \div Nibble) = v
BY Numbers

LEMMA DecodedIs ==
  ASSUME NEW v \in Nat, NEW form \in {"one", "two", "three"}, NEW T \in Trains(form, v)
  PROVE  Decoded(T) = v
<1>1. CASE form = "one"
  <2>1. T = <<v + 2>>
    BY <1>1 DEF Trains, Plus2
  <2>2. Len(T) = 1 /\ T[1] = v + 2
    BY <2>1
  <2> QED BY <2>2 DEF Decoded
<1>2. CASE form = "two"
  <2> DEFINE a == v % Nibble
             b == v \div Nibble
  <2>1. T = <<a + 2, b + 2>>
    BY <1>2 DEF Trains, Plus2
  <2>2. a \in Nat /\ b \in Nat /\ a + Nibble * b = v
    BY Nibbles
  <2> HIDE DEF a, b
  <2>3. Len(T) = 2 /\ T[1] - 2 = a /\ T[2] - 2 = b
    BY <2>1, <2>2
  <2> QED BY <2>2, <2>3 DEF Decoded
<1>3. CASE form = "three"
  <2> DEFINE a == v % Nibble
             w == v \div Nibble
             b == w % Nibble
             c == w \div Nibble
  <2>1. T = <<a + 2, b + 2, c + 2>>
    BY <1>3 DEF Trains, Plus2
  <2>2. a \in Nat /\ w \in Nat /\ a + Nibble * w = v
    BY Nibbles
  <2> HIDE DEF a, w
  <2>3. b \in Nat /\ c \in Nat /\ b + Nibble * c = w
    BY <2>2, Nibbles
  <2> HIDE DEF b, c
  <2>4. Len(T) = 3 /\ T[1] - 2 = a /\ T[2] - 2 = b /\ T[3] - 2 = c
    BY <2>1, <2>2, <2>3
  <2>5. Decoded(T) = a + Nibble * (b + Nibble * c)
    BY <2>4 DEF Decoded
  <2> QED BY <2>2, <2>3, <2>5
<1> QED BY <1>1, <1>2, <1>3

\* A command is executed as that command, with that argument (qic.c's qic_pulses(),
\* drive.py's _send_arg()), from the start, or from an accepted report, to the next fault.
THEOREM CommandsArriveAlways == Spec => []CommandsArrive
<1>1. Known /\ ReportInv /\ InStep => CommandsArrive
  <2> SUFFICES ASSUME Known, InStep, NEW n \in Names \ Reports, Over(n), ~seen.lost
               PROVE  /\ drive.did[1] = n
                      /\ Cmds[n].form \in {"one", "two", "three"} => Decoded(drive.did[2]) = host.asked[2]
    BY DEF CommandsArrive
  <2>1. host.call = n /\ host.stage = "open" /\ host.outcome = "okay"
    BY DEF Over
  <2>2. PICK T \in Trains(Cmds[n].form, host.asked[2]) : Doing(T)
    BY <2>1 DEF InStep, Arriving
  <2>3. drive.did = <<n, T>>
    BY <2>1, <2>2 DEF Doing, Did
  <2>4. drive.did[1] = n /\ drive.did[2] = T
    BY <2>3
  <2>5. host.asked[2] \in Nat
    BY <2>1, AskedIs
  <2> QED BY <2>2, <2>4, <2>5, DecodedIs
<1> QED BY <1>1, KnownAlways, PTL

\* With the four tries of drive.py:488 a detection finds a drive that failed it once,
\* whatever subcontext an earlier failure left open.
THEOREM LateOnceIsFoundAlways ==
  ASSUME Tries >= 4, MaxFaults <= 1
  PROVE  Spec => []LateOnceIsFound
<1>1. Known /\ ReportInv /\ InStep /\ Spare /\ [Next]_vars => Spare'
  BY SpareStep
<1>2. Spare => LateOnceIsFound
  BY DEF Spare, LateOnceIsFound
<1>3. Init => Spare
  BY InitInv
<1> QED BY <1>1, <1>2, <1>3, KnownAlways, PTL DEF Spec

=============================================================================
