------------------------------- MODULE QicVerbs -------------------------------
(***************************************************************************)
(* The QIC-117 channel: commands as trains of STEP pulses, arguments as       *)
(* further trains, reports clocked bit by bit off TRK0 (firmware qic.c), and     *)
(* what the host makes of them (link/device.py, qic117/drive.py, commands.py).   *)
(*                                                                         *)
(* The drive is external, as QIC-117 and the code describe it: a report        *)
(* command opens a subcontext in which only Report Next Bit is legal, a command  *)
(* with an argument one in which every train is its value, and a single pulse    *)
(* is a Soft Reset anywhere.                                                *)
(*                                                                         *)
(* Simplifications.                                                        *)
(*  - A train is heard as it is sent; what may fail is an answer in time         *)
(*    (the ACK, a cue), the drive (it resets), and the link.                    *)
(*  - Times are outcomes: in time or too late.                               *)
(***************************************************************************)
EXTENDS Integers, Sequences, SequencesExt

CONSTANTS
  ByteBits,    \* bits of a byte
  MaxBits,     \* the widest report
  Nibble,      \* values of a nibble
  MaxArg,      \* MAX_ARG: the largest value of one train
  MaxValue,    \* bound: the arguments that are tried
  Tries,       \* _STATUS_TRIES
  MaxEdges,    \* QIC_SCOPE_MAX_EDGES
  MaxFaults    \* bound

\* A byte and a report have bits, and a status is asked for at least once.
ASSUME VerbsAssumption ==
  /\ {ByteBits, MaxBits, Nibble, Tries} \subseteq Nat \ {0}
  /\ {MaxArg, MaxValue, MaxEdges, MaxFaults} \subseteq Nat

VARIABLES
  drive,   \* the drive: its subcontext, TRK0, cues, readiness, what it did last
  fw,      \* the firmware's verb under way
  host,    \* the host's call under way
  seen     \* history: faults (and probes), reset (the drive was), failed (the link),
           \* lost (a fault, and no report has been accepted since)

vars == <<drive, fw, host, seen>>

NextBit == 2
SoftReset == 1
\* The commands by what follows them and what they do; form is encode_arg()'s.
Cmds == [status   |-> [code |-> 6,  form |-> "report", moves |-> FALSE, writes |-> FALSE],
         error    |-> [code |-> 7,  form |-> "report", moves |-> FALSE, writes |-> FALSE],
         seek     |-> [code |-> 13, form |-> "one",    moves |-> TRUE,  writes |-> FALSE],
         stop     |-> [code |-> 18, form |-> "none",   moves |-> TRUE,  writes |-> FALSE],
         select   |-> [code |-> 23, form |-> "literal", moves |-> FALSE, writes |-> FALSE],
         skip     |-> [code |-> 26, form |-> "two",    moves |-> TRUE,  writes |-> FALSE],
         diag     |-> [code |-> 28, form |-> "twice",  moves |-> FALSE, writes |-> TRUE],
         segments |-> [code |-> 38, form |-> "three",  moves |-> FALSE, writes |-> FALSE]]
Names == DOMAIN Cmds
Reports == {n \in Names : Cmds[n].form = "report"}
Width(n) == IF n = "status" THEN ByteBits ELSE MaxBits

(*-------------------------------- encode_arg() ----------------------------*)
PlusOne(v) == v + 1                                        \* mutant
Plus2(v) == v + 2
\* The trains that carry value v, or {} when it is refused.
Trains(form, v) ==
  CASE form = "literal" -> {<<20>>}
    [] form = "twice"   -> {<<28>>}
    [] form = "one"     -> IF v > MaxArg THEN {} ELSE {<<Plus2(v)>>}
    [] form = "two"     -> IF v >= Nibble * Nibble THEN {}
                           ELSE {<<Plus2(v % Nibble), Plus2(v \div Nibble)>>}
    [] form = "three"   -> IF v >= Nibble * Nibble * Nibble THEN {}
                           ELSE {<<Plus2(v % Nibble), Plus2((v \div Nibble) % Nibble),
                                   Plus2((v \div Nibble) \div Nibble)>>}
    [] OTHER            -> {<<>>}

(*---------------------------------- the drive -----------------------------*)
AfterReset == [sub |-> "none", bits |-> <<>>, pos |-> 0, cmd |-> "none", args |-> <<>>,
               trk0 |-> FALSE, cue |-> FALSE, ready |-> TRUE, did |-> <<"none", <<>>>>]
\* The INDEX line: the cues of a report, and those of a drive that is ready.
Index(d) == d.cue \/ d.ready
\* bits stays, as a history of what the last report said.
Reset(d) == [AfterReset EXCEPT !.bits = d.bits]
Wanted(n) == CASE Cmds[n].form \in {"one", "literal", "twice"} -> 1
               [] Cmds[n].form = "two" -> 2 [] Cmds[n].form = "three" -> 3 [] OTHER -> 0
\* A command is complete: it is executed, and a motion takes a while.
Execute(d, n, args) ==
  [d EXCEPT !.sub = "none", !.cmd = "none", !.args = <<>>, !.bits = <<>>, !.pos = 0,
            !.did = <<n, args>>, !.ready = ~Cmds[n].moves]
\* The drive after a train of n pulses; v: the value of a report that it opens.
Heard(d, n, v) ==
  LET quiet == [d EXCEPT !.trk0 = FALSE, !.cue = FALSE]
  IN  IF n = SoftReset THEN Reset(d)
      ELSE IF d.sub = "report"
      THEN IF n # NextBit THEN [quiet EXCEPT !.sub = "none", !.did = <<"illegal", <<>>>>]
           ELSE IF d.pos < Len(d.bits) THEN [d EXCEPT !.pos = @ + 1, !.trk0 = d.bits[d.pos + 1]]
           ELSE [d EXCEPT !.sub = "none", !.trk0 = TRUE]
      ELSE IF d.sub = "arg"
      THEN LET args == Append(d.args, n)
           IN  IF Len(args) < Wanted(d.cmd) THEN [quiet EXCEPT !.args = args]
               ELSE Execute(quiet, d.cmd, args)
      ELSE IF \E c \in Names : Cmds[c].code = n
      THEN LET c == CHOOSE x \in Names : Cmds[x].code = n
           IN  IF c \in Reports
               THEN [d EXCEPT !.sub = "report", !.did = <<"none", <<>>>>, !.bits = v, !.pos = 0, !.trk0 = TRUE, !.cue = TRUE]
               ELSE IF Wanted(c) > 0 THEN [quiet EXCEPT !.sub = "arg", !.cmd = c, !.args = <<>>]
               ELSE Execute(quiet, c, <<>>)
      ELSE quiet

(*------------------------------- the firmware -----------------------------*)
Idle == [verb |-> "none", step |-> "none", n |-> 0, want |-> 0, bits |-> <<>>, ack |-> FALSE,
         final |-> FALSE, late |-> FALSE, onIndex |-> FALSE]
NoAnswer == [of |-> "none"]
NoCall == [stage |-> "closed", call |-> "none", trains |-> <<>>, tries |-> 0, value |-> <<>>,
           order |-> "lsb", answer |-> NoAnswer, outcome |-> "none", asked |-> <<"none", <<>>>>]

Init ==
  /\ drive = AfterReset /\ fw = Idle
  /\ \E o \in {"lsb", "msb"} : host = [NoCall EXCEPT !.order = o]
  /\ seen = [faults |-> 0, reset |-> FALSE, failed |-> FALSE, lost |-> FALSE]

Fault == seen.faults < MaxFaults
Struck == [seen EXCEPT !.faults = @ + 1, !.lost = TRUE]
\* qic_pulses(): the drive hears a train; what a report will say it decides then.
Pulses(n) == \E v \in [1..IF n = Cmds.status.code THEN ByteBits ELSE MaxBits -> BOOLEAN] :
               /\ n \notin {Cmds[c].code : c \in Reports} => \A i \in DOMAIN v : v[i]
               /\ drive' = Heard(drive, n, v)

Answer(f) == [of |-> f.verb, ack |-> f.ack, final |-> f.final, late |-> f.late, bits |-> f.bits]
\* The verb is over: its answer goes to the host, if that still waits for it.
Answers(f) ==
  /\ fw' = [Idle EXCEPT !.onIndex = fw.onIndex]
  /\ host' = IF host.stage = "asked" THEN [host EXCEPT !.stage = "answered", !.answer = Answer(f)]
             ELSE host

\* qic_cmd_pulses(): the train, then an answer or a report.
CmdPulses ==
  /\ fw.verb = "pulses" /\ fw.step = "train"
  /\ Pulses(fw.n)
  /\ IF fw.want = 0 THEN Answers(fw) ELSE fw' = [fw EXCEPT !.step = "ack"] /\ UNCHANGED host
  /\ UNCHANGED seen
\* qic_report(): the ACK within its window...
ReportAck ==
  /\ fw.step = "ack"
  /\ \/ /\ drive.trk0
        /\ fw' = [fw EXCEPT !.ack = TRUE, !.step = "bits"]
        /\ UNCHANGED <<host, seen>>
     \/ /\ ~drive.trk0
        /\ Answers([fw EXCEPT !.late = TRUE])
        /\ UNCHANGED seen
     \/ /\ drive.trk0 /\ Fault
        /\ Answers([fw EXCEPT !.late = TRUE])
        /\ seen' = Struck
  /\ UNCHANGED drive
\* ...then Report Next Bit and a sample for every bit and for Final; a cue that
\* does not come (on INDEX) ends it...
SampleOf(d) == d.trk0
NextIsBit == Len(fw.bits) < fw.want
ReportBit ==
  /\ fw.step = "bits"
  /\ Pulses(NextBit)
  /\ fw' = [fw EXCEPT !.step = "sample"]
  /\ UNCHANGED <<host, seen>>
Sample ==
  /\ fw.step = "sample"
  /\ \/ /\ fw.onIndex => Index(drive)
        /\ fw' = IF NextIsBit THEN [fw EXCEPT !.bits = Append(@, SampleOf(drive)), !.step = "bits"]
                 ELSE [fw EXCEPT !.final = SampleOf(drive), !.step = "close"]
        /\ UNCHANGED <<host, seen>>
     \/ /\ fw.onIndex /\ (Index(drive) => Fault)
        /\ IF NextIsBit THEN Answers([fw EXCEPT !.late = TRUE])
           ELSE fw' = [fw EXCEPT !.late = TRUE, !.step = "close"] /\ UNCHANGED host
        /\ seen' = IF Index(drive) THEN Struck ELSE seen
  /\ UNCHANGED drive
NoClosing(n) == FALSE                                      \* mutant
ClosesWith(n) == n = NextBit
\* ...and one more train takes TRK0 and the cues back.
ReportClose ==
  /\ fw.step = "close"
  /\ IF ClosesWith(NextBit) THEN Pulses(NextBit) ELSE UNCHANGED drive
  /\ Answers(fw)
  /\ UNCHANGED seen

\* qic_cmd_wait_ready(): a cue, or the time is over.
WaitReady ==
  /\ fw.verb = "wait"
  /\ \E cue \in {Index(drive), FALSE} : Answers([fw EXCEPT !.ack = cue])
  /\ UNCHANGED <<drive, seen>>

\* qic_cmd_scope(): the train and the first sample; then a poll that finds an edge, of
\* which MaxEdges are kept; then the time is over.
ScopeLines(d) == <<d.trk0, Index(d)>>
ScopeStart ==
  /\ fw.verb = "scope" /\ fw.step = "train"
  /\ IF fw.n > 0 THEN Pulses(fw.n) ELSE UNCHANGED drive
  /\ fw' = [fw EXCEPT !.step = "poll", !.bits = <<ScopeLines(drive')>>]
  /\ UNCHANGED <<host, seen>>
ScopePoll ==
  /\ fw.verb = "scope" /\ fw.step = "poll"
  /\ \/ /\ ScopeLines(drive) # Last(fw.bits) /\ Len(fw.bits) <= MaxEdges
        /\ fw' = [fw EXCEPT !.bits = Append(@, ScopeLines(drive))]
        /\ UNCHANGED host
     \/ Answers([fw EXCEPT !.late = ScopeLines(drive) # Last(fw.bits)])
  /\ UNCHANGED <<drive, seen>>

\* The drive becomes ready, which it shows with cues; or it resets.
DriveReady ==
  /\ ~drive.ready
  /\ drive' = [drive EXCEPT !.ready = TRUE]
  /\ UNCHANGED <<fw, host, seen>>
DriveResets ==
  /\ Fault
  /\ drive' = Reset(drive)
  /\ seen' = [Struck EXCEPT !.reset = TRUE]
  /\ UNCHANGED <<fw, host>>

(*---------------------------------- the host ------------------------------*)
\* _request(): a verb goes to the firmware.
Send(h, verb, n, want) ==
  /\ fw.verb = "none"
  /\ fw' = [fw EXCEPT !.verb = verb, !.step = "train", !.n = n, !.want = want]
  /\ host' = [h EXCEPT !.stage = "asked", !.answer = NoAnswer]

\* open(): the gate, and the profile's timing with its way to wait for a bit.
Open ==
  /\ host.stage = "closed"
  /\ \E capable, onIndex \in BOOLEAN :
       /\ host' = [host EXCEPT !.stage = IF capable THEN "open" ELSE "refused"]
       /\ fw' = [fw EXCEPT !.onIndex = capable /\ onIndex]
  /\ UNCHANGED <<drive, seen>>
\* report(): tries > 0 for _ftape_answer(), which asks again.
Report(n, tries) ==
  /\ host.stage = "open"
  /\ Send([NoCall EXCEPT !.order = host.order, !.call = n, !.tries = tries,
                         !.asked = <<n, tries>>],
          "pulses", Cmds[n].code, Width(n))
  /\ UNCHANGED <<drive, seen>>
\* command(): what writes is refused, and so is an argument the drive would ignore.
Command(n, v) ==
  /\ host.stage = "open" /\ n \notin Reports /\ ~Cmds[n].writes
  /\ \E ts \in Trains(Cmds[n].form, v) :
       Send([NoCall EXCEPT !.order = host.order, !.call = n, !.trains = ts,
                         !.asked = <<n, v>>], "pulses", Cmds[n].code, 0)
  /\ UNCHANGED <<drive, seen>>
\* _send_arg(): its next train.
NextTrain ==
  /\ host.stage = "answered" /\ host.trains # <<>>
  /\ Send([host EXCEPT !.trains = Tail(@)], "pulses", Head(host.trains), 0)
  /\ UNCHANGED <<drive, seen>>
\* wait_ready(), scope(): a probe with a report command leaves that report open.
Ask(verb, n) ==
  /\ host.stage = "open" /\ (n > 0 => Fault)
  /\ Send([NoCall EXCEPT !.order = host.order, !.call = verb], verb, n, 0)
  /\ seen' = IF n > 0 THEN Struck ELSE seen
  /\ UNCHANGED drive

\* bits_to_int(): "msb" turns the bits of the whole value round.
Value(bits, order) == IF order = "lsb" THEN bits ELSE Reverse(bits)
\* command_txn(): a report without ACK, or without Final, is an error.
Accepted(a) == a.ack /\ a.final
Good(a) == Accepted(a)
AsksAgain(h) == h.tries > 1
AsksOnceMore(h) == h.tries = Tries                         \* mutant
AskAgain(h) == AsksAgain(h)
Done(h, outcome) == [h EXCEPT !.stage = "open", !.outcome = outcome, !.answer = NoAnswer]
Conclude ==
  /\ host.stage = "answered" /\ host.trains = <<>>
  /\ IF host.call \notin Reports
     THEN host' = Done(host, IF host.call = "wait" /\ ~host.answer.ack THEN "timedOut" ELSE "okay")
          /\ UNCHANGED <<fw, seen>>
     ELSE IF Good(host.answer)
     THEN /\ host' = [Done(host, "okay") EXCEPT !.value = Value(host.answer.bits, host.order)]
          /\ seen' = [seen EXCEPT !.lost = FALSE]
          /\ UNCHANGED fw
     ELSE IF AskAgain(host)
     THEN Send([host EXCEPT !.tries = @ - 1], "pulses", Cmds[host.call].code, Width(host.call))
          /\ UNCHANGED seen
     ELSE host' = Done(host, "error") /\ UNCHANGED <<fw, seen>>
  /\ UNCHANGED drive
\* A transaction fails on the link: the call is given up where it is.
LinkFails ==
  /\ host.stage = "asked" /\ Fault
  /\ host' = Done(host, "error")
  /\ seen' = [Struck EXCEPT !.failed = TRUE]
  /\ UNCHANGED <<drive, fw>>

Verb == CmdPulses \/ ReportAck \/ ReportBit \/ Sample \/ ReportClose \/ WaitReady
        \/ ScopeStart \/ ScopePoll
Next ==
  \/ Verb \/ DriveReady \/ DriveResets
  \/ Open \/ NextTrain \/ Conclude \/ LinkFails
  \/ \E n \in Reports : \E tries \in {1, Tries} : Report(n, tries)
  \/ \E n \in Names : \E v \in IF Cmds[n].form \in {"none", "literal"} THEN {0} ELSE 0..MaxValue :
       Command(n, v)
  \/ Ask("wait", 0) \/ \E n \in {0, Cmds.status.code} : Ask("scope", n)

Spec == Init /\ [][Next]_vars /\ WF_vars(Verb) /\ WF_vars(NextTrain) /\ WF_vars(Conclude)

(*------------------------------- properties -------------------------------*)
Over(call) == host.stage = "open" /\ host.call = call /\ host.outcome = "okay"
Decoded(args) ==
  CASE Len(args) = 1 -> args[1] - 2
    [] Len(args) = 2 -> (args[1] - 2) + Nibble * (args[2] - 2)
    [] Len(args) = 3 -> (args[1] - 2) + Nibble * ((args[2] - 2) + Nibble * (args[3] - 2))

\* What the host believes of the drive.  A report that it accepts is the one that the
\* drive gave, whatever late answers, lost transactions or resets of the drive came before
\* it or between its bits, and it leaves neither its subcontext open nor a cue of its own
\* on INDEX (qic.c:252-258).  When WAIT_READY says ready, the drive is ready, unless a
\* fault came after the last report that was accepted: the cue may then be a report's.
AnswersAreTrue ==
  /\ \A n \in Reports : Over(n) =>
       Value(host.value, host.order) = drive.bits /\ drive.sub = "none" /\ ~drive.cue
  /\ Over("wait") /\ ~seen.lost => drive.ready

\* A command arrives as that command with that argument, and no train of it was a Soft
\* Reset, unless a fault came after the last report that was accepted.  A report that was
\* late leaves its subcontext open, and the drive then takes the command's first train
\* for an illegal one and its arguments for commands (qic.c:223-226); one accepted report
\* shows that host and drive are in step again, for every command until the next fault.
CommandsArrive ==
  \A n \in Names \ Reports :
    Over(n) /\ ~seen.lost =>
      /\ drive.did[1] = n
      /\ Cmds[n].form \in {"one", "two", "three"} => Decoded(drive.did[2]) = host.asked[2]

\* Detection finds a drive that answered too late once, although its second try meets
\* the report that the first one has left open (drive.py:516-517).
LateOnceIsFound ==
  host.stage = "open" /\ host.call \in Reports /\ host.asked[2] = Tries
    /\ ~seen.reset /\ ~seen.failed => host.outcome # "error"
=============================================================================
