---------------------------- MODULE DriveSession ----------------------------
(***************************************************************************)
(* A `tw drive fwd|rev` session: _drive_session() (cli/session.py) opens    *)
(* the link, auto_wake() (qic117/drive.py) probes the profiles or wake()    *)
(* runs the one named, jog() moves the tape for a while and stops it, and   *)
(* the session releases what it took.  Answers may come too late for the    *)
(* read that waits on them, and the user may press Ctrl-C anywhere and as    *)
(* often as he likes: before a request is written, in the read of its        *)
(* answer, or once the answer is read.                                     *)
(*                                                                         *)
(* Simplifications.                                                        *)
(*  - One wake command stands for the select and the mode command of the    *)
(*    Colorado wake, and SELECT for SET_BUS_TYPE and SELECT.                *)
(*  - The jog runs long enough for one poll (--seconds above 0).            *)
(*  - The board's own watchdog acts only long after a session; the drive    *)
(*    has no fault while it is jogged.                                      *)
(***************************************************************************)
EXTENDS LinkExchange

CONSTANT Tries   \* _STATUS_TRIES

ASSUME TriesAssumption == Tries \in Nat \ {0}

VARIABLES
  pc,          \* where the session is: the exchange to make, or made
  profile,     \* the profile named, or "auto"
  cand,        \* the profile being tried (AUTO_ORDER's index)
  step,        \* its wake steps done
  tries,       \* status tries that failed
  motorUnit,   \* Qic117Drive.motor_unit is set
  hasDrive,    \* _drive_session's drive is set
  raised,      \* an exception is on its way through jog()'s finally
  returned,    \* jog() returned a status
  jogging,     \* history: jog() came to its try block
  cut,         \* history: the clean-up requests that Ctrl-C kept from being written
  needs,       \* what makes the drive listen
  phantom, motor, selected,   \* phantom select, motor line, select line
  latched, tape,              \* the drive's error latch and its tape
  hadError     \* history: the session began with an error latched

hostVars  == <<pc, profile, cand, step, tries, motorUnit, hasDrive, raised, returned, jogging, cut>>
boardVars == <<needs, phantom, motor, selected, latched, tape, hadError>>
vars == <<linkVars, hostVars, boardVars>>

\* AUTO_ORDER, with the Mountain wake left out (a command, like Colorado's),
\* and the wake steps of each.
Profiles  == <<"default", "colorado", "insight">>
WakeSteps == [default |-> <<>>, colorado |-> <<"wake">>, insight |-> <<"select", "motorOn">>]
Steps     == WakeSteps[Profiles[cand]]

Init ==
  /\ LinkInit
  /\ pc = "identify"
  /\ profile \in {"auto"} \cup {Profiles[i] : i \in DOMAIN Profiles}
  /\ cand = IF profile = "auto" THEN 1 ELSE CHOOSE i \in DOMAIN Profiles : Profiles[i] = profile
  /\ step = 0 /\ tries = 0
  /\ motorUnit = FALSE /\ hasDrive = FALSE
  /\ raised = FALSE /\ returned = FALSE /\ jogging = FALSE /\ cut = {}
  /\ needs \in {"nothing", "phantom", "motor", "absent"}
  /\ phantom \in BOOLEAN /\ motor = FALSE /\ selected = FALSE
  /\ latched \in BOOLEAN /\ hadError = latched /\ tape = "still"

-----------------------------------------------------------------------------
(* The drive. *)

Listening == \/ needs = "nothing"
             \/ needs = "phantom" /\ phantom
             \/ needs = "motor" /\ motor /\ selected

\* The board executes a request: the lines it moves, and what the drive does.
\* The bits of an error code could pass for those of any status.
Execute ==
  LET r == Head(toBoard).what
      report == r \in {"status", "errorCode"} /\ Listening
  IN  /\ toBoard # <<>>
      /\ \E rd, er \in BOOLEAN :
           /\ r # "errorCode" => rd = (report /\ tape = "still") /\ er = (report /\ latched)
           /\ Serve(Answer(Head(toBoard), report, rd, er))
      /\ phantom'  = (phantom \/ (r = "wake" /\ needs = "phantom"))
      /\ motor'    = (r = "motorOn" \/ (motor /\ r # "motorOff"))
      /\ selected' = (r = "select" \/ (selected /\ r # "deselect"))
      /\ latched'  = (latched /\ ~(r = "errorCode" /\ report /\ tape = "still"))
      /\ tape'     = IF r = "move" /\ Listening /\ ~latched THEN "moving"
                     ELSE IF r = "stop" /\ Listening THEN "still" ELSE tape
      /\ UNCHANGED <<hostVars, needs, hadError>>

\* Physical motion halts at the end of the tape.
TapeEnds ==
  /\ tape = "moving" /\ tape' = "still"
  /\ UNCHANGED <<linkVars, hostVars, needs, phantom, motor, selected, latched, hadError>>

-----------------------------------------------------------------------------
(* Where an exchange leads.  Each assigns pc and the host's variables but     *)
(* cut.                                                                      *)

Goto(p) == pc' = p /\ UNCHANGED <<cand, step, tries, motorUnit, hasDrive, raised, returned, jogging>>

\* _drive_session()'s finally: release_lines() if there is a drive, deselect.
Release ==
  /\ IF hasDrive /\ motorUnit THEN pc' = "motorOff" /\ motorUnit' = FALSE
     ELSE pc' = "deselect" /\ UNCHANGED motorUnit
  /\ UNCHANGED <<cand, step, tries, hasDrive, raised, jogging>>
Leave == Release /\ UNCHANGED returned

\* run_wake_steps(): from its first exchange, the profile's timing, or from the
\* step after those done.
StartWakeUntimed(c) ==   \* mutant: set_timing() is not called
  /\ cand' = c /\ step' = 0 /\ tries' = 0
  /\ hasDrive' = (profile # "auto")
  /\ pc' = IF WakeSteps[Profiles[c]] # <<>> THEN "wakeStep"
           ELSE IF profile = "auto" THEN "probe" ELSE "latch"
  /\ motorUnit' = (Profiles[c] = "insight")
  /\ UNCHANGED <<raised, returned, jogging>>
StartWake(c) ==
  /\ cand' = c /\ step' = 0 /\ tries' = 0
  /\ hasDrive' = (profile # "auto")
  /\ pc' = "timing"
  /\ UNCHANGED <<motorUnit, raised, returned, jogging>>

\* _line_step() notes the motor's unit before it asks for it.
NextStep(done) ==
  /\ step' = done
  /\ pc' = IF done < Len(Steps) THEN "wakeStep"
           ELSE IF profile = "auto" THEN "probe" ELSE "latch"
  /\ motorUnit' = (motorUnit \/ (done < Len(Steps) /\ Steps[done + 1] = "select"))
  /\ UNCHANGED <<cand, tries, hasDrive, raised, returned, jogging>>

\* auto_wake(): the next candidate, or DriveError.
NextCandidate == IF cand < Len(Profiles) THEN StartWake(cand + 1) ELSE Leave

\* auto_wake(): no answer, or the wake is not supported; a motor goes back off.
NoAnswer ==
  IF motorUnit
  THEN /\ pc' = "undoMotor" /\ motorUnit' = FALSE
       /\ UNCHANGED <<cand, step, tries, hasDrive, raised, returned, jogging>>
  ELSE NextCandidate

\* auto_wake() returns, or wake() does: the session's body.
Woken ==
  /\ pc' = "move" /\ hasDrive' = TRUE
  /\ UNCHANGED <<cand, step, tries, motorUnit, raised, returned, jogging>>

\* jog(): past its motion command, in the try block.
IntoTry == pc' = "poll" /\ jogging' = TRUE
           /\ UNCHANGED <<cand, step, tries, motorUnit, hasDrive, raised, returned>>

\* jog(): the finally block, on the way out with an exception.
Raise == pc' = "stop" /\ raised' = TRUE
         /\ UNCHANGED <<cand, step, tries, motorUnit, hasDrive, returned, jogging>>

\* jog() is over: it returns the status it settled on, or lets the exception go.
JogReturns == Release /\ returned' = ~raised

\* What a status report leads to once its error code, if any, is read.
StatusReadAtOnce(at, isReady) ==   \* mutant: no wait for Ready after Stop Tape
  CASE at = "latch"  -> Woken
    [] at = "poll"   -> Goto("stop") \/ (~isReady /\ Goto("poll"))
    [] at = "settle" -> JogReturns
StatusRead(at, isReady) ==
  CASE at = "latch"  -> Woken
    [] at = "poll"   -> Goto("stop") \/ (~isReady /\ Goto("poll"))
    [] at = "settle" -> (isReady /\ JogReturns)
                        \/ (~isReady /\ (Goto("settle") \/ Leave))

StatusPlaces == {"latch", "poll", "settle"}
CodePlaces   == [latchCode |-> "latch", pollCode |-> "poll", settleCode |-> "settle"]
CodePlaceOf  == [latch |-> "latchCode", poll |-> "pollCode", settle |-> "settleCode"]

-----------------------------------------------------------------------------
(* The host. *)

What == CASE pc = "wakeStep"                           -> Steps[step + 1]
          [] pc \in {"probe"} \cup StatusPlaces        -> "status"
          [] pc \in DOMAIN CodePlaces                  -> "errorCode"
          [] pc \in {"undoMotor", "motorOff"}          -> "motorOff"
          [] pc \in {"clear", "undoSelect", "releaseSelect", "deselect"} -> "deselect"
          [] pc \in {"identify", "timing", "move", "stop"} -> pc

Send ==
  /\ pc # "closed" /\ Ask(Request(What, cand))
  /\ UNCHANGED <<hostVars, boardVars>>

\* command_txn(): a report without its ACK or Final bit is a LinkError.
ReportIn(a) == What \in {"status", "errorCode"} => a.report

\* The exchange gave an answer that stands.
Ok(a) ==
  CASE pc = "identify"   -> Goto("clear")
    [] pc = "clear"      -> StartWake(cand)
    [] pc = "timing"     -> NextStep(0)
    [] pc = "wakeStep"   -> NextStep(step + 1)
    [] pc = "probe"      -> Goto("latch")
    [] pc \in StatusPlaces ->
         IF a.ready /\ a.error THEN Goto(CodePlaceOf[pc]) ELSE StatusRead(pc, a.ready)
    [] pc \in DOMAIN CodePlaces -> StatusRead(CodePlaces[pc], TRUE)
    [] pc = "undoMotor"  -> Goto("undoSelect")
    [] pc = "undoSelect" -> NextCandidate
    [] pc = "move"       -> IntoTry
    [] pc = "stop"       -> Goto("settle")
    [] pc = "motorOff"   -> Goto("releaseSelect")
    [] pc = "releaseSelect" -> Goto("deselect")
    [] pc = "deselect"   -> Goto("closed")

\* _ftape_answer(): a status try failed.
TryAgain == UNCHANGED <<pc, cand, step, motorUnit, hasDrive, raised, returned, jogging>>
RetryForever ==   \* mutant: tries are not counted
  tries' = tries /\ TryAgain
Retry == IF tries + 1 < Tries THEN tries' = tries + 1 /\ TryAgain ELSE NoAnswer

\* Where every exception goes straight to the session's finally.
Leaving == {"identify", "clear", "latch", "latchCode", "undoSelect", "move", "stop",
            "settle", "settleCode"}

\* The exchange ended in a LinkError that is not one of _LINK_FATAL.
Fail ==
  CASE pc \in {"timing", "wakeStep"} -> IF profile = "auto" THEN NoAnswer ELSE Leave
    [] pc = "probe"     -> Retry
    [] pc = "undoMotor" -> Goto("undoSelect")
    [] pc \in {"poll", "pollCode"} -> Raise
    [] pc = "motorOff"  -> Goto("releaseSelect")
    [] pc \in {"releaseSelect", "deselect"} -> Goto("closed")
    [] pc \in Leaving -> Leave

\* KeyboardInterrupt.
Unwind ==
  CASE pc \in {"poll", "pollCode"} -> Raise
    [] pc \in {"motorOff", "releaseSelect", "deselect"} -> Goto("closed")
    [] pc \in Leaving \cup {"timing", "wakeStep", "probe", "undoMotor"} -> Leave

Receive ==
  /\ ReadAnswer
  /\ IF ReportIn(Head(toHost)) THEN Ok(Head(toHost)) ELSE Fail
  /\ UNCHANGED <<profile, cut, boardVars>>

Desync == ReadMismatch /\ Fail /\ UNCHANGED <<profile, cut, boardVars>>

Timeout == ReadTimesOut /\ Fail /\ UNCHANGED <<profile, cut, boardVars>>

\* Ctrl-C with a request out, or with its answer just read.
CtrlC ==
  /\ ReadInterrupted \/ ReadAnswer
  /\ Unwind
  /\ UNCHANGED <<profile, cut, boardVars>>

\* Ctrl-C between two exchanges.  At "stop" it may still strike in the try block;
\* in a finally block what was to be asked for next is never asked for.
CleanUp == {"stop", "motorOff", "deselect"}
CtrlCBetween ==
  /\ pc # "closed" /\ NotAsked
  /\ \/ Unwind /\ cut' = cut \cup ({What} \cap CleanUp)
     \/ pc = "stop" /\ ~raised /\ Raise /\ UNCHANGED cut
  /\ UNCHANGED <<profile, boardVars>>

Next == Send \/ Receive \/ Desync \/ Timeout \/ CtrlC \/ CtrlCBetween \/ Execute \/ TapeEnds

Spec == Init /\ [][Next]_vars

\* The session's own steps and the board's; and polling ends, by Ready or by
\* its deadline.
FairSpec == Spec /\ WF_vars(Send) /\ WF_vars(Receive \/ Desync) /\ WF_vars(Execute)
                 /\ SF_vars(Receive /\ pc' # pc)

-----------------------------------------------------------------------------
(* Properties. *)

Places == {"identify", "clear", "timing", "wakeStep", "probe", "move", "stop", "undoMotor",
           "undoSelect", "motorOff", "releaseSelect", "deselect", "closed"}
          \cup StatusPlaces \cup DOMAIN CodePlaces

TypeOK ==
  /\ pc \in Places /\ cand \in DOMAIN Profiles /\ step \in 0 .. Len(Steps)
  /\ tries \in 0 .. Tries - 1 /\ stalls \in 0 .. MaxStalls
  /\ {motorUnit, hasDrive, raised, returned, jogging} \subseteq BOOLEAN /\ cut \subseteq CleanUp
  /\ {phantom, motor, selected, latched} \subseteq BOOLEAN
  /\ tape \in {"still", "moving"} /\ Len(toBoard) <= MaxStalls + 2

\* The board has done everything the session asked of it.
Over == pc = "closed" /\ toBoard = <<>>

\* auto_wake() settles on a profile only for an answer to a probe sent under
\* that profile's own wake, however late the answers to earlier probes come:
\* the exchange that pushes the timing finds a late answer out first.
WinnerAnswered ==
  [][pc = "probe" /\ pc' = "latch" => Head(toHost).what = "status" /\ Head(toHost).by = cand]_vars

\* Once a jog came to its try block the tape is stopped, whatever was late, out of
\* step or interrupted, unless a Ctrl-C struck in the finally block itself before
\* Stop Tape was written (drive.py:211-213).
JoggedIsStopped == Over /\ jogging /\ "stop" \notin cut => tape = "still"

\* A session that had its drive leaves no motor on, unless a Ctrl-C struck where
\* the motor is given back, before that was written (session.py:83-86).
MotorIsOff == Over /\ hasDrive /\ "motorOff" \notin cut => ~motor

\* A jog leaves the drive at rest.  The status it returns is true: the tape has
\* stopped by then, though answers may be several exchanges behind (not so if error
\* codes were read: a late one, taken for a status, may have the Ready bit).  And it
\* ends with the tape stopped and the motor off, but for a Ctrl-C that keeps the
\* clean-up itself from being asked for.
JogEndsStill ==
  /\ returned /\ ~hadError => tape = "still"
  /\ JoggedIsStopped /\ MotorIsOff

\* A session ends.
SessionEnds == <>(pc = "closed")

-----------------------------------------------------------------------------
(* What the repository's comments say and the code does not do. *)

\* drive.py:180-181, "ALWAYS send Stop Tape on the way out -- including on Ctrl-C
\* or a link error -- so the tape is never left running".  Said here even of the
\* sessions whose clean-up no Ctrl-C disturbed.
NeverLeftRunning == Over /\ cut = {} => tape = "still"

=============================================================================
