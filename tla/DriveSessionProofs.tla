------------------------- MODULE DriveSessionProofs -------------------------
(***************************************************************************)
(* Theorems about DriveSession, for any number of late answers: a jog that   *)
(* came to its try block ends with the tape stopped, a session that had its  *)
(* drive ends with the motor off, and auto-detection credits no profile with *)
(* the answer to another one's probe.  And with at most four status tries,   *)
(* jog() returns no status but that of a drive at rest.                      *)
(*                                                                         *)
(* The first two trust no answer: the host may go on for whatever it reads,  *)
(* or leave, and what counts is the order of what it asks of the board.      *)
(* What counts for the others is which answers may be on their way, and how  *)
(* many, at each place of the session.                                       *)
(***************************************************************************)
EXTENDS DriveSession, TLAPS

(********************************* Types *********************************)

\* What may be asked, and where the session may be.
Whats == {"identify", "deselect", "timing", "wake", "select", "motorOn", "motorOff", "status",
          "errorCode", "move", "stop"}
Requests == {Request(w, c) : w \in Whats, c \in DOMAIN Profiles}

Early   == {"identify", "clear", "timing", "wakeStep", "probe", "latch", "latchCode", "undoMotor",
            "undoSelect"}
Polling == {"poll", "pollCode"}
Closing == {"motorOff", "releaseSelect", "deselect", "closed"}
Ending  == {"settle", "settleCode"} \cup Closing
Phases  == Early \cup {"move", "stop"} \cup Polling \cup Ending

\* A wake step that is to be made is one of the profile's.
Typed ==
  /\ pc \in Phases /\ cand \in 1 .. 3 /\ step \in Nat
  /\ pc = "wakeStep" => step < Len(Steps)
  /\ pc = "closed" => asked = Nobody
  /\ motorUnit \in BOOLEAN /\ hasDrive \in BOOLEAN /\ jogging \in BOOLEAN
  /\ phantom \in BOOLEAN /\ motor \in BOOLEAN /\ selected \in BOOLEAN
  /\ tape \in {"still", "moving"} /\ toBoard \in Seq(Requests)

\* AUTO_ORDER and its wake steps, entry by entry.
LEMMA StepsAre ==
  ASSUME NEW c \in 1 .. 3
  PROVE  /\ WakeSteps[Profiles[1]] = <<>> /\ WakeSteps[Profiles[2]] = <<"wake">>
         /\ WakeSteps[Profiles[3]] = <<"select", "motorOn">>
         /\ Len(Profiles) = 3 /\ DOMAIN Profiles = 1 .. 3
         /\ (Profiles[c] = "insight" <=> c = 3)
BY DEF WakeSteps, Profiles

\* A wake step is no motion; only the third profile's second step is the motor.
LEMMA WakeStepIs ==
  ASSUME cand \in 1 .. 3, NEW n \in Nat, n < Len(Steps)
  PROVE  /\ Steps[n + 1] \in {"wake", "select", "motorOn"}
         /\ cand # 1 /\ (cand = 2 => n = 0 /\ Steps[n + 1] = "wake")
         /\ cand = 3 => n \in {0, 1} /\ (n = 0 => Steps[n + 1] = "select")
                        /\ (n = 1 => Steps[n + 1] = "motorOn")
<1>1. CASE cand = 1
  <2>1. Steps = <<>>
    BY <1>1, StepsAre DEF Steps
  <2> QED BY <2>1
<1>2. CASE cand = 2
  <2>1. Steps = <<"wake">>
    BY <1>2, StepsAre DEF Steps
  <2> QED BY <1>2, <2>1
<1>3. CASE cand = 3
  <2>1. Steps = <<"select", "motorOn">>
    BY <1>3, StepsAre DEF Steps
  <2>2. n \in {0, 1}
    BY <2>1
  <2> QED BY <1>3, <2>1, <2>2
<1> QED BY <1>1, <1>2, <1>3

\* Only "move" asks for motion, and the motor is asked for by its wake step alone.
LEMMA WhatIs ==
  ASSUME Typed, pc # "closed"
  PROVE  /\ What \in Whats
         /\ What = "move" <=> pc = "move"
         /\ pc = "stop" => What = "stop"
         /\ What = "motorOn" => pc = "wakeStep" /\ cand = 3 /\ step = 1
         /\ pc \in {"undoMotor", "motorOff"} => What = "motorOff"
         /\ pc \in Polling => What \in {"status", "errorCode"}
         /\ pc = "wakeStep" => What \in {"wake", "select", "motorOn"}
<1>1. CASE pc = "wakeStep"
  <2>1. What = Steps[step + 1]
    BY <1>1 DEF What, StatusPlaces, CodePlaces
  <2>2. step \in Nat /\ step < Len(Steps) /\ cand \in 1 .. 3
    BY <1>1 DEF Typed
  <2> QED BY <1>1, <2>1, <2>2, WakeStepIs DEF Whats, Polling
<1>2. CASE pc # "wakeStep"
  BY <1>2 DEF What, Typed, Phases, Early, Polling, Ending, Closing, Whats, StatusPlaces, CodePlaces
<1> QED BY <1>1, <1>2

(**************************** Turns of the host ****************************)

\* What a host step may change, by where it is.
Turn ==
  /\ cand' \in 1 .. 3 /\ step' \in Nat /\ (pc' = "wakeStep" => step' < Len(Steps'))
  /\ motorUnit' \in BOOLEAN /\ hasDrive' \in BOOLEAN /\ jogging' \in BOOLEAN
  /\ pc \in Early => pc' \in Early \cup {"move"} \cup Closing /\ jogging' = jogging
  /\ pc = "move" => (pc' = "poll" /\ jogging') \/ (pc' \in Closing /\ jogging' = jogging)
  /\ pc \in Polling => pc' \in Polling \cup {"stop"} /\ jogging' = jogging
  /\ pc \in {"stop"} \cup Ending => pc' \in Ending /\ jogging' = jogging

\* What becomes of the motor's unit.
MotorTurn ==
  /\ motorUnit => motorUnit' \/ pc' \in {"undoMotor", "motorOff"}
  /\ pc' = "wakeStep" /\ cand' = 3 => motorUnit'
  /\ pc' \in Closing /\ hasDrive' => ~motorUnit'

\* The third profile has noted its motor before the motor is asked for, and who leaves
\* has given it back.
MotorNoted ==
  /\ pc = "wakeStep" /\ cand = 3 => motorUnit
  /\ pc \in Closing /\ hasDrive => ~motorUnit

\* From one exchange to the next.
LEMMA GotoIs ==
  ASSUME Typed, MotorNoted, NEW p \in Phases \ {"wakeStep"}, Goto(p)
  PROVE  /\ pc' = p /\ cand' = cand /\ step' = step /\ motorUnit' = motorUnit
         /\ hasDrive' = hasDrive /\ jogging' = jogging
         /\ p \notin Closing \/ pc \in Closing => MotorTurn
BY DEF Typed, MotorNoted, Goto, MotorTurn

\* _drive_session()'s finally: a drive whose motor is noted has it switched off.
LEMMA LeaveIs ==
  ASSUME Typed, Release
  PROVE  /\ pc' \in {"motorOff", "deselect"} /\ MotorTurn
         /\ cand' = cand /\ step' = step /\ jogging' = jogging
         /\ motorUnit' \in BOOLEAN /\ hasDrive' = hasDrive
BY DEF Typed, Release, MotorTurn

\* set_timing() comes first in a wake.
LEMMA StartWakeIs ==
  ASSUME Typed, NEW c \in 1 .. 3, StartWake(c)
  PROVE  pc' = "timing" /\ cand' = c /\ step' = 0 /\ jogging' = jogging
         /\ motorUnit' = motorUnit /\ hasDrive' \in BOOLEAN /\ MotorTurn
BY DEF Typed, StartWake, MotorTurn, Closing

\* A wake step is one of the profile's; the select of the third notes the motor.
LEMMA NextStepIs ==
  ASSUME Typed, MotorNoted, NEW n \in Nat, NextStep(n), n = 0 \/ (pc = "wakeStep" /\ n = step + 1)
  PROVE  /\ pc' \in {"wakeStep", "probe", "latch"} /\ cand' = cand /\ step' = n
         /\ pc' = "wakeStep" => step' < Len(Steps')
         /\ jogging' = jogging /\ motorUnit' \in BOOLEAN /\ hasDrive' = hasDrive /\ MotorTurn
<1>1. /\ cand' = cand /\ step' = n /\ jogging' = jogging /\ hasDrive' = hasDrive
      /\ pc' = (IF n < Len(Steps) THEN "wakeStep" ELSE IF profile = "auto" THEN "probe" ELSE "latch")
      /\ motorUnit' = (motorUnit \/ (n < Len(Steps) /\ Steps[n + 1] = "select"))
  BY DEF NextStep
<1>2. Steps' = Steps
  BY <1>1 DEF Steps
<1>3. pc' \in {"wakeStep", "probe", "latch"} /\ (pc' = "wakeStep" => n < Len(Steps))
  BY <1>1
<1>4. motorUnit' \in BOOLEAN
  BY <1>1
<1>5. ASSUME pc' = "wakeStep", cand' = 3 PROVE motorUnit'
  <2>1. n < Len(Steps) /\ cand = 3 /\ cand \in 1 .. 3
    BY <1>1, <1>3, <1>5 DEF Typed
  <2>2. CASE n = 0
    BY <1>1, <2>1, <2>2, WakeStepIs
  <2>3. CASE n # 0
    BY <1>1, <2>1, <2>3 DEF MotorNoted
  <2> QED BY <2>2, <2>3
<1> QED BY <1>1, <1>2, <1>3, <1>4, <1>5 DEF MotorTurn, Closing, Typed

\* The same as turns, each from the places where it is taken.
LEMMA GotoTurn ==
  ASSUME Typed, MotorNoted, NEW p \in Phases \ {"wakeStep"}, Goto(p),
         \/ pc \in Early /\ p \in Early
         \/ pc \in Polling /\ p \in Polling \cup {"stop"}
         \/ pc \in {"stop", "settle", "settleCode"} /\ p \in {"settle", "settleCode"}
         \/ pc \in Closing /\ p \in Closing
  PROVE  Turn /\ MotorTurn
<1>1. p \notin Closing \/ pc \in Closing
  BY DEF Early, Polling, Closing
<1> QED BY <1>1, GotoIs DEF Turn, Typed, Early, Polling, Closing, Ending

\* Leaving from outside the jog's polls.
LEMMA LeaveTurn ==
  ASSUME Typed, Release, pc \notin Polling
  PROVE  Turn /\ MotorTurn
BY LeaveIs DEF Turn, Typed, Early, Polling, Closing, Ending

\* auto_wake() goes on, or raises DriveError.
LEMMA NextCandidateTurn ==
  ASSUME Typed, NextCandidate, pc \in Early
  PROVE  Turn /\ MotorTurn
<1>1. CASE cand < Len(Profiles)
  <2>1. cand + 1 \in 1 .. 3 /\ StartWake(cand + 1)
    <3>1. cand \in 1 .. 3 /\ Len(Profiles) = 3
      BY StepsAre DEF Typed
    <3> QED BY <1>1, <3>1 DEF NextCandidate
  <2> QED BY <2>1, StartWakeIs DEF Turn, Typed, Early, Polling, Ending, Closing
<1>2. CASE ~(cand < Len(Profiles))
  <2>1. Release /\ pc \notin Polling
    BY <1>2 DEF NextCandidate, Leave, Early, Polling
  <2> QED BY <2>1, LeaveTurn
<1> QED BY <1>1, <1>2

\* auto_wake() gets no answer; a noted motor is switched off first.
LEMMA NoAnswerTurn ==
  ASSUME Typed, NoAnswer, pc \in Early
  PROVE  Turn /\ MotorTurn
<1>1. CASE motorUnit
  BY <1>1 DEF NoAnswer, Turn, MotorTurn, Typed, Early, Polling, Ending, Closing
<1>2. CASE ~motorUnit
  BY <1>2, NextCandidateTurn DEF NoAnswer
<1> QED BY <1>1, <1>2

\* run_wake_steps() goes on.
LEMMA NextStepTurn ==
  ASSUME Typed, MotorNoted, NEW n \in Nat, NextStep(n),
         (pc = "timing" /\ n = 0) \/ (pc = "wakeStep" /\ n = step + 1)
  PROVE  Turn /\ MotorTurn
<1>1. n = 0 \/ (pc = "wakeStep" /\ n = step + 1)
  OBVIOUS
<1> QED BY <1>1, NextStepIs DEF Turn, Typed, Early, Polling, Ending, Closing

\* The session's body begins.
LEMMA WokenTurn ==
  ASSUME Typed, Woken, pc \in Early
  PROVE  Turn /\ MotorTurn
BY DEF Woken, Turn, MotorTurn, Typed, Early, Polling, Ending, Closing

\* A status that was read, with its error code if there was one.
LEMMA StatusReadTurn ==
  ASSUME Typed, MotorNoted, NEW at, NEW isReady, StatusRead(at, isReady),
         \/ at = "latch" /\ pc \in {"latch", "latchCode"}
         \/ at = "poll" /\ pc \in Polling
         \/ at = "settle" /\ pc \in {"settle", "settleCode"}
  PROVE  Turn /\ MotorTurn
<1>1. CASE at = "latch" /\ pc \in {"latch", "latchCode"}
  <2>1. Woken /\ pc \in Early
    BY <1>1 DEF StatusRead, Early
  <2> QED BY <2>1, WokenTurn
<1>2. CASE at = "poll" /\ pc \in Polling
  <2>1. Goto("stop") \/ Goto("poll")
    BY <1>2 DEF StatusRead
  <2>2. {"stop", "poll"} \subseteq Phases \ {"wakeStep"} /\ {"stop", "poll"} \subseteq Polling \cup {"stop"}
    BY DEF Phases, Polling
  <2> QED BY <1>2, <2>1, <2>2, GotoTurn
<1>3. CASE at = "settle" /\ pc \in {"settle", "settleCode"}
  <2>1. Release \/ Goto("settle")
    BY <1>3 DEF StatusRead, JogReturns, Leave
  <2>2. "settle" \in Phases \ {"wakeStep"} /\ pc \notin Polling
    BY <1>3 DEF Phases, Ending, Polling
  <2> QED BY <1>3, <2>1, <2>2, GotoTurn, LeaveTurn
<1> QED BY <1>1, <1>2, <1>3

\* An exception while the tape runs goes through jog()'s finally.
LEMMA RaiseTurn ==
  ASSUME Typed, Raise, pc \in Polling
  PROVE  Turn /\ MotorTurn
BY DEF Raise, Turn, MotorTurn, Typed, Early, Polling, Ending, Closing

\* An answer that stands, wherever it is read.
LEMMA OkTurn ==
  ASSUME Typed, MotorNoted, NEW a, Ok(a), pc # "closed"
  PROVE  Turn /\ MotorTurn
<1> USE DEF StatusPlaces, CodePlaces
<1>1. CASE pc \in {"identify", "probe", "undoMotor"}
  <2>1. \E p \in {"clear", "latch", "undoSelect"} : Goto(p)
    BY <1>1 DEF Ok
  <2>2. pc \in Early /\ {"clear", "latch", "undoSelect"} \subseteq Early \cap (Phases \ {"wakeStep"})
    BY <1>1 DEF Early, Phases
  <2> QED BY <2>1, <2>2, GotoTurn
<1>2. CASE pc = "clear"
  <2>1. StartWake(cand) /\ cand \in 1 .. 3
    BY <1>2 DEF Ok, Typed
  <2> QED BY <1>2, <2>1, StartWakeIs DEF Turn, Typed, Early, Polling, Ending, Closing
<1>3. CASE pc = "timing"
  <2>1. NextStep(0)
    BY <1>3 DEF Ok
  <2> QED BY <1>3, <2>1, NextStepTurn
<1>4. CASE pc = "wakeStep"
  <2>1. NextStep(step + 1) /\ step + 1 \in Nat
    BY <1>4 DEF Ok, Typed
  <2> QED BY <1>4, <2>1, NextStepTurn
<1>5. CASE pc \in {"latch", "poll", "settle"}
  <2>1. (a.ready /\ a.error /\ Goto(CodePlaceOf[pc])) \/ StatusRead(pc, a.ready)
    BY <1>5 DEF Ok
  <2>2. CASE StatusRead(pc, a.ready)
    BY <1>5, <2>2, StatusReadTurn DEF Polling
  <2>3. CASE Goto(CodePlaceOf[pc])
    <3>1. /\ CodePlaceOf[pc] \in Phases \ {"wakeStep"}
          /\ pc = "latch" => CodePlaceOf[pc] = "latchCode"
          /\ pc = "poll" => CodePlaceOf[pc] = "pollCode"
          /\ pc = "settle" => CodePlaceOf[pc] = "settleCode"
      BY <1>5 DEF CodePlaceOf, Phases, Early, Polling, Ending
    <3> QED BY <1>5, <2>3, <3>1, GotoTurn DEF Early, Polling
  <2> QED BY <2>1, <2>2, <2>3
<1>6. CASE pc \in {"latchCode", "pollCode", "settleCode"}
  <2>1. StatusRead(CodePlaces[pc], TRUE)
    BY <1>6 DEF Ok
  <2>2. /\ pc = "latchCode" => CodePlaces[pc] = "latch"
        /\ pc = "pollCode" => CodePlaces[pc] = "poll"
        /\ pc = "settleCode" => CodePlaces[pc] = "settle"
    BY <1>6
  <2> QED BY <1>6, <2>1, <2>2, StatusReadTurn DEF Polling
<1>7. CASE pc = "undoSelect"
  <2>1. NextCandidate
    BY <1>7 DEF Ok
  <2> QED BY <1>7, <2>1, NextCandidateTurn DEF Early
<1>8. CASE pc = "move"
  <2>1. IntoTry
    BY <1>8 DEF Ok
  <2> QED BY <1>8, <2>1 DEF IntoTry, Turn, MotorTurn, Typed, Early, Polling, Ending, Closing
<1>9. CASE pc = "stop"
  <2>1. Goto("settle")
    BY <1>9 DEF Ok
  <2> QED BY <1>9, <2>1, GotoTurn DEF Phases, Ending
<1>10. CASE pc \in {"motorOff", "releaseSelect", "deselect"}
  <2>1. \E p \in {"releaseSelect", "deselect", "closed"} : Goto(p)
    BY <1>10 DEF Ok
  <2>2. pc \in Closing /\ {"releaseSelect", "deselect", "closed"} \subseteq Closing \cap (Phases \ {"wakeStep"})
    BY <1>10 DEF Closing, Phases, Ending
  <2> QED BY <2>1, <2>2, GotoTurn
<1> QED BY <1>1, <1>2, <1>3, <1>4, <1>5, <1>6, <1>7, <1>8, <1>9, <1>10
        DEF Typed, Phases, Early, Polling, Ending, Closing

\* A link error, wherever it is raised.
LEMMA FailTurn ==
  ASSUME Typed, MotorNoted, Fail, pc # "closed"
  PROVE  Turn /\ MotorTurn
<1> USE DEF Leaving
<1>1. CASE pc \in {"timing", "wakeStep"}
  <2>1. NoAnswer \/ Release
    BY <1>1 DEF Fail, Leave
  <2>2. pc \in Early /\ pc \notin Polling
    BY <1>1 DEF Early, Polling
  <2> QED BY <2>1, <2>2, NoAnswerTurn, LeaveTurn
<1>2. CASE pc = "probe"
  <2>1. NoAnswer \/ TryAgain
    BY <1>2 DEF Fail, Retry
  <2>2. CASE TryAgain
    BY <1>2, <2>2 DEF TryAgain, Turn, MotorTurn, Typed, Early, Polling, Ending, Closing
  <2>3. CASE NoAnswer
    BY <1>2, <2>3, NoAnswerTurn DEF Early
  <2> QED BY <2>1, <2>2, <2>3
<1>3. CASE pc = "undoMotor"
  <2>1. Goto("undoSelect")
    BY <1>3 DEF Fail
  <2> QED BY <1>3, <2>1, GotoTurn DEF Phases, Early
<1>4. CASE pc \in {"poll", "pollCode"}
  <2>1. Raise
    BY <1>4 DEF Fail
  <2> QED BY <1>4, <2>1, RaiseTurn DEF Polling
<1>5. CASE pc \in {"motorOff", "releaseSelect", "deselect"}
  <2>1. Goto("releaseSelect") \/ Goto("closed")
    BY <1>5 DEF Fail
  <2>2. pc \in Closing /\ {"releaseSelect", "closed"} \subseteq Closing \cap (Phases \ {"wakeStep"})
    BY <1>5 DEF Closing, Phases, Ending
  <2> QED BY <2>1, <2>2, GotoTurn
<1>6. CASE pc \in Leaving
  <2>1. Release /\ pc \notin Polling
    BY <1>6 DEF Fail, Leave, Polling
  <2> QED BY <2>1, LeaveTurn
<1> QED BY <1>1, <1>2, <1>3, <1>4, <1>5, <1>6 DEF Typed, Phases, Early, Polling, Ending, Closing

\* Ctrl-C, wherever it lands.
LEMMA UnwindTurn ==
  ASSUME Typed, MotorNoted, Unwind, pc # "closed"
  PROVE  Turn /\ MotorTurn
<1> USE DEF Leaving
<1>1. CASE pc \in {"poll", "pollCode"}
  <2>1. Raise
    BY <1>1 DEF Unwind
  <2> QED BY <1>1, <2>1, RaiseTurn DEF Polling
<1>2. CASE pc \in {"motorOff", "releaseSelect", "deselect"}
  <2>1. Goto("closed")
    BY <1>2 DEF Unwind
  <2>2. pc \in Closing /\ "closed" \in Closing \cap (Phases \ {"wakeStep"})
    BY <1>2 DEF Closing, Phases, Ending
  <2> QED BY <2>1, <2>2, GotoTurn
<1>3. CASE pc \in Leaving \cup {"timing", "wakeStep", "probe", "undoMotor"}
  <2>1. Release /\ pc \notin Polling
    BY <1>3 DEF Unwind, Leave, Polling
  <2> QED BY <2>1, LeaveTurn
<1> QED BY <1>1, <1>2, <1>3 DEF Typed, Phases, Early, Polling, Ending, Closing

(****************** What is on its way to the board ******************)

\* A sequence and one more.
LEMMA AppendAt ==
  ASSUME NEW S, NEW s \in Seq(S), NEW x \in S
  PROVE  /\ Append(s, x) \in Seq(S) /\ Len(Append(s, x)) = Len(s) + 1 /\ Len(s) \in Nat
         /\ Append(s, x)[Len(s) + 1] = x
         /\ \A i \in 1 .. Len(s) : Append(s, x)[i] = s[i]
OBVIOUS

\* A sequence without its first.
LEMMA TailAt ==
  ASSUME NEW S, NEW s \in Seq(S), s # <<>>
  PROVE  /\ Tail(s) \in Seq(S) /\ Len(Tail(s)) = Len(s) - 1 /\ Len(s) \in Nat \ {0}
         /\ Head(s) = s[1]
         /\ \A i \in 1 .. Len(s) - 1 : Tail(s)[i] = s[i + 1]
OBVIOUS

Offs == {"motorOff", "deselect"}

\* The tape does not lose its drive to the first n requests: where it runs, or they set
\* it running, the lines it listens on stay.
Held(n) ==
  /\ \A k, j \in 1 .. n : k < j /\ toBoard[k].what = "move" => toBoard[j].what \notin Offs
  /\ tape = "moving" => Listening /\ \A j \in 1 .. n : toBoard[j].what \notin Offs
NoMoveAfter(n) == \A j \in 1 .. Len(toBoard) : j > n => toBoard[j].what # "move"
StopComes == \E i \in 1 .. Len(toBoard) :
               toBoard[i].what = "stop" /\ Held(i - 1) /\ NoMoveAfter(i)
Resting == tape = "still" /\ NoMoveAfter(0)

\* Nothing moves before the jog asks for it; until the jog has asked for its stop, the
\* tape keeps its drive; from then on that stop is on its way, or was executed, unless
\* Ctrl-C kept it from being written.
Stopping ==
  /\ pc \in Early \/ (pc = "move" /\ asked = Nobody) => Resting
  /\ pc \in {"move"} \cup Polling \/ (pc = "stop" /\ asked = Nobody) => Held(Len(toBoard))
  /\ jogging /\ "stop" \notin cut /\ (pc \in Ending \/ (pc = "stop" /\ asked # Nobody)) =>
       Resting \/ StopComes
  /\ pc \in Early \cup {"move"} => ~jogging

\* While the motor is on, or is to be, the session knows of it or its end is on its way,
\* unless Ctrl-C kept that from being written.
MotorKnown ==
  motor \/ (\E j \in 1 .. Len(toBoard) : toBoard[j].what = "motorOn") =>
    \/ motorUnit
    \/ "motorOff" \in cut
    \/ pc \in {"undoMotor", "motorOff"} /\ asked = Nobody
    \/ \E i \in 1 .. Len(toBoard) :
         /\ toBoard[i].what = "motorOff"
         /\ \A j \in 1 .. Len(toBoard) : j > i => toBoard[j].what # "motorOn"

\* The inductive invariant.
IInv == Typed /\ MotorNoted /\ Stopping /\ MotorKnown

\* A request goes behind everything that is on its way.
LEMMA SendIs ==
  ASSUME IInv, Send
  PROVE  IInv'
<1> DEFINE r == Request(What, cand)
<1>1. /\ pc # "closed" /\ asked = Nobody /\ asked' = r /\ toBoard' = Append(toBoard, r)
      /\ UNCHANGED <<hostVars, boardVars>>
  BY DEF Send, Ask
<1>2. Typed /\ What \in Whats
  BY <1>1, WhatIs DEF IInv
<1>3. r \in Requests /\ r.what = What /\ r # Nobody
  <2>1. cand \in DOMAIN Profiles
    BY <1>2, StepsAre DEF Typed
  <2>2. r.what = What
    BY DEF Request
  <2>3. Nobody.what = "none" /\ What # "none"
    BY <1>2 DEF Nobody, Whats
  <2> QED BY <1>2, <2>1, <2>2, <2>3 DEF Requests
<1> HIDE DEF r
<1>9. PICK n \in Nat : n = Len(toBoard)
  BY <1>2, AppendAt, <1>3 DEF Typed
<1>4. /\ toBoard' \in Seq(Requests) /\ Len(toBoard') = n + 1 /\ n \in Nat
      /\ toBoard'[n + 1].what = What
      /\ \A i \in 1 .. n : toBoard'[i] = toBoard[i]
  BY <1>1, <1>2, <1>3, <1>9, AppendAt DEF Typed
<1>5. Typed' /\ MotorNoted'
  BY <1>1, <1>4 DEF IInv, Typed, MotorNoted, hostVars, boardVars, Steps
<1>6. /\ pc' = pc /\ jogging' = jogging /\ tape' = tape /\ motor' = motor /\ motorUnit' = motorUnit
      /\ cut' = cut /\ (Listening' <=> Listening) /\ asked' # Nobody
  BY <1>1, <1>3 DEF hostVars, boardVars, Listening
<1>7. Stopping'
  <2>1. ASSUME NEW m \in 0 .. n, Held(m) PROVE Held(m)'
    BY <1>4, <1>6, <2>1 DEF Held
  <2>2. ASSUME Held(n), What \notin Offs PROVE Held(n + 1)'
    <3>1. Held(n)'
      BY <1>4, <2>1, <2>2
    <3> QED BY <1>4, <2>2, <3>1 DEF Held
  <2>3. ASSUME NEW m \in 0 .. n, NoMoveAfter(m), What # "move" PROVE NoMoveAfter(m)'
    BY <1>9, <1>4, <2>3 DEF NoMoveAfter
  <2>4. CASE pc \in Early
    <3>1. Resting /\ ~jogging /\ What # "move"
      BY <1>1, <1>2, <2>4, WhatIs DEF IInv, Stopping, Early
    <3>2. Resting'
      BY <1>4, <1>6, <2>3, <3>1 DEF Resting
    <3> QED BY <1>6, <2>4, <3>1, <3>2 DEF Stopping, Early, Polling, Ending, Closing
  <2>5. CASE pc = "move"
    <3>1. Resting /\ ~jogging
      BY <1>1, <2>5 DEF IInv, Stopping
    <3>2. Held(n + 1)'
      <4>1. tape' = "still" /\ \A j \in 1 .. n : toBoard'[j].what # "move"
        BY <1>9, <1>4, <1>6, <3>1 DEF Resting, NoMoveAfter
      <4> QED BY <1>4, <4>1 DEF Held
    <3> QED BY <1>4, <1>6, <2>5, <3>1, <3>2 DEF Stopping, Early, Polling, Ending, Closing
  <2>6. CASE pc \in Polling
    <3>1. Held(n) /\ What \notin Offs
      BY <1>9, <1>1, <1>2, <2>6, WhatIs DEF IInv, Stopping, Offs
    <3>2. Held(n + 1)'
      BY <2>2, <3>1
    <3> QED BY <1>4, <1>6, <2>6, <3>2 DEF Stopping, Early, Polling, Ending, Closing
  <2>7. CASE pc = "stop"
    <3>1. Held(n) /\ What = "stop"
      BY <1>9, <1>1, <1>2, <2>7, WhatIs DEF IInv, Stopping
    <3>2. Held(n)'
      BY <1>4, <2>1, <3>1
    <3>3. StopComes'
      <4>1. n + 1 \in 1 .. Len(toBoard') /\ (n + 1) - 1 = n /\ NoMoveAfter(n + 1)'
        BY <1>4 DEF NoMoveAfter
      <4> QED BY <1>4, <3>1, <3>2, <4>1 DEF StopComes
    <3> QED BY <1>6, <2>7, <3>3 DEF Stopping, Early, Polling, Ending, Closing
  <2>8. CASE pc \in Ending
    <3>1. What # "move" /\ pc \notin Early \cup {"move", "stop"} \cup Polling
      BY <1>1, <1>2, <2>8, WhatIs DEF Early, Polling, Ending, Closing
    <3>2. ASSUME Resting PROVE Resting'
      BY <1>4, <1>6, <2>3, <3>1, <3>2 DEF Resting
    <3>3. ASSUME StopComes PROVE StopComes'
      <4>1. PICK i \in 1 .. n : toBoard[i].what = "stop" /\ Held(i - 1) /\ NoMoveAfter(i)
        BY <1>9, <3>3 DEF StopComes
      <4>2. i \in 0 .. n /\ i - 1 \in 0 .. n /\ i \in 1 .. Len(toBoard')
        BY <1>4
      <4>3. Held(i - 1)' /\ NoMoveAfter(i)'
        BY <2>1, <2>3, <3>1, <4>1, <4>2
      <4> QED BY <1>4, <4>1, <4>2, <4>3 DEF StopComes
    <3> QED BY <1>6, <2>8, <3>1, <3>2, <3>3 DEF IInv, Stopping
  <2> QED BY <1>2, <2>4, <2>5, <2>6, <2>7, <2>8 DEF Typed, Phases
<1>8. MotorKnown'
  <2>1. CASE pc \in {"undoMotor", "motorOff"}
    <3>1. What = "motorOff" /\ n + 1 \in 1 .. Len(toBoard')
      BY <1>1, <1>2, <1>4, <2>1, WhatIs
    <3>2. \A j \in 1 .. Len(toBoard') : ~(j > n + 1)
      BY <1>4
    <3> QED BY <1>4, <3>1, <3>2 DEF MotorKnown
  <2>2. CASE What = "motorOn"
    BY <1>1, <1>2, <1>6, <2>2, WhatIs DEF IInv, MotorNoted, MotorKnown
  <2>3. CASE pc \notin {"undoMotor", "motorOff"} /\ What # "motorOn"
    <3> SUFFICES ASSUME motor' \/ \E j \in 1 .. Len(toBoard') : toBoard'[j].what = "motorOn",
                        ~motorUnit', "motorOff" \notin cut
                 PROVE  \E i \in 1 .. Len(toBoard') :
                          /\ toBoard'[i].what = "motorOff"
                          /\ \A j \in 1 .. Len(toBoard') : j > i => toBoard'[j].what # "motorOn"
      BY <1>6 DEF MotorKnown
    <3>1. motor \/ \E j \in 1 .. n : toBoard[j].what = "motorOn"
      BY <1>4, <1>6, <2>3
    <3>2. PICK i \in 1 .. n : /\ toBoard[i].what = "motorOff"
                             /\ \A j \in 1 .. n : j > i => toBoard[j].what # "motorOn"
      BY <1>9, <1>6, <2>3, <3>1 DEF IInv, MotorKnown
    <3>3. i \in 1 .. Len(toBoard') /\ toBoard'[i].what = "motorOff"
      BY <1>4, <3>2
    <3>4. \A j \in 1 .. Len(toBoard') : j > i => toBoard'[j].what # "motorOn"
      BY <1>4, <2>3, <3>2
    <3> QED BY <3>3, <3>4
  <2> QED BY <2>1, <2>2, <2>3
<1> QED BY <1>5, <1>7, <1>8 DEF IInv

\* The host reads, gives up, or is interrupted: what is on its way to the board stays.
LEMMA HostStep ==
  ASSUME IInv, Receive \/ Desync \/ Timeout \/ CtrlC \/ CtrlCBetween
  PROVE  IInv'
<1>1. /\ asked' = Nobody /\ toBoard' = toBoard /\ UNCHANGED boardVars
  BY DEF Receive, Desync, Timeout, CtrlC, CtrlCBetween, ReadAnswer, ReadMismatch, ReadTimesOut,
         ReadInterrupted, NotAsked, EchoMatches, linkVars
<1>2. Typed /\ MotorNoted /\ pc # "closed"
  BY DEF IInv, Typed, Receive, Desync, Timeout, CtrlC, CtrlCBetween, ReadAnswer, ReadMismatch,
         ReadTimesOut, ReadInterrupted, EchoMatches
<1>3. (Turn /\ MotorTurn) \/ (pc = "stop" /\ asked = Nobody /\ Raise)
  <2>1. (\E a : Ok(a)) \/ Fail \/ Unwind \/ (pc = "stop" /\ asked = Nobody /\ Raise)
    BY DEF Receive, Desync, Timeout, CtrlC, CtrlCBetween, NotAsked
  <2> QED BY <1>2, <2>1, OkTurn, FailTurn, UnwindTurn
<1>4. CASE pc = "stop" /\ asked = Nobody /\ Raise
  <2>1. UNCHANGED <<cand, step, motorUnit, hasDrive, jogging>> /\ pc' = pc /\ asked' = asked
    BY <1>1, <1>4 DEF Raise
  <2>2. "motorOff" \in cut => "motorOff" \in cut'
    BY <1>4 DEF Receive, Desync, Timeout, CtrlC, CtrlCBetween
  <2> QED BY <1>1, <1>4, <2>1, <2>2 DEF IInv, Typed, MotorNoted, Stopping, MotorKnown, Resting, NoMoveAfter,
                           StopComes, Held, Listening, Steps, boardVars, Early, Polling, Ending, Closing
<1>5. CASE Turn /\ MotorTurn /\ ~(pc = "stop" /\ asked = Nobody /\ Raise)
  <2>1. pc' \in Phases
    BY <1>2, <1>5 DEF Turn, Typed, Phases, Early, Polling, Ending, Closing
  <2>2. Typed' /\ MotorNoted'
    BY <1>1, <1>2, <1>5, <2>1 DEF Turn, MotorTurn, Typed, MotorNoted, boardVars
  <2>3. tape' = tape /\ motor' = motor /\ (Listening' <=> Listening)
    BY <1>1 DEF boardVars, Listening
  <2>4. /\ (Resting' <=> Resting) /\ (Held(Len(toBoard))' <=> Held(Len(toBoard)))
        /\ (StopComes' <=> StopComes)
    BY <1>1, <2>3 DEF Resting, Held, StopComes, NoMoveAfter
  <2>5. /\ asked = Nobody /\ pc = "stop" => "stop" \in cut'
        /\ asked = Nobody /\ pc \in {"undoMotor", "motorOff"} => "motorOff" \in cut'
        /\ cut \subseteq cut'
    <3>1. CASE Receive \/ Desync \/ Timeout \/ CtrlC
      <4>1. asked # Nobody /\ cut' = cut
        BY <3>1 DEF Receive, Desync, Timeout, CtrlC, ReadAnswer, ReadMismatch, ReadTimesOut,
                    ReadInterrupted, EchoMatches
      <4> QED BY <4>1
    <3>2. CASE CtrlCBetween
      <4>1. cut' = cut \cup ({What} \cap CleanUp)
        BY <1>5, <3>2 DEF CtrlCBetween, NotAsked
      <4> QED BY <1>2, <4>1, WhatIs DEF CleanUp
    <3> QED BY <3>1, <3>2
  <2>6. Stopping'
    <3>1. CASE pc \in Early
      <4>1. Resting /\ ~jogging /\ Held(Len(toBoard))
        BY <3>1 DEF IInv, Stopping, Resting, NoMoveAfter, Held, Typed
      <4> QED BY <1>5, <2>4, <3>1, <4>1 DEF Turn, Stopping, Early, Polling, Ending, Closing
    <3>2. CASE pc = "move"
      <4>1. Held(Len(toBoard)) /\ ~jogging
        BY <3>2 DEF IInv, Stopping
      <4> QED BY <1>1, <1>5, <2>4, <3>2, <4>1 DEF Turn, Stopping, Early, Polling, Ending, Closing
    <3>3. CASE pc \in Polling
      BY <1>1, <1>5, <2>4, <3>3 DEF Turn, IInv, Stopping, Early, Polling, Ending, Closing
    <3>4. CASE pc \in {"stop"} \cup Ending
      <4>1. jogging /\ "stop" \notin cut' => Resting \/ StopComes
        BY <2>5, <3>4 DEF IInv, Stopping, Ending, Closing
      <4>2. pc' \in Ending /\ jogging' = jogging
        BY <1>5, <3>4 DEF Turn
      <4> QED BY <2>4, <4>1, <4>2 DEF Stopping, Early, Polling, Ending, Closing
    <3> QED BY <1>2, <3>1, <3>2, <3>3, <3>4 DEF Typed, Phases
  <2>7. MotorKnown'
    BY <1>1, <1>5, <2>3, <2>5 DEF MotorTurn, IInv, MotorKnown
  <2> QED BY <2>2, <2>6, <2>7 DEF IInv
<1> QED BY <1>3, <1>4, <1>5

\* The board executes the oldest request.
LEMMA ServedIs ==
  ASSUME IInv, Execute
  PROVE  /\ toBoard # <<>> /\ toBoard' = Tail(toBoard) /\ UNCHANGED hostVars /\ asked' = asked
         /\ Len(toBoard) \in Nat \ {0} /\ Len(toBoard') = Len(toBoard) - 1
         /\ toBoard' \in Seq(Requests)
         /\ \A i \in 1 .. Len(toBoard') : toBoard'[i] = toBoard[i + 1]
         /\ phantom' = (phantom \/ (toBoard[1].what = "wake" /\ needs = "phantom"))
         /\ motor'    = (toBoard[1].what = "motorOn" \/ (motor /\ toBoard[1].what # "motorOff"))
         /\ selected' = (toBoard[1].what = "select" \/ (selected /\ toBoard[1].what # "deselect"))
         /\ needs' = needs
         /\ tape' = IF toBoard[1].what = "move" /\ Listening /\ ~latched THEN "moving"
                    ELSE IF toBoard[1].what = "stop" /\ Listening THEN "still" ELSE tape
<1>1. toBoard # <<>> /\ toBoard' = Tail(toBoard) /\ asked' = asked
  BY DEF Execute, Serve
<1>2. toBoard \in Seq(Requests)
  BY DEF IInv, Typed
<1>3. /\ Len(toBoard) \in Nat \ {0} /\ Len(toBoard') = Len(toBoard) - 1
      /\ toBoard' \in Seq(Requests) /\ Head(toBoard) = toBoard[1]
      /\ \A i \in 1 .. Len(toBoard) - 1 : toBoard'[i] = toBoard[i + 1]
  BY <1>1, <1>2, TailAt
<1>4. \A i \in 1 .. Len(toBoard') : toBoard'[i] = toBoard[i + 1]
  BY <1>3
<1>5. UNCHANGED hostVars /\ needs' = needs
  BY DEF Execute
<1>6. phantom' = (phantom \/ (toBoard[1].what = "wake" /\ needs = "phantom"))
  BY <1>3 DEF Execute
<1>7. motor' = (toBoard[1].what = "motorOn" \/ (motor /\ toBoard[1].what # "motorOff"))
  BY <1>3 DEF Execute
<1>8. selected' = (toBoard[1].what = "select" \/ (selected /\ toBoard[1].what # "deselect"))
  BY <1>3 DEF Execute
<1>9. tape' = IF toBoard[1].what = "move" /\ Listening /\ ~latched THEN "moving"
              ELSE IF toBoard[1].what = "stop" /\ Listening THEN "still" ELSE tape
  BY <1>3 DEF Execute
<1> QED BY <1>1, <1>3, <1>4, <1>5, <1>6, <1>7, <1>8, <1>9

\* What keeps the drive through n requests keeps it through the n - 1 that remain.
LEMMA HeldServed ==
  ASSUME IInv, Execute, NEW n \in 1 .. Len(toBoard), Held(n)
  PROVE  Held(n - 1)'
<1> DEFINE w == toBoard[1].what
<1>1. /\ Len(toBoard) \in Nat \ {0} /\ n \in Nat /\ 1 \in 1 .. n
      /\ \A i \in 1 .. n - 1 : toBoard'[i] = toBoard[i + 1] /\ i + 1 \in 1 .. n /\ 1 < i + 1
  BY ServedIs
<1>2. \A k, j \in 1 .. n - 1 : k < j /\ toBoard'[k].what = "move" => toBoard'[j].what \notin Offs
  <2> SUFFICES ASSUME NEW k \in 1 .. n - 1, NEW j \in 1 .. n - 1, k < j, toBoard'[k].what = "move"
               PROVE  toBoard'[j].what \notin Offs
    OBVIOUS
  <2>1. toBoard'[k] = toBoard[k + 1] /\ toBoard'[j] = toBoard[j + 1]
    BY <1>1
  <2>2. k + 1 \in 1 .. n /\ j + 1 \in 1 .. n /\ k + 1 < j + 1
    BY <1>1
  <2> QED BY <2>1, <2>2 DEF Held
<1>3. ASSUME tape' = "moving" PROVE Listening' /\ \A j \in 1 .. n - 1 : toBoard'[j].what \notin Offs
  <2>1. CASE tape = "moving"
    <3>1. Listening /\ w \notin Offs /\ \A j \in 1 .. n - 1 : toBoard'[j].what \notin Offs
      BY <1>1, <2>1 DEF Held
    <3>2. Listening'
      BY <3>1, ServedIs DEF Listening, Offs, IInv, Typed
    <3> QED BY <3>1, <3>2
  <2>2. CASE tape # "moving"
    <3>1. w = "move" /\ Listening
      BY <1>3, <2>2, ServedIs
    <3>2. Listening'
      BY <3>1, ServedIs DEF Listening, IInv, Typed
    <3>3. \A j \in 1 .. n - 1 : toBoard'[j].what \notin Offs
      BY <1>1, <3>1 DEF Held
    <3> QED BY <3>2, <3>3
  <2> QED BY <2>1, <2>2
<1> QED BY <1>2, <1>3 DEF Held

\* Executing a stop that comes leaves the tape at rest.
LEMMA ExecuteStep ==
  ASSUME IInv, Execute
  PROVE  IInv'
<1>1. PICK n \in Nat \ {0} : n = Len(toBoard)
  BY ServedIs
<1>2. /\ Len(toBoard') = n - 1 /\ 1 \in 1 .. n
      /\ \A i \in 1 .. n - 1 : toBoard'[i] = toBoard[i + 1] /\ i + 1 \in 1 .. n
  BY <1>1, ServedIs
<1>3. UNCHANGED hostVars /\ asked' = asked
  BY ServedIs
<1>4. Typed' /\ MotorNoted'
  <2>1. tape' \in {"still", "moving"} /\ toBoard' \in Seq(Requests)
    BY ServedIs DEF IInv, Typed
  <2>2. phantom' \in BOOLEAN /\ motor' \in BOOLEAN /\ selected' \in BOOLEAN
    BY ServedIs DEF IInv, Typed
  <2> QED BY <1>3, <2>1, <2>2 DEF IInv, Typed, MotorNoted, hostVars, Steps
<1>5. ASSUME Resting PROVE Resting'
  <2>1. tape = "still" /\ \A j \in 1 .. n : toBoard[j].what # "move"
    BY <1>1, <1>5 DEF Resting, NoMoveAfter
  <2>2. tape' = "still"
    BY <1>2, <2>1, ServedIs
  <2> QED BY <1>2, <2>1, <2>2 DEF Resting, NoMoveAfter
<1>6. ASSUME Held(n) PROVE Held(n - 1)'
  BY <1>1, <1>2, <1>6, HeldServed
<1>7. ASSUME StopComes PROVE (Resting \/ StopComes)'
  <2>1. PICK i \in 1 .. n : toBoard[i].what = "stop" /\ Held(i - 1) /\ NoMoveAfter(i)
    BY <1>1, <1>7 DEF StopComes
  <2>2. CASE i = 1
    <3>1. tape = "moving" => Listening
      BY <2>1 DEF Held
    <3>2. tape' = "still"
      BY <2>1, <2>2, <3>1, ServedIs DEF IInv, Typed
    <3>3. \A j \in 1 .. n - 1 : toBoard'[j].what # "move"
      BY <1>1, <1>2, <2>1, <2>2 DEF NoMoveAfter
    <3> QED BY <1>2, <3>2, <3>3 DEF Resting, NoMoveAfter
  <2>3. CASE i # 1
    <3>1. i - 1 \in 1 .. n - 1 /\ i - 1 \in 1 .. n /\ (i - 1) + 1 = i
      BY <2>3
    <3>2. Held((i - 1) - 1)'
      BY <1>1, <2>1, <3>1, HeldServed
    <3>3. toBoard'[i - 1].what = "stop"
      BY <1>2, <2>1, <3>1
    <3>4. NoMoveAfter(i - 1)'
      BY <1>1, <1>2, <2>1 DEF NoMoveAfter
    <3> QED BY <1>2, <3>1, <3>2, <3>3, <3>4 DEF StopComes
  <2> QED BY <2>2, <2>3
<1>8. Stopping'
  <2>1. pc' = pc /\ jogging' = jogging /\ cut' = cut /\ asked' = asked
    BY <1>3 DEF hostVars
  <2>2. Held(Len(toBoard)) => Held(Len(toBoard))'
    BY <1>1, <1>2, <1>6
  <2> QED BY <1>5, <1>7, <2>1, <2>2 DEF IInv, Stopping
<1>9. MotorKnown'
  <2> SUFFICES ASSUME motor' \/ \E j \in 1 .. n - 1 : toBoard'[j].what = "motorOn",
                      ~(motorUnit \/ "motorOff" \in cut
                        \/ (pc \in {"undoMotor", "motorOff"} /\ asked = Nobody))
               PROVE  \E i \in 1 .. n - 1 :
                        /\ toBoard'[i].what = "motorOff"
                        /\ \A j \in 1 .. n - 1 : j > i => toBoard'[j].what # "motorOn"
    BY <1>2, <1>3 DEF MotorKnown, hostVars
  <2>1. motor \/ \E j \in 1 .. n : toBoard[j].what = "motorOn"
    <3>1. CASE motor'
      BY <1>2, <3>1, ServedIs
    <3>2. CASE \E j \in 1 .. n - 1 : toBoard'[j].what = "motorOn"
      BY <1>2, <3>2
    <3> QED BY <3>1, <3>2
  <2>2. PICK i \in 1 .. n : /\ toBoard[i].what = "motorOff"
                           /\ \A j \in 1 .. n : j > i => toBoard[j].what # "motorOn"
    BY <1>1, <2>1 DEF IInv, MotorKnown
  <2>3. i # 1
    <3> SUFFICES ASSUME i = 1 PROVE FALSE
      OBVIOUS
    <3>1. \A j \in 1 .. n - 1 : toBoard'[j].what # "motorOn"
      BY <1>2, <2>2
    <3>2. ~motor'
      BY <2>2, ServedIs
    <3> QED BY <3>1, <3>2
  <2>4. i - 1 \in 1 .. n - 1 /\ (i - 1) + 1 = i
    BY <2>3
  <2>5. toBoard'[i - 1].what = "motorOff"
    BY <1>2, <2>2, <2>4
  <2>6. \A j \in 1 .. n - 1 : j > i - 1 => toBoard'[j].what # "motorOn"
    BY <1>2, <2>2
  <2> QED BY <2>4, <2>5, <2>6
<1> QED BY <1>4, <1>8, <1>9 DEF IInv

\* The end of the tape stops it too.
LEMMA TapeEndsStep ==
  ASSUME IInv, TapeEnds
  PROVE  IInv'
<1>1. /\ tape' = "still" /\ UNCHANGED <<linkVars, hostVars, needs, phantom, motor, selected>>
  BY DEF TapeEnds
<1>2. Typed' /\ MotorNoted' /\ MotorKnown'
  BY <1>1 DEF IInv, Typed, MotorNoted, MotorKnown, linkVars, hostVars, Steps
<1>3. /\ Resting => Resting'
      /\ StopComes => StopComes'
      /\ Held(Len(toBoard)) => Held(Len(toBoard))'
  BY <1>1 DEF Resting, NoMoveAfter, StopComes, Held, linkVars
<1>4. Stopping'
  BY <1>1, <1>3 DEF IInv, Stopping, linkVars, hostVars
<1> QED BY <1>2, <1>4 DEF IInv

\* A session begins with the invariant.
LEMMA Started ==
  ASSUME Init
  PROVE  IInv
<1>1. /\ cut = {} /\ pc = "identify" /\ step = 0 /\ motorUnit = FALSE /\ hasDrive = FALSE /\ jogging = FALSE
      /\ phantom \in BOOLEAN /\ motor = FALSE /\ selected = FALSE /\ tape = "still"
      /\ toBoard = <<>> /\ asked = Nobody
  BY DEF Init, LinkInit
<1>2. cand \in 1 .. 3
  <2>1. DOMAIN Profiles = 1 .. 3
    BY StepsAre
  <2>2. CASE profile = "auto"
    BY <2>2 DEF Init
  <2>3. CASE profile # "auto"
    <3>1. \E i \in DOMAIN Profiles : Profiles[i] = profile
      BY <2>3 DEF Init
    <3>2. cand = CHOOSE i \in DOMAIN Profiles : Profiles[i] = profile
      BY <2>3 DEF Init
    <3> QED BY <2>1, <3>1, <3>2
  <2> QED BY <2>2, <2>3
<1>3. Len(toBoard) = 0 /\ toBoard \in Seq(Requests)
  BY <1>1
<1>4. Typed /\ MotorNoted
  BY <1>1, <1>2, <1>3 DEF Typed, MotorNoted, Phases, Early, Ending, Closing
<1>5. Resting /\ Stopping
  BY <1>1, <1>3 DEF Resting, NoMoveAfter, Stopping, Early, Polling, Ending, Closing
<1>6. MotorKnown
  BY <1>1, <1>3 DEF MotorKnown
<1> QED BY <1>4, <1>5, <1>6 DEF IInv

\* Every step keeps it.
LEMMA Preserved ==
  ASSUME IInv, [Next]_vars
  PROVE  IInv'
<1>1. CASE Send
  BY <1>1, SendIs
<1>2. CASE Receive \/ Desync \/ Timeout \/ CtrlC \/ CtrlCBetween
  BY <1>2, HostStep
<1>3. CASE Execute
  BY <1>3, ExecuteStep
<1>4. CASE TapeEnds
  BY <1>4, TapeEndsStep
<1>5. CASE UNCHANGED vars
  <2>1. UNCHANGED <<asked, toBoard, pc, cand, step, motorUnit, hasDrive, jogging, cut, needs, phantom,
                    motor, selected, tape>>
    BY <1>5 DEF vars, linkVars, hostVars, boardVars
  <2> QED BY <2>1 DEF IInv, Typed, MotorNoted, Stopping, MotorKnown, Resting, NoMoveAfter, StopComes,
                      Held, Listening, Steps
<1> QED BY <1>1, <1>2, <1>3, <1>4, <1>5 DEF Next

(******************************** Theorems ********************************)

\* jog()'s finally does what it is for: past the motion command the tape is stopped, however
\* many answers are late, out of step or lost to Ctrl-C, as long as no Ctrl-C strikes between
\* the polls and the writing of Stop Tape in the finally itself.
THEOREM JoggedIsStoppedAlways == Spec => []JoggedIsStopped
<1>1. Init => IInv
  BY Started
<1>2. IInv /\ [Next]_vars => IInv'
  BY Preserved
<1>3. IInv => JoggedIsStopped
  <2> SUFFICES ASSUME IInv, Over, jogging, "stop" \notin cut PROVE tape = "still"
    BY DEF JoggedIsStopped
  <2>1. pc = "closed" /\ Len(toBoard) = 0
    BY DEF Over
  <2>2. Resting \/ StopComes
    BY <2>1 DEF IInv, Stopping, Ending, Closing
  <2>3. ~StopComes
    BY <2>1 DEF StopComes
  <2> QED BY <2>2, <2>3 DEF Resting
<1> QED BY <1>1, <1>2, <1>3, PTL DEF Spec

\* _drive_session() gives its motor back on every way out but one: a Ctrl-C between the
\* jog's last exchange and the writing of the motor's end in the session's finally.
THEOREM MotorIsOffAlways == Spec => []MotorIsOff
<1>1. Init => IInv
  BY Started
<1>2. IInv /\ [Next]_vars => IInv'
  BY Preserved
<1>3. IInv => MotorIsOff
  <2> SUFFICES ASSUME IInv, Over, hasDrive, "motorOff" \notin cut PROVE ~motor
    BY DEF MotorIsOff
  <2>1. pc = "closed" /\ Len(toBoard) = 0
    BY DEF Over
  <2>2. ~motorUnit
    BY <2>1 DEF IInv, MotorNoted, Closing
  <2> QED BY <2>1, <2>2 DEF IInv, MotorKnown
<1> QED BY <1>1, <1>2, <1>3, PTL DEF Spec

(**************************** Whose answer it is ****************************)

\* Whose answers are on their way, or will be once the board has executed what waits.
Answers == {Junk} \cup {Answer(r, report, rd, er) :
                          r \in Requests, report \in BOOLEAN, rd \in BOOLEAN, er \in BOOLEAN}
Who(x)  == <<x.what, x.by>>
Whos(s) == {Who(s[i]) : i \in 1 .. Len(s)}
JunkWho == <<"junk", 0>>
Way     == Whos(toHost) \cup Whos(toBoard)
Only(S) == Way \subseteq S \cup {JunkWho}
OnWay   == Len(toHost) + Len(toBoard)
Waiting == IF asked = Nobody THEN 0 ELSE 1

\* What a step of the host does to what it reads.
Reads   == ReadAnswer \/ ReadMismatch \/ ReadTimesOut \/ ReadInterrupted \/ NotAsked
Hosts   == Receive \/ Desync \/ Timeout \/ CtrlC \/ CtrlCBetween

\* Where an exchange is made once under each profile, the answer to it comes behind
\* all others.
Once == {"identify", "clear", "timing", "wakeStep"}
Own  == <<What, cand>>
OwnLast ==
  /\ asked = Nobody => Own \notin Way
  /\ asked # Nobody =>
       /\ \A i \in 1 .. Len(toHost) : Who(toHost[i]) = Own => i = Len(toHost) /\ toBoard = <<>>
       /\ \A i \in 1 .. Len(toBoard) : Who(toBoard[i]) = Own => i = Len(toBoard)

\* What may be on its way while the profiles are tried.
WayAt ==
  /\ pc = "identify" => Only({<<"identify", cand>>})
  /\ pc = "clear" => Only({<<"deselect", cand>>})
  /\ pc = "timing" =>
       /\ cand = 1 => Only({<<"timing", 1>>})
       /\ cand = 2 => \/ Only({<<"status", 1>>, <<"timing", 2>>})
                      \/ Only({<<"timing", 1>>, <<"timing", 2>>})
       /\ cand = 3 => \A w \in Way : w[1] \notin {"select", "motorOn"}
  /\ pc = "wakeStep" =>
       /\ cand = 2 => Only({<<"timing", 1>>, <<"timing", 2>>, <<"wake", 2>>})
       /\ cand = 3 /\ step = 0 =>
            \A w \in Way : w[1] # "motorOn" /\ (w[1] = "select" => w = <<"select", 3>>)
       /\ cand = 3 /\ step = 1 => Only({<<"motorOn", 3>>})
  /\ pc = "probe" => Way \subseteq {<<"status", cand>>} /\ OnWay <= tries + Waiting
  /\ pc = "latch" => OnWay <= Tries - 1 + Waiting

Trying == Once \cup {"probe", "undoMotor", "undoSelect"}
WakeInv ==
  /\ toHost \in Seq(Answers) /\ tries \in 0 .. Tries - 1
  /\ asked # Nobody => asked = Request(What, cand)
  /\ pc \in Once => OwnLast
  /\ pc \in Trying /\ (motorUnit \/ pc \in {"undoMotor", "undoSelect"}) => cand = 3
  /\ WayAt

\* An opcode tells what was asked, but for the commands of a transaction.
LEMMA OpTells ==
  ASSUME NEW a \in Answers
  PROVE  /\ a.op = "GET_INFO" => a.what = "identify"
         /\ a.op = "DESELECT" => a.what = "deselect"
         /\ a.op = "SET_TIMING" => a.what = "timing"
         /\ a.op = "SELECT" => a.what = "select"
         /\ a.op = "MOTOR" => a.what \in {"motorOn", "motorOff"}
         /\ a.op = "COMMAND_TXN" => a.what \in Txns
<1>1. CASE a = Junk
  BY <1>1 DEF Junk
<1>2. CASE a # Junk
  <2>1. PICK w \in Whats : a.op = OpOf(w) /\ a.what = w
    BY <1>2 DEF Answers, Answer, Requests, Request
  <2> QED BY <2>1 DEF OpOf, Whats, Txns
<1> QED BY <1>1, <1>2

\* What is asked at each place.
LEMMA WhatAt ==
  ASSUME Typed
  PROVE  /\ pc = "identify" => What = "identify" /\ OpOf(What) = "GET_INFO"
         /\ pc = "clear" => What = "deselect" /\ OpOf(What) = "DESELECT"
         /\ pc = "timing" => What = "timing" /\ OpOf(What) = "SET_TIMING"
         /\ pc = "probe" => What = "status" /\ OpOf(What) = "COMMAND_TXN"
         /\ pc = "wakeStep" =>
              \/ cand = 2 /\ step = 0 /\ What = "wake" /\ OpOf(What) = "COMMAND_TXN"
              \/ cand = 3 /\ step = 0 /\ What = "select" /\ OpOf(What) = "SELECT"
              \/ cand = 3 /\ step = 1 /\ What = "motorOn" /\ OpOf(What) = "MOTOR"
<1>1. CASE pc = "wakeStep"
  <2>1. What = Steps[step + 1] /\ step \in Nat /\ step < Len(Steps) /\ cand \in 1 .. 3
    BY <1>1 DEF What, StatusPlaces, CodePlaces, Typed
  <2>2. \/ cand = 2 /\ step = 0 /\ What = "wake"
        \/ cand = 3 /\ step = 0 /\ What = "select"
        \/ cand = 3 /\ step = 1 /\ What = "motorOn"
    BY <2>1, WakeStepIs
  <2> QED BY <1>1, <2>2 DEF OpOf, Txns
<1>2. CASE pc # "wakeStep"
  BY <1>2 DEF What, StatusPlaces, CodePlaces, OpOf, Txns
<1> QED BY <1>1, <1>2

\* One more on the way.
LEMMA WhosAppend ==
  ASSUME NEW S, NEW s \in Seq(S), NEW x \in S
  PROVE  Whos(Append(s, x)) = Whos(s) \cup {Who(x)}
<1>1. /\ Len(Append(s, x)) = Len(s) + 1 /\ Len(s) \in Nat /\ Append(s, x)[Len(s) + 1] = x
      /\ \A i \in 1 .. Len(s) : Append(s, x)[i] = s[i]
  BY AppendAt
<1> DEFINE t == Append(s, x)
<1> HIDE DEF t
<1>2. /\ Len(t) = Len(s) + 1 /\ Len(s) \in Nat /\ t[Len(s) + 1] = x
      /\ \A i \in 1 .. Len(s) : t[i] = s[i]
  BY <1>1 DEF t
<1>3. Whos(t) \subseteq Whos(s) \cup {Who(x)}
  BY <1>2 DEF Whos
<1>4. Whos(s) \subseteq Whos(t)
  BY <1>2 DEF Whos
<1>5. Who(x) \in Whos(t)
  BY <1>2 DEF Whos
<1> QED BY <1>3, <1>4, <1>5 DEF t

\* The oldest one, and the others.
LEMMA WhosTail ==
  ASSUME NEW S, NEW s \in Seq(S), s # <<>>
  PROVE  Whos(s) = Whos(Tail(s)) \cup {Who(Head(s))}
<1> DEFINE t == Tail(s)
<1>1. /\ Len(t) = Len(s) - 1 /\ Len(s) \in Nat \ {0} /\ Head(s) = s[1]
      /\ \A i \in 1 .. Len(s) - 1 : t[i] = s[i + 1]
  BY TailAt
<1> HIDE DEF t
<1>2. Whos(t) \subseteq Whos(s)
  BY <1>1 DEF Whos
<1>3. Who(Head(s)) \in Whos(s)
  BY <1>1 DEF Whos
<1>4. ASSUME NEW i \in 1 .. Len(s) PROVE Who(s[i]) \in Whos(t) \cup {Who(Head(s))}
  <2>1. CASE i = 1
    BY <1>1, <2>1
  <2>2. CASE i # 1
    <3>1. i - 1 \in 1 .. Len(t) /\ i - 1 \in 1 .. Len(s) - 1 /\ (i - 1) + 1 = i
      BY <1>1, <2>2
    <3>2. t[i - 1] = s[i]
      BY <1>1, <3>1
    <3> QED BY <3>1, <3>2 DEF Whos
  <2> QED BY <2>1, <2>2
<1>5. Whos(s) \subseteq Whos(t) \cup {Who(Head(s))}
  BY <1>4 DEF Whos
<1> QED BY <1>2, <1>3, <1>5 DEF t

\* A read takes the oldest answer; if that is the one asked for where it comes last, no
\* other is on its way.
LEMMA ReadWay ==
  ASSUME Typed, toHost \in Seq(Answers), ReadAnswer
  PROVE  /\ toHost' \in Seq(Answers) /\ Head(toHost) \in Answers /\ asked' = Nobody
         /\ Way' \subseteq Way /\ Who(Head(toHost)) \in Way /\ Head(toHost).op = asked.op
         /\ OnWay \in Nat /\ OnWay' = OnWay - 1
         /\ OwnLast /\ Who(Head(toHost)) = Own => Way' = {} /\ OnWay' = 0
<1>1. /\ asked # Nobody /\ asked' = Nobody /\ toHost # <<>> /\ toHost' = Tail(toHost)
      /\ toBoard' = toBoard /\ Head(toHost).op = asked.op
  BY DEF ReadAnswer, EchoMatches
<1>2. Whos(toHost) = Whos(toHost') \cup {Who(Head(toHost))}
  BY <1>1, WhosTail
<1>3. /\ toHost' \in Seq(Answers) /\ Head(toHost) \in Answers /\ Head(toHost) = toHost[1]
      /\ Len(toHost') = Len(toHost) - 1 /\ Len(toHost) \in Nat \ {0}
  BY <1>1, TailAt
<1>4. Way' \subseteq Way /\ Who(Head(toHost)) \in Way
  BY <1>1, <1>2 DEF Way
<1>5. ASSUME OwnLast, Who(Head(toHost)) = Own PROVE Way' = {} /\ OnWay' = 0
  <2>0. 1 \in 1 .. Len(toHost) /\ Who(toHost[1]) = Own
    BY <1>3, <1>5
  <2>1. 1 = Len(toHost) /\ toBoard = <<>>
    BY <1>1, <1>5, <2>0 DEF OwnLast
  <2>2. Len(toHost') = 0 /\ Len(toBoard') = 0
    BY <1>1, <1>3, <2>1
  <2> QED BY <2>2 DEF Way, Whos, OnWay
<1>6. OnWay \in Nat /\ OnWay' = OnWay - 1
  <2>1. Len(toBoard) \in Nat /\ Len(toBoard') = Len(toBoard)
    BY <1>1 DEF Typed
  <2> QED BY <1>3, <2>1 DEF OnWay
<1> QED BY <1>1, <1>3, <1>4, <1>5, <1>6

\* A read takes the oldest answer, leaves of it two units that pass for nothing, or takes
\* none.
LEMMA ReadsAre ==
  ASSUME Reads
  PROVE  /\ asked' = Nobody /\ toBoard' = toBoard
         /\ \/ toHost # <<>> /\ toHost' = Tail(toHost)
            \/ toHost # <<>> /\ toHost' = <<Junk, Junk>> \o Tail(toHost)
            \/ toHost' = toHost
<1>1. CASE ReadAnswer
  BY <1>1 DEF ReadAnswer, EchoMatches
<1>2. CASE ReadMismatch
  BY <1>2 DEF ReadMismatch
<1>3. CASE ReadTimesOut
  BY <1>3 DEF ReadTimesOut
<1>4. CASE ReadInterrupted
  BY <1>4 DEF ReadInterrupted, EchoMatches
<1>5. CASE NotAsked
  BY <1>5 DEF NotAsked, linkVars
<1> QED BY <1>1, <1>2, <1>3, <1>4, <1>5 DEF Reads

\* However a read fails, at most junk comes onto the way.
LEMMA FailWay ==
  ASSUME Typed, toHost \in Seq(Answers), Reads
  PROVE  /\ toHost' \in Seq(Answers) /\ asked' = Nobody
         /\ Way' \subseteq Way \cup {JunkWho}
<1>1. asked' = Nobody /\ toBoard' = toBoard
  BY ReadsAre
<1>2. CASE toHost # <<>> /\ toHost' \in {Tail(toHost), <<Junk, Junk>> \o Tail(toHost)}
  <2>2. Whos(toHost) = Whos(Tail(toHost)) \cup {Who(Head(toHost))} /\ Tail(toHost) \in Seq(Answers)
    BY <1>2, WhosTail, TailAt
  <2>3. CASE toHost' = Tail(toHost)
    BY <1>1, <2>2, <2>3 DEF Way
  <2>4. CASE toHost' = <<Junk, Junk>> \o Tail(toHost)
    <3> DEFINE t == Tail(toHost)
    <3>1. Junk \in Answers /\ t \in Seq(Answers) /\ Whos(t) \subseteq Whos(toHost)
      BY <2>2 DEF Answers
    <3> HIDE DEF t
    <3>2. /\ toHost' \in Seq(Answers) /\ Len(t) \in Nat /\ Len(toHost') = Len(t) + 2
          /\ \A i \in 1 .. Len(toHost') : toHost'[i] = IF i \in {1, 2} THEN Junk ELSE t[i - 2]
      BY <2>4, <3>1 DEF t
    <3>3. ASSUME NEW i \in 1 .. Len(toHost') PROVE Who(toHost'[i]) \in Whos(t) \cup {JunkWho}
      <4>1. CASE i \in {1, 2}
        <5>1. toHost'[i] = Junk
          BY <3>2, <4>1
        <5> QED BY <5>1 DEF Who, Junk, JunkWho
      <4>2. CASE i \notin {1, 2}
        <5>1. i - 2 \in 1 .. Len(t) /\ toHost'[i] = t[i - 2]
          BY <3>2, <4>2
        <5> QED BY <5>1 DEF Whos
      <4> QED BY <4>1, <4>2
    <3>4. Whos(toHost') \subseteq Whos(t) \cup {JunkWho}
      BY <3>3 DEF Whos
    <3> QED BY <1>1, <3>1, <3>2, <3>4 DEF Way
  <2> QED BY <1>2, <2>3, <2>4
<1>3. CASE toHost' = toHost
  BY <1>1, <1>3 DEF Way
<1> QED BY <1>2, <1>3, ReadsAre

\* A request goes behind everything that is on its way.
LEMMA SendWake ==
  ASSUME Typed, WakeInv, Send
  PROVE  WakeInv'
<1> DEFINE r == Request(What, cand)
<1>1. /\ pc # "closed" /\ asked = Nobody /\ asked' = r /\ toBoard' = Append(toBoard, r)
      /\ toHost' = toHost /\ UNCHANGED hostVars
  BY DEF Send, Ask
<1>2. What \in Whats /\ cand \in DOMAIN Profiles
  BY <1>1, WhatIs, StepsAre DEF Typed
<1>3. r \in Requests /\ Who(r) = Own /\ r # Nobody
  <2>1. r.what = What /\ r.by = cand
    BY DEF Request
  <2>2. Nobody.what = "none" /\ What # "none"
    BY <1>2 DEF Nobody, Whats
  <2> QED BY <1>2, <2>1, <2>2 DEF Requests, Who, Own
<1> HIDE DEF r
<1>4. pc' = pc /\ cand' = cand /\ step' = step /\ motorUnit' = motorUnit /\ What' = What /\ Own' = Own
  BY <1>1 DEF hostVars, What, Steps, Own
<1>5. Whos(toBoard') = Whos(toBoard) \cup {Own} /\ Way' = Way \cup {Own}
  <2>1. toBoard \in Seq(Requests)
    BY DEF Typed
  <2>2. Whos(toBoard') = Whos(toBoard) \cup {Own}
    BY <1>1, <1>3, <2>1, WhosAppend
  <2> QED BY <1>1, <2>2 DEF Way
<1>6. asked' # Nobody /\ asked' = Request(What, cand)'
  BY <1>1, <1>3, <1>4 DEF r
<1>10. OnWay' = OnWay + 1 /\ OnWay \in Nat /\ Waiting = 0 /\ Waiting' = 1 /\ tries' = tries
       /\ tries \in Nat /\ Tries \in Nat
  <2>1. Len(toBoard') = Len(toBoard) + 1 /\ Len(toBoard) \in Nat /\ Len(toHost) \in Nat
    BY <1>1, <1>3, AppendAt DEF Typed, WakeInv
  <2> QED BY <1>1, <1>6, <2>1, TriesAssumption DEF OnWay, Waiting, hostVars, WakeInv
<1>7. pc \in Once => OwnLast'
  <2> SUFFICES ASSUME pc \in Once PROVE OwnLast'
    OBVIOUS
  <2>1. Own \notin Way
    BY <1>1 DEF WakeInv, OwnLast
  <2>2. \A i \in 1 .. Len(toHost) : Who(toHost[i]) # Own
    BY <2>1 DEF Way, Whos
  <2>3. \A i \in 1 .. Len(toBoard) : Who(toBoard[i]) # Own
    BY <2>1 DEF Way, Whos
  <2>4. /\ Len(toBoard') = Len(toBoard) + 1 /\ Len(toBoard) \in Nat
        /\ \A i \in 1 .. Len(toBoard) : toBoard'[i] = toBoard[i]
    BY <1>1, <1>3, AppendAt DEF Typed
  <2>5. \A i \in 1 .. Len(toBoard') : Who(toBoard'[i]) = Own => i = Len(toBoard')
    BY <2>3, <2>4
  <2> QED BY <1>1, <1>4, <1>6, <2>2, <2>5 DEF OwnLast
<1>8. WayAt'
  <2>1. /\ pc = "identify" => Own = <<"identify", cand>>
        /\ pc = "clear" => Own = <<"deselect", cand>>
        /\ pc = "timing" => Own = <<"timing", cand>>
        /\ pc = "probe" => Own = <<"status", cand>>
        /\ pc = "wakeStep" => \/ cand = 2 /\ step = 0 /\ Own = <<"wake", 2>>
                              \/ cand = 3 /\ step = 0 /\ Own = <<"select", 3>>
                              \/ cand = 3 /\ step = 1 /\ Own = <<"motorOn", 3>>
    BY WhatAt DEF Own
  <2>2. WayAt
    BY DEF WakeInv
  <2>3. CASE pc \in {"identify", "clear"}
    BY <1>4, <1>5, <2>1, <2>2, <2>3 DEF WayAt, Only
  <2>7. CASE pc \in {"probe", "latch"}
    <3>1. pc = "probe" => OnWay' <= tries' + Waiting'
      BY <1>10, <2>2 DEF WayAt
    <3>2. pc = "latch" => OnWay' <= Tries - 1 + Waiting'
      BY <1>10, <2>2 DEF WayAt
    <3> QED BY <1>4, <1>5, <2>1, <2>2, <2>7, <3>1, <3>2 DEF WayAt
  <2>4. CASE pc = "timing"
    BY <1>4, <1>5, <2>1, <2>2, <2>4 DEF WayAt, Only
  <2>5. CASE pc = "wakeStep"
    BY <1>4, <1>5, <2>1, <2>2, <2>5 DEF WayAt, Only
  <2>6. CASE pc \notin Once \cup {"probe", "latch"}
    BY <1>4, <2>6 DEF WayAt, Once
  <2> QED BY <2>3, <2>4, <2>5, <2>6, <2>7 DEF Once
<1>9. /\ toHost' \in Seq(Answers) /\ tries' \in 0 .. Tries - 1
      /\ pc \in Trying /\ (motorUnit \/ pc \in {"undoMotor", "undoSelect"}) => cand = 3
  BY <1>1, <1>10 DEF WakeInv
<1> QED BY <1>4, <1>6, <1>7, <1>8, <1>9 DEF WakeInv

\* What the board executes stays on its way, as an answer.
LEMMA ExecuteWake ==
  ASSUME IInv, WakeInv, Execute
  PROVE  WakeInv'
<1>1. /\ toBoard # <<>> /\ toBoard' = Tail(toBoard) /\ UNCHANGED hostVars /\ asked' = asked
      /\ Len(toBoard) \in Nat \ {0} /\ Len(toBoard') = Len(toBoard) - 1
      /\ \A i \in 1 .. Len(toBoard') : toBoard'[i] = toBoard[i + 1]
  BY ServedIs
<1>2. Head(toBoard) = toBoard[1] /\ Head(toBoard) \in Requests /\ toBoard \in Seq(Requests)
  BY <1>1 DEF IInv, Typed
<1>3. PICK a \in Answers : toHost' = Append(toHost, a) /\ Who(a) = Who(Head(toBoard))
  <2>1. PICK rd \in BOOLEAN, er \in BOOLEAN, report \in BOOLEAN :
          toHost' = Append(toHost, Answer(Head(toBoard), report, rd, er))
    BY ZenonT(60) DEF Execute, Serve
  <2>2. Answer(Head(toBoard), report, rd, er) \in Answers
    BY <1>2 DEF Answers
  <2>3. Who(Answer(Head(toBoard), report, rd, er)) = Who(Head(toBoard))
    BY DEF Answer, Who
  <2> QED BY <2>1, <2>2, <2>3
<1>4. toHost \in Seq(Answers)
  BY DEF WakeInv
<1>5. /\ toHost' \in Seq(Answers) /\ Len(toHost') = Len(toHost) + 1 /\ Len(toHost) \in Nat
      /\ toHost'[Len(toHost) + 1] = a /\ \A i \in 1 .. Len(toHost) : toHost'[i] = toHost[i]
  BY <1>3, <1>4, AppendAt
<1>6. Way' = Way
  <2>1. Whos(toHost') = Whos(toHost) \cup {Who(a)}
    BY <1>3, <1>4, WhosAppend
  <2>2. Whos(toBoard) = Whos(toBoard') \cup {Who(a)}
    BY <1>1, <1>2, <1>3, WhosTail
  <2> QED BY <2>1, <2>2 DEF Way
<1>7. pc' = pc /\ cand' = cand /\ step' = step /\ motorUnit' = motorUnit /\ What' = What /\ Own' = Own
  BY <1>1 DEF hostVars, What, Steps, Own
<1>8. pc \in Once => OwnLast'
  <2> SUFFICES ASSUME pc \in Once, asked # Nobody PROVE OwnLast'
    BY <1>1, <1>6, <1>7, ZenonT(60) DEF WakeInv, OwnLast
  <2>1. /\ \A i \in 1 .. Len(toHost) : Who(toHost[i]) # Own
        /\ \A i \in 1 .. Len(toBoard) : Who(toBoard[i]) = Own => i = Len(toBoard)
    BY <1>1 DEF WakeInv, OwnLast
  <2>2. \A i \in 1 .. Len(toBoard') : Who(toBoard'[i]) = Own => i = Len(toBoard')
    <3> SUFFICES ASSUME NEW i \in 1 .. Len(toBoard'), Who(toBoard'[i]) = Own PROVE i = Len(toBoard')
      OBVIOUS
    <3>1. toBoard'[i] = toBoard[i + 1] /\ i + 1 \in 1 .. Len(toBoard)
      BY <1>1
    <3>2. i + 1 = Len(toBoard)
      BY <2>1, <3>1
    <3>3. i \in Int /\ Len(toBoard') = Len(toBoard) - 1 /\ Len(toBoard) \in Int
      BY <1>1
    <3> QED BY <3>2, <3>3
  <2>3. ASSUME NEW i \in 1 .. Len(toHost'), Who(toHost'[i]) = Own
        PROVE  i = Len(toHost') /\ toBoard' = <<>>
    <3>1. i = Len(toHost')
      BY <1>5, <2>1, <2>3
    <3>2. Who(toBoard[1]) = Own
      BY <1>2, <1>3, <1>5, <2>3, <3>1
    <3>3. 1 = Len(toBoard)
      <4>1. 1 \in 1 .. Len(toBoard)
        BY <1>1
      <4> QED BY <2>1, <3>2, <4>1
    <3> QED BY <1>1, <1>2, <3>1, <3>3
  <2> QED BY <1>1, <1>7, <2>2, <2>3 DEF OwnLast
<1>10. OnWay' = OnWay /\ Waiting' = Waiting /\ tries' = tries
  BY <1>1, <1>5 DEF OnWay, Waiting, hostVars
<1>9. WayAt'
  BY <1>6, <1>7, <1>10 DEF WakeInv, WayAt, Only
<1> QED BY <1>1, <1>5, <1>7, <1>8, <1>9, <1>10 DEF WakeInv

\* auto_wake() gives the motor back, tries the next profile or gives up.
LEMMA NoAnswerIs ==
  ASSUME Typed, NoAnswer, motorUnit => cand = 3
  PROVE  \/ cand = 3 /\ cand' = 3 /\ pc' \in {"undoMotor", "motorOff", "deselect"}
         \/ cand \in {1, 2} /\ cand' = cand + 1 /\ pc' = "timing" /\ motorUnit' = motorUnit
<1>1. CASE motorUnit
  BY <1>1 DEF NoAnswer
<1>2. CASE ~motorUnit
  <2>1. NextCandidate /\ cand \in 1 .. 3 /\ Len(Profiles) = 3
    BY <1>2, StepsAre DEF NoAnswer, Typed
  <2>2. CASE cand < 3
    BY <2>1, <2>2 DEF NextCandidate, StartWake
  <2>3. CASE cand = 3
    BY <2>1, <2>3, LeaveIs DEF NextCandidate, Leave
  <2> QED BY <2>1, <2>2, <2>3
<1> QED BY <1>1, <1>2

\* Where the host goes on from a place that is not one of the trials.
LEMMA ElsewhereStays ==
  ASSUME Typed, MotorNoted, pc \notin Trying, pc # "closed", (\E a : Ok(a)) \/ Fail \/ Unwind
  PROVE  pc' \notin Trying \cup {"latch"}
<1> USE DEF Trying, Once
<1>1. CASE pc \in {"latch", "latchCode"}
  <2>1. CASE \E a : Ok(a)
    <3>0. CodePlaceOf["latch"] = "latchCode" /\ CodePlaces["latchCode"] = "latch"
          /\ "latchCode" \in DOMAIN CodePlaces /\ "latch" \notin DOMAIN CodePlaces
      BY DEF CodePlaceOf, CodePlaces
    <3>1. \E x : StatusRead("latch", x) \/ Goto("latchCode")
      <4>1. PICK a : Ok(a)
        BY <2>1
      <4>2. CASE pc = "latch"
        BY <3>0, <4>1, <4>2 DEF Ok, StatusPlaces
      <4>3. CASE pc = "latchCode"
        <5>1. StatusRead("latch", TRUE)
          BY <3>0, <4>1, <4>3 DEF Ok, StatusPlaces
        <5> QED BY <5>1
      <4> QED BY <1>1, <4>2, <4>3
    <3> QED BY <3>1 DEF StatusRead, Woken, Goto
  <2>2. CASE Fail \/ Unwind
    <3>1. Release
      BY <1>1, <2>2 DEF Fail, Unwind, Leaving, Leave
    <3> QED BY <3>1, LeaveIs
  <2> QED BY <2>1, <2>2
<1>2. CASE pc \notin Early
  <2>1. Turn
    BY OkTurn, FailTurn, UnwindTurn
  <2> QED BY <1>2, <2>1 DEF Turn, Typed, Phases, Early, Polling, Ending, Closing
<1> QED BY <1>1, <1>2 DEF Early

\* The wake steps of a profile, one by one.
LEMMA StepIs ==
  ASSUME NEW c \in 1 .. 3, NEW n \in Nat, n < Len(WakeSteps[Profiles[c]])
  PROVE  \/ c = 2 /\ n = 0 /\ WakeSteps[Profiles[c]][n + 1] = "wake"
         \/ c = 3 /\ n = 0 /\ WakeSteps[Profiles[c]][n + 1] = "select"
         \/ c = 3 /\ n = 1 /\ WakeSteps[Profiles[c]][n + 1] = "motorOn"
<1>1. CASE c = 1
  BY <1>1, StepsAre
<1>2. CASE c = 2
  BY <1>2, StepsAre
<1>3. CASE c = 3
  <2>1. WakeSteps[Profiles[c]] = <<"select", "motorOn">>
    BY <1>3, StepsAre
  <2>2. n \in {0, 1}
    BY <2>1
  <2> QED BY <1>3, <2>1, <2>2
<1> QED BY <1>1, <1>2, <1>3

\* What is on its way suits the place where the host goes on.
Suits(way, len) ==
  /\ pc' = "clear" => way = {}
  /\ pc' = "timing" =>
       /\ cand' = 1 => way = {}
       /\ cand' = 2 => \/ way \subseteq {<<"status", 1>>, JunkWho}
                       \/ way \subseteq {<<"timing", 1>>, JunkWho}
       /\ cand' = 3 => \A w \in way : w[1] \notin {"select", "motorOn"} /\ w # <<"timing", 3>>
  /\ pc' = "wakeStep" =>
       /\ cand' = 2 => way \subseteq {<<"timing", 1>>, <<"timing", 2>>, JunkWho}
       /\ cand' = 3 /\ step' = 0 => \A w \in way : w[1] \notin {"select", "motorOn"}
       /\ cand' = 3 /\ step' = 1 => way = {}
  /\ pc' = "probe" => way \subseteq {<<"status", cand'>>} /\ len <= tries'
  /\ pc' = "latch" => len <= Tries - 1

\* That is enough, where nothing is asked for.
LEMMA SuitsKept ==
  ASSUME Typed', asked' = Nobody, toHost' \in Seq(Answers), pc' # "identify", Suits(Way', OnWay'),
         pc' \in Trying /\ (motorUnit' \/ pc' \in {"undoMotor", "undoSelect"}) => cand' = 3,
         tries' \in 0 .. Tries - 1
  PROVE  WakeInv'
<1>1. cand' \in 1 .. 3
  BY DEF Typed
<1>5. Waiting' = 0
  BY DEF Waiting
<1>6. tries' + 0 = tries' /\ Tries - 1 + 0 = Tries - 1
  <2>1. tries' \in Int /\ Tries - 1 \in Int
    BY TriesAssumption
  <2>2. \A n \in Int : n + 0 = n
    OBVIOUS
  <2> QED BY <2>1, <2>2
<1>2. /\ pc' = "clear" => Own' = <<"deselect", cand'>>
      /\ pc' = "timing" => Own' = <<"timing", cand'>>
      /\ pc' = "wakeStep" => \/ cand' = 2 /\ step' = 0 /\ Own' = <<"wake", 2>>
                             \/ cand' = 3 /\ step' = 0 /\ Own' = <<"select", 3>>
                             \/ cand' = 3 /\ step' = 1 /\ Own' = <<"motorOn", 3>>
  <2>1. CASE pc' = "wakeStep"
    <3>1. What' = Steps'[step' + 1] /\ step' \in Nat /\ step' < Len(Steps') /\ cand' \in 1 .. 3
      BY <2>1 DEF What, StatusPlaces, CodePlaces, Typed
    <3>2. Steps' = WakeSteps[Profiles[cand']]
      BY DEF Steps
    <3>3. \/ cand' = 2 /\ step' = 0 /\ What' = "wake"
          \/ cand' = 3 /\ step' = 0 /\ What' = "select"
          \/ cand' = 3 /\ step' = 1 /\ What' = "motorOn"
      BY <3>1, <3>2, StepIs
    <3> QED BY <2>1, <3>3 DEF Own
  <2>2. CASE pc' # "wakeStep"
    <3>1. (pc' = "clear" => What' = "deselect") /\ (pc' = "timing" => What' = "timing")
      BY <2>2 DEF What, StatusPlaces, CodePlaces
    <3> QED BY <2>2, <3>1 DEF Own
  <2> QED BY <2>1, <2>2
<1>3. pc' \in Once => Own' \notin Way'
  BY <1>1, <1>2 DEF Suits, Once, JunkWho
<1>4. WayAt'
  BY <1>1, <1>2, <1>5, <1>6 DEF Suits, WayAt, Only
<1> QED BY <1>3, <1>4 DEF WakeInv, OwnLast

\* The tries of a status are counted.
LEMMA TriesTurn ==
  ASSUME WakeInv, (\E a : Ok(a)) \/ Fail \/ Unwind, pc \in Phases \ {"closed"}
  PROVE  tries' \in 0 .. Tries - 1
<1>1. tries \in 0 .. Tries - 1 /\ 0 \in 0 .. Tries - 1
  BY TriesAssumption DEF WakeInv
<1>2. ASSUME NoAnswer PROVE tries' \in {0, tries}
  BY <1>2 DEF NoAnswer, NextCandidate, StartWake, Leave, Release
<1>3. ASSUME NEW at \in {"latch", "poll", "settle"}, NEW x, StatusRead(at, x) PROVE tries' = tries
  BY <1>3 DEF StatusRead, Woken, Goto, JogReturns, Leave, Release
<1>4. ASSUME Fail \/ Unwind PROVE tries' \in 0 .. Tries - 1
  <2>1. NoAnswer \/ Release \/ Raise \/ Retry \/ (\E q : Goto(q))
    BY <1>4 DEF Fail, Unwind, Leaving, Leave, Phases, Early, Polling, Ending, Closing
  <2>2. ASSUME Retry PROVE tries' \in 0 .. Tries - 1
    BY <1>1, <1>2, <2>2, TriesAssumption DEF Retry
  <2> QED BY <1>1, <1>2, <2>1, <2>2 DEF Release, Raise, Goto
<1>5. ASSUME NEW a, Ok(a) PROVE tries' \in 0 .. Tries - 1
  <2>1. \/ \E q : Goto(q)
        \/ StartWake(cand) \/ NextCandidate \/ IntoTry
        \/ \E n : NextStep(n)
        \/ \E at \in {"latch", "poll", "settle"} : \E x : StatusRead(at, x)
    <3>1. CASE pc \in {"latch", "poll", "settle"}
      BY <1>5, <3>1 DEF Ok, StatusPlaces, CodePlaces
    <3>2. CASE pc \in DOMAIN CodePlaces
      <4>1. StatusRead(CodePlaces[pc], TRUE)
        BY <1>5, <3>2 DEF Ok, StatusPlaces, CodePlaces
      <4>2. CodePlaces[pc] \in {"latch", "poll", "settle"}
        BY <3>2 DEF CodePlaces
      <4> QED BY <4>1, <4>2
    <3>3. CASE pc \notin {"latch", "poll", "settle"} \cup DOMAIN CodePlaces
      BY <1>5, <3>3 DEF Ok, StatusPlaces, CodePlaces, Phases, Early, Polling, Ending, Closing
    <3> QED BY <3>1, <3>2, <3>3
  <2> QED BY <1>1, <1>3, <2>1 DEF Goto, StartWake, NextCandidate, IntoTry, NextStep, Leave, Release
<1> QED BY <1>4, <1>5

\* Who gives up an exchange tries the next profile, or leaves.
LEMMA FailWake ==
  ASSUME IInv, WakeInv, pc \in Trying, IInv', asked' = Nobody, toHost' \in Seq(Answers),
         Way' \subseteq Way \cup {JunkWho},
         \/ Unwind
         \/ Fail /\ (pc = "probe" => /\ Way' \subseteq Way /\ Waiting = 1
                                     /\ OnWay \in Nat /\ OnWay' \in Nat /\ OnWay' <= OnWay)
  PROVE  WakeInv'
<1> USE DEF Trying, Once
<1>0. tries' \in 0 .. Tries - 1
  BY TriesTurn DEF Phases, Early
<1>1. Typed /\ Typed' /\ WayAt /\ cand \in 1 .. 3
      /\ (motorUnit \/ pc \in {"undoMotor", "undoSelect"} => cand = 3)
  BY DEF IInv, Typed, WakeInv
<1>2. \/ Release
      \/ pc \in {"timing", "wakeStep", "probe"} /\ NoAnswer
      \/ /\ pc = "probe" /\ TryAgain /\ tries' = tries + 1
         /\ Way' \subseteq Way /\ Waiting = 1
         /\ OnWay \in Nat /\ OnWay' \in Nat /\ OnWay' <= OnWay
      \/ pc = "undoMotor" /\ Goto("undoSelect")
  BY DEF Fail, Unwind, Leaving, Leave, Retry
<1>3. CASE Release
  <2>1. pc' \in {"motorOff", "deselect"}
    BY <1>1, <1>3, LeaveIs
  <2>2. Suits(Way', OnWay')
    BY <2>1 DEF Suits
  <2> QED BY <1>1, <2>1, <2>2, <1>0, SuitsKept
<1>4. CASE pc \in {"timing", "wakeStep", "probe"} /\ NoAnswer
  <2>1. CASE cand = 3 /\ cand' = 3 /\ pc' \in {"undoMotor", "motorOff", "deselect"}
    <3>1. Suits(Way', OnWay')
      BY <2>1 DEF Suits
    <3> QED BY <1>1, <2>1, <3>1, <1>0, SuitsKept
  <2>2. CASE cand \in {1, 2} /\ cand' = cand + 1 /\ pc' = "timing" /\ motorUnit' = motorUnit
    <3>1. pc # "wakeStep" \/ cand = 2
      BY <1>1, <2>2, WhatAt
    <3>2. Suits(Way', OnWay')
      <4>1. CASE cand = 1
        <5>1. Way \subseteq {<<"timing", 1>>, JunkWho} \/ Way \subseteq {<<"status", 1>>, JunkWho}
          BY <1>1, <1>4, <3>1, <4>1 DEF WayAt, Only
        <5> QED BY <2>2, <4>1, <5>1 DEF Suits
      <4>2. CASE cand = 2
        <5>1. Way \subseteq {<<"timing", 1>>, <<"timing", 2>>, <<"wake", 2>>, <<"status", 1>>,
                            <<"status", 2>>, JunkWho}
          BY <1>1, <1>4, <4>2 DEF WayAt, Only
        <5>2. \A w \in Way' : w[1] \notin {"select", "motorOn"} /\ w # <<"timing", 3>>
          BY <5>1 DEF JunkWho
        <5> QED BY <2>2, <4>2, <5>2 DEF Suits
      <4> QED BY <2>2, <4>1, <4>2
    <3>3. ~motorUnit'
      BY <1>1, <2>2
    <3> QED BY <1>1, <2>2, <3>2, <3>3, <1>0, SuitsKept
  <2> QED BY <1>1, <1>4, <2>1, <2>2, NoAnswerIs
<1>5. CASE /\ pc = "probe" /\ TryAgain /\ tries' = tries + 1
            /\ Way' \subseteq Way /\ Waiting = 1
            /\ OnWay \in Nat /\ OnWay' \in Nat /\ OnWay' <= OnWay
  <2>1. pc' = "probe" /\ cand' = cand /\ motorUnit' = motorUnit /\ tries' = tries + 1
    BY <1>5 DEF TryAgain
  <2>2. Suits(Way', OnWay')
    <3>1. Way' \subseteq {<<"status", cand'>>}
      BY <1>1, <1>5, <2>1 DEF WayAt
    <3>2. OnWay <= tries + 1 /\ OnWay' <= OnWay
      BY <1>1, <1>5 DEF WayAt
    <3>3. OnWay' <= tries'
      <4>1. OnWay \in Nat /\ tries \in Nat /\ OnWay' \in Nat
        BY <1>5, TriesAssumption DEF WakeInv
      <4> QED BY <2>1, <3>2, <4>1
    <3> QED BY <2>1, <3>1, <3>3 DEF Suits
  <2> QED BY <1>1, <2>1, <2>2, <1>0, SuitsKept
<1>6. CASE pc = "undoMotor" /\ Goto("undoSelect")
  <2>1. pc' = "undoSelect" /\ cand' = 3
    BY <1>1, <1>6 DEF Goto
  <2>2. Suits(Way', OnWay')
    BY <2>1 DEF Suits
  <2> QED BY <1>1, <2>1, <2>2, <1>0, SuitsKept
<1> QED BY <1>2, <1>3, <1>4, <1>5, <1>6

\* Where an answer that stands leads from the places of the trials.
LEMMA OkIs ==
  ASSUME NEW a, Ok(a)
  PROVE  /\ pc = "identify" => Goto("clear")
         /\ pc = "clear" => StartWake(cand)
         /\ pc = "timing" => NextStep(0)
         /\ pc = "wakeStep" => NextStep(step + 1)
         /\ pc = "probe" => Goto("latch")
         /\ pc = "undoMotor" => Goto("undoSelect")
         /\ pc = "undoSelect" => NextCandidate
BY DEF Ok, StatusPlaces, CodePlaces

\* Of what the host reads at a place where it asks once, only its own answer passes for it.
LEMMA OkWake ==
  ASSUME IInv, WakeInv, pc \in Trying, IInv', ReadAnswer, Ok(Head(toHost))
  PROVE  WakeInv'
<1> USE DEF Trying, Once
<1>0. tries' \in 0 .. Tries - 1
  BY TriesTurn DEF Phases, Early
<1> DEFINE a == Head(toHost)
<1>1. Typed /\ Typed' /\ MotorNoted /\ WayAt /\ cand \in 1 .. 3
      /\ (motorUnit \/ pc \in {"undoMotor", "undoSelect"} => cand = 3)
  BY DEF IInv, Typed, WakeInv
<1>2. /\ toHost' \in Seq(Answers) /\ a \in Answers /\ asked' = Nobody
      /\ Way' \subseteq Way /\ Who(a) \in Way /\ a.op = asked.op
      /\ OwnLast /\ Who(a) = Own => Way' = {} /\ OnWay' = 0
      /\ OnWay \in Nat /\ OnWay' = OnWay - 1
  BY <1>1, ReadWay DEF WakeInv
<1>3. a.op = OpOf(What)
  BY <1>2 DEF WakeInv, Request, ReadAnswer, EchoMatches
<1>4. Ok(a)
  OBVIOUS
<1> HIDE DEF a
<1>5. pc \in Once => OwnLast
  BY DEF WakeInv
<1>6. CASE pc = "identify"
  <2>1. a.what = "identify" /\ Own = <<"identify", cand>>
    BY <1>1, <1>2, <1>3, <1>6, WhatAt, OpTells DEF Own
  <2>2. Who(a) = Own
    BY <1>1, <1>2, <1>6, <2>1 DEF WayAt, Only, Who, JunkWho
  <2>3. pc' = "clear" /\ cand' = cand /\ motorUnit' = motorUnit /\ Way' = {}
    BY <1>2, <1>4, <1>5, <1>6, <2>2, OkIs DEF Goto
  <2>4. Suits(Way', OnWay')
    BY <2>3 DEF Suits
  <2> QED BY <1>1, <1>2, <1>6, <2>3, <2>4, <1>0, SuitsKept
<1>7. CASE pc = "clear"
  <2>1. a.what = "deselect" /\ Own = <<"deselect", cand>>
    BY <1>1, <1>2, <1>3, <1>7, WhatAt, OpTells DEF Own
  <2>2. Who(a) = Own
    BY <1>1, <1>2, <1>7, <2>1 DEF WayAt, Only, Who, JunkWho
  <2>3. pc' = "timing" /\ cand' = cand /\ motorUnit' = motorUnit /\ Way' = {}
    BY <1>2, <1>4, <1>5, <1>7, <2>2, OkIs DEF StartWake
  <2>4. Suits(Way', OnWay')
    BY <2>3 DEF Suits
  <2> QED BY <1>1, <1>2, <1>7, <2>3, <2>4, <1>0, SuitsKept
<1>8. CASE pc = "timing"
  <2>1. a.what = "timing" /\ Own = <<"timing", cand>>
    BY <1>1, <1>2, <1>3, <1>8, WhatAt, OpTells DEF Own
  <2>2. NextStep(0)
    BY <1>4, <1>8, OkIs
  <2>3. /\ pc' \in {"wakeStep", "probe", "latch"} /\ cand' = cand /\ step' = 0
        /\ pc' = "wakeStep" => step' < Len(Steps)
    BY <1>8, <2>2, <1>1 DEF NextStep
  <2>4. Steps = WakeSteps[Profiles[cand]]
    BY DEF Steps
  <2>5. CASE cand = 1
    <3>1. Who(a) = Own
      BY <1>1, <1>2, <1>8, <2>1, <2>5 DEF WayAt, Only, Who, JunkWho
    <3>0. Steps = <<>> /\ ~motorUnit
      BY <1>1, <1>8, <2>4, <2>5, StepsAre
    <3>2. Way' = {} /\ pc' # "wakeStep"
      BY <1>2, <1>5, <1>8, <2>3, <3>0, <3>1
    <3>3. motorUnit' = motorUnit
      BY <1>1, <2>2, <3>0 DEF NextStep, Typed
    <3>4. Suits(Way', OnWay')
      <4>1. OnWay' = 0 /\ 0 <= tries' /\ 0 <= Tries - 1
        BY <1>0, <1>2, <1>5, <1>8, <3>1, TriesAssumption
      <4> QED BY <2>3, <3>2, <4>1 DEF Suits
    <3> QED BY <1>1, <1>2, <1>8, <2>3, <3>2, <3>3, <3>4, <1>0, SuitsKept
  <2>6. CASE cand = 2
    <3>1. Way' \subseteq {<<"timing", 1>>, <<"timing", 2>>, JunkWho}
      <4>1. CASE Only({<<"status", 1>>, <<"timing", 2>>})
        <5>1. Who(a) = Own
          BY <1>2, <2>1, <2>6, <4>1 DEF Only, Who, JunkWho
        <5> QED BY <1>2, <1>5, <1>8, <5>1
      <4>2. CASE Only({<<"timing", 1>>, <<"timing", 2>>})
        BY <1>2, <4>2 DEF Only
      <4> QED BY <1>1, <1>8, <2>6, <4>1, <4>2 DEF WayAt
    <3>2. pc' \notin {"probe", "latch"}
      <4>1. Steps = <<"wake">>
        BY <2>4, <2>6, StepsAre
      <4> QED BY <2>2, <4>1 DEF NextStep
    <3>3. motorUnit' = motorUnit
      <4>1. 0 < Len(Steps) => Steps[0 + 1] = "wake"
        BY <2>4, <2>6, StepIs
      <4> QED BY <1>1, <2>2, <4>1 DEF NextStep, Typed
    <3>4. Suits(Way', OnWay')
      BY <2>3, <2>6, <3>1, <3>2 DEF Suits
    <3> QED BY <1>1, <1>2, <1>8, <2>3, <2>6, <3>3, <3>4, <1>0, SuitsKept
  <2>7. CASE cand = 3
    <3>1. \A w \in Way' : w[1] \notin {"select", "motorOn"}
      BY <1>1, <1>2, <1>8, <2>7 DEF WayAt
    <3>2. pc' \notin {"probe", "latch"}
      <4>1. Steps = <<"select", "motorOn">>
        BY <2>4, <2>7, StepsAre
      <4> QED BY <2>2, <4>1 DEF NextStep
    <3>3. Suits(Way', OnWay')
      BY <2>3, <2>7, <3>1, <3>2 DEF Suits
    <3> QED BY <1>1, <1>2, <1>8, <2>3, <2>7, <3>3, <1>0, SuitsKept
  <2> QED BY <1>1, <2>5, <2>6, <2>7
<1>9. CASE pc = "wakeStep"
  <2>1. NextStep(step + 1) /\ step \in Nat
    BY <1>1, <1>4, <1>9, OkIs DEF Typed
  <2>2. Who(a) = Own /\ Way' = {} /\ OnWay' = 0
    <3>1. CASE cand = 2
      <4>1. a.what \in Txns /\ Own = <<"wake", 2>>
        BY <1>1, <1>2, <1>3, <1>9, <3>1, WhatAt, OpTells DEF Own
      <4>2. Who(a) = Own
        BY <1>1, <1>2, <1>9, <3>1, <4>1 DEF WayAt, Only, Who, JunkWho, Txns
      <4> QED BY <1>2, <1>5, <1>9, <4>2
    <3>2. CASE cand = 3 /\ step = 0
      <4>1. a.what = "select" /\ Own = <<"select", 3>>
        BY <1>1, <1>2, <1>3, <1>9, <3>2, WhatAt, OpTells DEF Own
      <4>2. Who(a) = Own
        BY <1>1, <1>2, <1>9, <3>2, <4>1 DEF WayAt, Who
      <4> QED BY <1>2, <1>5, <1>9, <4>2
    <3>3. CASE cand = 3 /\ step = 1
      <4>1. a.what \in {"motorOn", "motorOff"} /\ Own = <<"motorOn", 3>>
        BY <1>1, <1>2, <1>3, <1>9, <3>3, WhatAt, OpTells DEF Own
      <4>2. Who(a) = Own
        BY <1>1, <1>2, <1>9, <3>3, <4>1 DEF WayAt, Only, Who, JunkWho
      <4> QED BY <1>2, <1>5, <1>9, <4>2
    <3> QED BY <1>1, <1>9, <3>1, <3>2, <3>3, WhatAt
  <2>3. pc' \in {"wakeStep", "probe", "latch"} /\ cand' = cand /\ step' = step + 1
    BY <2>1 DEF NextStep
  <2>4. Suits(Way', OnWay')
    <3>1. 0 <= tries' /\ 0 <= Tries - 1
      BY <1>0, TriesAssumption
    <3> QED BY <1>1, <2>2, <2>3, <3>1 DEF Suits, JunkWho
  <2>5. motorUnit' => cand' = 3
    <3>1. CASE cand = 3
      BY <2>3, <3>1
    <3>2. CASE cand = 2
      <4>1. step = 0 /\ Steps = <<"wake">>
        BY <1>1, <1>9, <3>2, WhatAt, StepsAre DEF Steps
      <4>2. ~(step + 1 < Len(Steps)) /\ ~motorUnit
        BY <1>1, <1>9, <3>2, <4>1
      <4> QED BY <1>1, <2>1, <4>2 DEF NextStep, Typed
    <3> QED BY <1>1, <1>9, <3>1, <3>2, WhatAt
  <2> QED BY <1>1, <1>2, <2>3, <2>4, <2>5, <1>0, SuitsKept
<1>10. CASE pc = "probe"
  <2>1. pc' = "latch"
    BY <1>4, <1>10, OkIs DEF Goto
  <2>2. OnWay' <= Tries - 1
    <3>1. Waiting = 1 /\ OnWay <= tries + 1
      BY <1>1, <1>10 DEF WayAt, Waiting, ReadAnswer, EchoMatches
    <3> QED BY <1>2, <3>1, TriesAssumption DEF WakeInv
  <2>3. Suits(Way', OnWay')
    BY <2>1, <2>2 DEF Suits
  <2> QED BY <1>1, <1>2, <2>1, <2>3, <1>0, SuitsKept
<1>11. CASE pc \in {"undoMotor", "undoSelect"}
  <2>1. cand = 3
    BY <1>1, <1>11
  <2>2. pc' \in {"undoSelect", "motorOff", "deselect"} /\ cand' = cand
    <3>1. CASE pc = "undoMotor"
      BY <1>4, <3>1, OkIs DEF Goto
    <3>2. CASE pc = "undoSelect"
      <4>1. NextCandidate /\ Len(Profiles) = 3
        BY <1>1, <1>4, <3>2, OkIs, StepsAre
      <4> QED BY <1>1, <2>1, <4>1, LeaveIs DEF NextCandidate, Leave
    <3> QED BY <1>11, <3>1, <3>2
  <2>3. Suits(Way', OnWay')
    BY <2>2 DEF Suits
  <2> QED BY <1>1, <1>2, <2>1, <2>2, <2>3, <1>0, SuitsKept
<1> QED BY <1>6, <1>7, <1>8, <1>9, <1>10, <1>11

\* At the probe every answer that may come passes for one to it.
LEMMA ProbeMatches ==
  ASSUME Typed, WakeInv, pc = "probe", asked # Nobody, toHost # <<>>
  PROVE  EchoMatches
<1> DEFINE a == Head(toHost)
<1>1. a \in Answers /\ a = toHost[1] /\ 1 \in 1 .. Len(toHost)
  BY TailAt DEF WakeInv
<1>2. Who(a) = <<"status", cand>>
  BY <1>1 DEF WakeInv, WayAt, Way, Whos
<1>3. asked.op = "COMMAND_TXN"
  BY WhatAt DEF WakeInv, Request
<1> HIDE DEF a
<1>4. a.what = "status"
  BY <1>2 DEF Who
<1>5. a.op = "COMMAND_TXN"
  <2>1. a # Junk
    BY <1>4 DEF Junk
  <2>2. PICK w \in Whats : a.op = OpOf(w) /\ a.what = w
    BY <1>1, <2>1 DEF Answers, Answer, Requests, Request
  <2> QED BY <1>4, <2>2 DEF OpOf, Txns
<1> QED BY <1>3, <1>5 DEF EchoMatches, a

\* What the host reads and where that leads.
LEMMA HostReads ==
  ASSUME Typed, Hosts
  PROVE  /\ pc # "closed" /\ asked' = Nobody /\ Reads /\ UNCHANGED boardVars
         /\ \/ ReadAnswer /\ Ok(Head(toHost))
            \/ Fail /\ (ReadAnswer \/ ReadMismatch \/ ReadTimesOut)
            \/ Unwind
            \/ pc = "stop" /\ Raise
<1>1. /\ Reads /\ UNCHANGED boardVars
      /\ \/ ReadAnswer /\ Ok(Head(toHost))
         \/ Fail /\ (ReadAnswer \/ ReadMismatch \/ ReadTimesOut)
         \/ Unwind
         \/ pc = "stop" /\ Raise
  BY DEF Hosts, Receive, Desync, Timeout, CtrlC, CtrlCBetween, Reads
<1>2. asked' = Nobody
  BY <1>1, ReadsAre
<1>3. pc # "closed"
  BY DEF Hosts, Typed, Receive, Desync, Timeout, CtrlC, CtrlCBetween, ReadAnswer, ReadMismatch,
         ReadTimesOut, ReadInterrupted, EchoMatches
<1> QED BY <1>1, <1>2, <1>3

\* Every step of the host keeps what is known of its answers.
LEMMA HostWake ==
  ASSUME IInv, WakeInv, Hosts
  PROVE  WakeInv'
<1>1. IInv' /\ Typed /\ Typed' /\ MotorNoted
  BY HostStep DEF IInv, Hosts
<1>2. /\ asked' = Nobody /\ pc # "closed" /\ Reads
      /\ \/ ReadAnswer /\ Ok(Head(toHost))
         \/ Fail /\ (ReadAnswer \/ ReadMismatch \/ ReadTimesOut)
         \/ Unwind
         \/ pc = "stop" /\ Raise
  BY <1>1, HostReads
<1>3. toHost' \in Seq(Answers) /\ Way' \subseteq Way \cup {JunkWho}
  BY <1>1, <1>2, FailWay DEF WakeInv
<1>0. tries' \in 0 .. Tries - 1
  <2>1. CASE (\E a : Ok(a)) \/ Fail \/ Unwind
    BY <1>1, <1>2, <2>1, TriesTurn DEF Typed
  <2>2. CASE Raise
    BY <2>2 DEF Raise, WakeInv
  <2> QED BY <1>2, <2>1, <2>2
<1>6. ASSUME pc = "probe", ReadAnswer \/ ReadMismatch \/ ReadTimesOut
      PROVE  /\ Way' \subseteq Way /\ Waiting = 1
             /\ OnWay \in Nat /\ OnWay' \in Nat /\ OnWay' <= OnWay
  <2>1. Len(toHost) \in Nat /\ Len(toBoard) \in Nat /\ Len(toHost') \in Nat /\ toBoard' = toBoard
    BY <1>1, <1>3, <1>6 DEF WakeInv, Typed, ReadAnswer, ReadMismatch, ReadTimesOut
  <2>2. OnWay \in Nat /\ OnWay' \in Nat /\ Waiting = 1
    BY <1>6, <2>1 DEF OnWay, Waiting, ReadAnswer, ReadMismatch, ReadTimesOut, EchoMatches
  <2>3. ~ReadMismatch
    BY <1>1, <1>6, ProbeMatches DEF ReadMismatch
  <2>4. CASE ReadAnswer
    BY <1>1, <2>2, <2>4, ReadWay DEF WakeInv
  <2>5. CASE ReadTimesOut
    BY <2>2, <2>5 DEF ReadTimesOut, Way, OnWay
  <2> QED BY <1>6, <2>2, <2>3, <2>4, <2>5
<1>4. CASE pc \in Trying
  <2>1. CASE ReadAnswer /\ Ok(Head(toHost))
    BY <1>1, <1>4, <2>1, OkWake
  <2>2. CASE Fail /\ (ReadAnswer \/ ReadMismatch \/ ReadTimesOut)
    BY <1>1, <1>2, <1>3, <1>4, <1>6, <2>2, FailWake
  <2>3. CASE Unwind
    BY <1>1, <1>2, <1>3, <1>4, <2>3, FailWake
  <2> QED BY <1>2, <1>4, <2>1, <2>2, <2>3 DEF Trying, Once
<1>5. CASE pc \notin Trying
  <2>1. pc' \notin Trying \cup {"latch"}
    <3>1. CASE (\E a : Ok(a)) \/ Fail \/ Unwind
      BY <1>1, <1>2, <1>5, <3>1, ElsewhereStays
    <3>2. CASE Raise
      BY <3>2 DEF Raise, Trying, Once
    <3> QED BY <1>2, <3>1, <3>2
  <2>2. Suits(Way', OnWay')
    BY <2>1 DEF Suits, Trying, Once
  <2> QED BY <1>0, <1>1, <1>2, <1>3, <2>1, <2>2, SuitsKept DEF Trying, Once
<1> QED BY <1>4, <1>5

\* A session begins with nothing on its way.
LEMMA StartedWake ==
  ASSUME Init, IInv
  PROVE  WakeInv
<1>1. /\ pc = "identify" /\ asked = Nobody /\ toBoard = <<>> /\ toHost = <<>> /\ motorUnit = FALSE
  BY DEF Init, LinkInit
<1>2. Len(toHost) = 0 /\ Len(toBoard) = 0 /\ toHost \in Seq(Answers)
  BY <1>1
<1>3. Way = {} /\ tries \in 0 .. Tries - 1
  BY <1>2, TriesAssumption DEF Way, Whos, Init
<1> QED BY <1>1, <1>2, <1>3 DEF WakeInv, OwnLast, WayAt, Only

\* The end of the tape changes nothing of it.
LEMMA TapeEndsWake ==
  ASSUME WakeInv, TapeEnds \/ UNCHANGED vars
  PROVE  WakeInv'
<1>1. UNCHANGED <<linkVars, hostVars>>
  BY DEF TapeEnds, vars
<1>2. UNCHANGED <<asked, toBoard, toHost, pc, cand, step, motorUnit, tries>>
  BY <1>1 DEF linkVars, hostVars
<1>3. What' = What /\ Own' = Own /\ Way' = Way /\ OnWay' = OnWay /\ Waiting' = Waiting
  BY <1>2 DEF What, Steps, Own, Way, OnWay, Waiting
<1> QED BY <1>2, <1>3 DEF WakeInv, OwnLast, WayAt, Only, Request

\* Who goes on from the probe has read an answer to it.
LEMMA ProbeAnswered ==
  ASSUME IInv, WakeInv, [Next]_vars, pc = "probe", pc' = "latch"
  PROVE  Head(toHost).what = "status" /\ Head(toHost).by = cand
<1>1. Typed /\ cand \in 1 .. 3 /\ (motorUnit => cand = 3)
  BY DEF IInv, Typed, WakeInv, Trying
<1>2. Receive
  <2>1. ~(Send \/ Execute \/ TapeEnds \/ UNCHANGED vars)
    BY DEF Send, Execute, TapeEnds, vars, hostVars
  <2>2. ~Fail
    <3>1. Fail => TryAgain \/ NoAnswer
      BY DEF Fail, Leaving, Retry
    <3> QED BY <1>1, <3>1, NoAnswerIs DEF TryAgain
  <2>3. ~Unwind
    <3>1. Unwind => Release
      BY DEF Unwind, Leaving, Leave
    <3> QED BY <1>1, <3>1, LeaveIs
  <2> QED BY <2>1, <2>2, <2>3 DEF Next, Desync, Timeout, CtrlC, CtrlCBetween
<1> DEFINE a == Head(toHost)
<1>3. a \in Answers /\ Who(a) \in Way /\ a.op = asked.op /\ asked # Nobody
  BY <1>1, <1>2, ReadWay DEF Receive, WakeInv, ReadAnswer, EchoMatches
<1> HIDE DEF a
<1>4. a.op = "COMMAND_TXN"
  BY <1>1, <1>3, WhatAt DEF WakeInv, Request
<1>5. a.what \in Txns
  BY <1>3, <1>4, OpTells
<1>6. Who(a) \in {<<"status", cand>>, JunkWho}
  BY <1>3 DEF WakeInv, WayAt, Only
<1>7. Who(a) = <<"status", cand>>
  BY <1>5, <1>6 DEF Who, JunkWho, Txns
<1> QED BY <1>7 DEF Who, a

\* Every step keeps what is known of the answers.
LEMMA WakePreserved ==
  ASSUME IInv, WakeInv, [Next]_vars
  PROVE  IInv' /\ WakeInv'
<1>1. IInv' /\ Typed
  BY Preserved DEF IInv
<1>2. Send \/ Execute \/ Hosts \/ (TapeEnds \/ UNCHANGED vars)
  BY DEF Next, Hosts
<1>3. WakeInv'
  BY <1>1, <1>2, SendWake, ExecuteWake, HostWake, TapeEndsWake
<1> QED BY <1>1, <1>3

\* auto_wake() credits no profile with the answer to another one's probe.
THEOREM WinnerAnsweredAlways == Spec => WinnerAnswered
<1>1. Init => IInv /\ WakeInv
  BY Started, StartedWake
<1>2. IInv /\ WakeInv /\ [Next]_vars => IInv' /\ WakeInv'
  BY WakePreserved
<1>3. IInv /\ WakeInv /\ [Next]_vars
        => [pc = "probe" /\ pc' = "latch" => Head(toHost).what = "status" /\ Head(toHost).by = cand]_vars
  BY ProbeAnswered
<1> QED BY <1>1, <1>2, <1>3, PTL DEF Spec, WinnerAnswered

(************************** Whether the tape is still *************************)

\* Without an error at the start there is none.
NoFault == ~hadError =>
  /\ ~latched /\ pc \notin DOMAIN CodePlaces
  /\ \A i \in 1 .. Len(toBoard) : toBoard[i].what # "errorCode"
  /\ \A i \in 1 .. Len(toHost) : toHost[i].what # "errorCode" /\ ~toHost[i].error

\* A report is a status or an error code; one with its Ready bit says that the tape is
\* still, unless it was set going since.
ReportsTrue ==
  \A i \in 1 .. Len(toHost) :
    /\ toHost[i].report => toHost[i].what \in {"status", "errorCode"}
    /\ toHost[i].what = "status" /\ toHost[i].ready =>
         \/ tape = "still"
         \/ \E j \in 1 .. Len(toHost) : j > i /\ toHost[j].what = "move"
         \/ \E j \in 1 .. Len(toBoard) : toBoard[j].what = "move"

\* No more than k answers come before the one to the motion command.
MoveWithin(k) ==
  /\ \A i \in 1 .. Len(toHost) : toHost[i].what = "move" => i <= k + 1
  /\ \A i \in 1 .. Len(toBoard) : toBoard[i].what = "move" => Len(toHost) + i <= k + 1
Lag ==
  /\ pc \in Early \/ (pc = "move" /\ asked = Nobody) => \A w \in Way : w[1] # "move"
  /\ ~hadError /\ ~raised =>
       /\ pc = "move" /\ asked = Nobody => OnWay <= 3
       /\ pc = "move" /\ asked # Nobody => MoveWithin(3)
       /\ pc = "poll" => MoveWithin(2)
       /\ pc = "stop" => MoveWithin(1)
       /\ pc = "settle" => MoveWithin(0)
ReturnedStill == returned => ~raised /\ pc \in Closing /\ (~hadError => Resting)
JogInv == NoFault /\ ReportsTrue /\ Lag /\ ReturnedStill

\* Who is of a queue is of one of its members.
LEMMA WhoseIndex ==
  ASSUME NEW s, NEW w \in Whos(s)
  PROVE  \E i \in 1 .. Len(s) : w = Who(s[i])
BY DEF Whos

\* Whether a motion command is on its way, request by request.
LEMMA NotMoved ==
  (\A w \in Way : w[1] # "move")
    <=> /\ \A i \in 1 .. Len(toHost) : toHost[i].what # "move"
        /\ \A i \in 1 .. Len(toBoard) : toBoard[i].what # "move"
<1>1. \A x : Who(x)[1] = x.what
  BY DEF Who
<1>2. /\ \A i \in 1 .. Len(toHost) : Who(toHost[i]) \in Way
      /\ \A i \in 1 .. Len(toBoard) : Who(toBoard[i]) \in Way
  BY DEF Way, Whos
<1>3. \A w \in Whos(toHost) : \E i \in 1 .. Len(toHost) : w = Who(toHost[i])
  BY WhoseIndex
<1>4. \A w \in Whos(toBoard) : \E i \in 1 .. Len(toBoard) : w = Who(toBoard[i])
  BY WhoseIndex
<1> QED BY <1>1, <1>2, <1>3, <1>4, ZenonT(60) DEF Way

\* What a read leaves on its way to the host: answers that were there, and junk.
LEMMA ReadItems ==
  ASSUME Typed, toHost \in Seq(Answers), Reads
  PROVE  \E d \in {0 - 1, 0, 1} :
           /\ Len(toHost') + d = Len(toHost) /\ Len(toHost) \in Nat /\ Len(toHost') \in Nat
           /\ ReadAnswer => d = 1 /\ toHost # <<>>
           /\ \A i \in 1 .. Len(toHost') :
                IF d = 0 - 1 /\ i \in {1, 2} THEN toHost'[i] = Junk
                ELSE i + d \in 1 .. Len(toHost) /\ toHost'[i] = toHost[i + d]
<1>1. ASSUME toHost # <<>>, toHost' = Tail(toHost)
      PROVE  /\ Len(toHost') + 1 = Len(toHost) /\ Len(toHost) \in Nat /\ Len(toHost') \in Nat
             /\ \A i \in 1 .. Len(toHost') : i + 1 \in 1 .. Len(toHost) /\ toHost'[i] = toHost[i + 1]
  BY <1>1
<1>2. CASE ReadAnswer
  BY <1>1, <1>2 DEF ReadAnswer, EchoMatches
<1>3. CASE toHost # <<>> /\ toHost' = Tail(toHost)
  BY <1>1, <1>3
<1>4. CASE ~ReadAnswer /\ toHost # <<>> /\ toHost' = <<Junk, Junk>> \o Tail(toHost)
  <2> DEFINE t == Tail(toHost)
  <2>1. /\ ~ReadAnswer /\ t \in Seq(Answers) /\ Junk \in Answers /\ toHost # <<>>
        /\ Len(t) = Len(toHost) - 1 /\ Len(toHost) \in Nat \ {0}
        /\ \A i \in 1 .. Len(toHost) - 1 : t[i] = toHost[i + 1]
    BY <1>4, TailAt DEF Answers
  <2> HIDE DEF t
  <2>2. /\ Len(t) \in Nat /\ Len(toHost') = Len(t) + 2
        /\ \A i \in 1 .. Len(toHost') : toHost'[i] = IF i \in {1, 2} THEN Junk ELSE t[i - 2]
    BY <1>4, <2>1 DEF t
  <2>3. ASSUME NEW i \in 1 .. Len(toHost')
        PROVE  IF i \in {1, 2} THEN toHost'[i] = Junk
               ELSE i + (0 - 1) \in 1 .. Len(toHost) /\ toHost'[i] = toHost[i + (0 - 1)]
    <3>1. CASE i \in {1, 2}
      BY <2>2, <3>1
    <3>2. CASE i \notin {1, 2}
      <4>1. /\ i - 2 \in 1 .. Len(toHost) - 1 /\ (i - 2) + 1 = i + (0 - 1)
            /\ i + (0 - 1) \in 1 .. Len(toHost)
        BY <2>1, <2>2, <3>2
      <4>2. toHost'[i] = t[i - 2]
        BY <2>2, <3>2
      <4>3. t[i - 2] = toHost[(i - 2) + 1]
        BY <2>1, <4>1
      <4> QED BY <4>1, <4>2, <4>3
    <3> QED BY <3>1, <3>2
  <2>4. Len(toHost') + (0 - 1) = Len(toHost) /\ Len(toHost) \in Nat /\ Len(toHost') \in Nat
    BY <2>1, <2>2
  <2> QED BY <2>1, <2>3, <2>4
<1>5. CASE ~ReadAnswer /\ toHost' = toHost
  <2>1. Len(toHost) \in Nat /\ \A i \in 1 .. Len(toHost) : i + 0 = i
    OBVIOUS
  <2> QED BY <1>5, <2>1
<1> QED BY <1>2, <1>3, <1>4, <1>5, ReadsAre

\* A read leaves what is known of the reports.
LEMMA ReadReports ==
  ASSUME Typed, toHost \in Seq(Answers), ReportsTrue, Reads, tape' = tape
  PROVE  ReportsTrue'
<1>1. toBoard' = toBoard
  BY ReadsAre
<1>2. PICK d \in {0 - 1, 0, 1} :
        /\ Len(toHost') + d = Len(toHost) /\ Len(toHost) \in Nat /\ Len(toHost') \in Nat
        /\ \A i \in 1 .. Len(toHost') :
             IF d = 0 - 1 /\ i \in {1, 2} THEN toHost'[i] = Junk
             ELSE i + d \in 1 .. Len(toHost) /\ toHost'[i] = toHost[i + d]
  BY ReadItems
<1> SUFFICES ASSUME NEW i \in 1 .. Len(toHost')
             PROVE  /\ toHost'[i].report => toHost'[i].what \in {"status", "errorCode"}
                    /\ toHost'[i].what = "status" /\ toHost'[i].ready =>
                         \/ tape' = "still"
                         \/ \E j \in 1 .. Len(toHost') : j > i /\ toHost'[j].what = "move"
                         \/ \E j \in 1 .. Len(toBoard') : toBoard'[j].what = "move"
  BY DEF ReportsTrue
<1>3. CASE d = 0 - 1 /\ i \in {1, 2}
  <2>1. toHost'[i] = Junk
    BY <1>2, <1>3
  <2> QED BY <2>1 DEF Junk
<1>4. CASE ~(d = 0 - 1 /\ i \in {1, 2})
  <2>1. i + d \in 1 .. Len(toHost) /\ toHost'[i] = toHost[i + d]
    BY <1>2, <1>4
  <2>2. ASSUME NEW j \in 1 .. Len(toHost), j > i + d, toHost[j].what = "move"
        PROVE  \E q \in 1 .. Len(toHost') : q > i /\ toHost'[q].what = "move"
    <3>1. j - d \in 1 .. Len(toHost') /\ j - d > i /\ (j - d) + d = j /\ ~(d = 0 - 1 /\ j - d \in {1, 2})
      BY <1>2, <1>4, <2>2
    <3>2. toHost'[j - d] = toHost[j]
      BY <1>2, <3>1
    <3> QED BY <2>2, <3>1, <3>2
  <2>3. /\ toHost[i + d].report => toHost[i + d].what \in {"status", "errorCode"}
        /\ toHost[i + d].what = "status" /\ toHost[i + d].ready =>
             \/ tape = "still"
             \/ \E j \in 1 .. Len(toHost) : j > i + d /\ toHost[j].what = "move"
             \/ \E j \in 1 .. Len(toBoard) : toBoard[j].what = "move"
    BY <2>1 DEF ReportsTrue
  <2> QED BY <1>1, <2>1, <2>2, <2>3
<1> QED BY <1>3, <1>4

\* It brings the answer to the motion command nearer by one.
LEMMA ReadWithin ==
  ASSUME Typed, toHost \in Seq(Answers), ReadAnswer, NEW k \in Int, MoveWithin(k)
  PROVE  MoveWithin(k - 1)'
<1>1. toBoard' = toBoard /\ Len(toBoard) \in Nat /\ toHost' = Tail(toHost) /\ toHost # <<>>
  BY DEF ReadAnswer, EchoMatches, Typed
<1>2. /\ Len(toHost') = Len(toHost) - 1 /\ Len(toHost) \in Nat
      /\ \A i \in 1 .. Len(toHost') : toHost'[i] = toHost[i + 1] /\ i + 1 \in 1 .. Len(toHost)
  BY <1>1, TailAt
<1>3. ASSUME NEW i \in 1 .. Len(toHost'), toHost'[i].what = "move" PROVE i <= (k - 1) + 1
  <2>1. i + 1 <= k + 1
    BY <1>2, <1>3 DEF MoveWithin
  <2> QED BY <2>1
<1>4. ASSUME NEW i \in 1 .. Len(toBoard), toBoard[i].what = "move"
      PROVE  Len(toHost') + i <= (k - 1) + 1
  <2>1. Len(toHost) + i <= k + 1
    BY <1>4 DEF MoveWithin
  <2> QED BY <1>2, <2>1
<1> QED BY <1>1, <1>3, <1>4 DEF MoveWithin

\* A request that sets nothing going.
LEMMA SendReports ==
  ASSUME IInv, WakeInv, JogInv, Send
  PROVE  JogInv'
<1> DEFINE r == Request(What, cand)
<1>1. /\ pc # "closed" /\ asked = Nobody /\ asked' = r /\ toBoard' = Append(toBoard, r)
      /\ toHost' = toHost /\ UNCHANGED hostVars /\ UNCHANGED boardVars
  BY DEF Send, Ask
<1>2. Typed /\ What \in Whats /\ cand \in DOMAIN Profiles /\ (What = "move" <=> pc = "move")
  <2>1. Typed
    BY DEF IInv
  <2> QED BY <1>1, <2>1, WhatIs, StepsAre DEF Typed
<1>3. r \in Requests /\ r.what = What /\ Who(r) = Own /\ r # Nobody
  <2>1. r.what = What /\ r.by = cand
    BY DEF Request
  <2>2. Nobody.what = "none" /\ What # "none"
    BY <1>2 DEF Nobody, Whats
  <2> QED BY <1>2, <2>1, <2>2 DEF Requests, Who, Own
<1> HIDE DEF r
<1>4. /\ Len(toBoard') = Len(toBoard) + 1 /\ Len(toBoard) \in Nat /\ Len(toHost) \in Nat
      /\ toBoard'[Len(toBoard) + 1].what = What
      /\ \A i \in 1 .. Len(toBoard) : toBoard'[i] = toBoard[i]
  BY <1>1, <1>2, <1>3, AppendAt DEF Typed, WakeInv
<1>5. /\ pc' = pc /\ asked' # Nobody /\ tape' = tape /\ latched' = latched /\ hadError' = hadError
      /\ raised' = raised /\ returned' = returned
  BY <1>1, <1>3 DEF hostVars, boardVars
<1>6. NoFault'
  <2>1. pc \notin DOMAIN CodePlaces => What # "errorCode"
    <3> SUFFICES ASSUME pc \notin DOMAIN CodePlaces PROVE What # "errorCode"
      OBVIOUS
    <3>1. CASE pc = "wakeStep"
      BY <1>1, <1>2, <3>1, WhatIs
    <3>2. CASE pc # "wakeStep"
      BY <1>1, <1>2, <3>2 DEF What, StatusPlaces, CodePlaces, Typed, Phases, Early, Polling, Ending,
                              Closing
    <3> QED BY <3>1, <3>2
  <2> QED BY <1>1, <1>4, <1>5, <2>1 DEF JogInv, NoFault
<1>7. ReportsTrue'
  <2> SUFFICES ASSUME NEW i \in 1 .. Len(toHost)
               PROVE  /\ toHost[i].report => toHost[i].what \in {"status", "errorCode"}
                      /\ toHost[i].what = "status" /\ toHost[i].ready =>
                           \/ tape = "still"
                           \/ \E j \in 1 .. Len(toHost) : j > i /\ toHost[j].what = "move"
                           \/ \E j \in 1 .. Len(toBoard') : toBoard'[j].what = "move"
    BY <1>1, <1>5 DEF ReportsTrue
  <2>1. (\E j \in 1 .. Len(toBoard) : toBoard[j].what = "move")
          => \E j \in 1 .. Len(toBoard') : toBoard'[j].what = "move"
    BY <1>4
  <2> QED BY <2>1 DEF JogInv, ReportsTrue
<1>8. Lag'
  <2>1. ASSUME NEW k \in Int, MoveWithin(k), pc # "move" PROVE MoveWithin(k)'
    BY <1>1, <1>2, <1>4, <2>1 DEF MoveWithin
  <2>2. CASE pc = "move"
    <3>1. (\A w \in Way : w[1] # "move") /\ (~hadError /\ ~raised => OnWay <= 3)
      BY <1>1, <2>2 DEF JogInv, Lag
    <3>2. \A i \in 1 .. Len(toHost) : toHost[i].what # "move"
      BY <3>1, NotMoved
    <3>3. \A i \in 1 .. Len(toBoard) : toBoard[i].what # "move"
      BY <3>1, NotMoved
    <3>4. ASSUME OnWay <= 3 PROVE MoveWithin(3)'
      <4>1. ASSUME NEW i \in 1 .. Len(toBoard'), toBoard'[i].what = "move" PROVE i = Len(toBoard) + 1
        BY <1>4, <3>3, <4>1
      <4>2. Len(toHost) + (Len(toBoard) + 1) <= 3 + 1
        BY <1>4, <3>4 DEF OnWay
      <4> QED BY <1>1, <3>2, <4>1, <4>2 DEF MoveWithin
    <3> QED BY <1>5, <2>2, <3>1, <3>4 DEF Lag, Early
  <2>3. CASE pc \in Early
    <3>1. Way' = Way \cup {Own}
      BY <1>1, <1>2, <1>3, WhosAppend DEF Way, Typed
    <3>2. \A w \in Way' : w[1] # "move"
      BY <1>2, <2>3, <3>1 DEF JogInv, Lag, Own, Early
    <3> QED BY <1>5, <2>3, <3>2 DEF Lag, Early
  <2>4. CASE pc \notin Early \cup {"move"}
    BY <1>5, <2>1, <2>4 DEF JogInv, Lag
  <2> QED BY <2>2, <2>3, <2>4
<1>9. ReturnedStill'
  <2>1. ASSUME Resting, pc \in Closing PROVE Resting'
    <3>1. What # "move"
      BY <1>2, <2>1 DEF Closing
    <3> QED BY <1>4, <1>5, <2>1, <3>1 DEF Resting, NoMoveAfter
  <2> QED BY <1>5, <2>1 DEF JogInv, ReturnedStill
<1> QED BY <1>6, <1>7, <1>8, <1>9 DEF JogInv

\* What the board executes and answers.
LEMMA ExecuteReports ==
  ASSUME IInv, WakeInv, JogInv, Execute
  PROVE  JogInv'
<1>1. /\ toBoard # <<>> /\ UNCHANGED hostVars /\ asked' = asked
      /\ Len(toBoard) \in Nat \ {0} /\ Len(toBoard') = Len(toBoard) - 1
      /\ \A i \in 1 .. Len(toBoard') : toBoard'[i] = toBoard[i + 1] /\ i + 1 \in 1 .. Len(toBoard)
      /\ tape' = IF toBoard[1].what = "move" /\ Listening /\ ~latched THEN "moving"
                 ELSE IF toBoard[1].what = "stop" /\ Listening THEN "still" ELSE tape
  BY ServedIs
<1>2. /\ Head(toBoard) = toBoard[1] /\ toBoard[1] \in Requests /\ toBoard \in Seq(Requests)
      /\ 1 \in 1 .. Len(toBoard) /\ tape \in {"still", "moving"}
  BY <1>1 DEF IInv, Typed
<1> DEFINE r == toBoard[1]
<1>3. PICK rd \in BOOLEAN, er \in BOOLEAN, report \in BOOLEAN :
        /\ report = (r.what \in {"status", "errorCode"} /\ Listening)
        /\ toHost' = Append(toHost, Answer(r, report, rd, er))
        /\ r.what # "errorCode" => rd = (report /\ tape = "still") /\ er = (report /\ latched)
  BY <1>2 DEF Execute, Serve
<1> DEFINE a == Answer(r, report, rd, er)
<1>4. /\ a \in Answers /\ a.what = r.what /\ a.report = report /\ a.ready = rd /\ a.error = er
      /\ Who(a) = Who(r)
  BY <1>2 DEF Answers, Answer, Who
<1>5. toHost' = Append(toHost, a)
  BY <1>3
<1> HIDE DEF a, r
<1>6. /\ Len(toHost') = Len(toHost) + 1 /\ Len(toHost) \in Nat /\ toHost'[Len(toHost) + 1] = a
      /\ \A i \in 1 .. Len(toHost) : toHost'[i] = toHost[i]
  BY <1>4, <1>5, AppendAt DEF WakeInv
<1>7. /\ pc' = pc /\ hadError' = hadError /\ raised' = raised /\ returned' = returned
      /\ (~latched => ~latched')
  BY <1>1 DEF hostVars, Execute
<1>8. NoFault'
  <2> SUFFICES ASSUME ~hadError
               PROVE  /\ ~latched' /\ pc \notin DOMAIN CodePlaces
                      /\ \A i \in 1 .. Len(toBoard') : toBoard'[i].what # "errorCode"
                      /\ \A i \in 1 .. Len(toHost') : toHost'[i].what # "errorCode" /\ ~toHost'[i].error
    BY <1>7 DEF NoFault
  <2>1. /\ ~latched /\ pc \notin DOMAIN CodePlaces
        /\ \A i \in 1 .. Len(toBoard) : toBoard[i].what # "errorCode"
        /\ \A i \in 1 .. Len(toHost) : toHost[i].what # "errorCode" /\ ~toHost[i].error
    BY DEF JogInv, NoFault
  <2>2. r.what # "errorCode" /\ ~er
    BY <1>2, <1>3, <2>1 DEF r
  <2>3. \A i \in 1 .. Len(toHost') : toHost'[i].what # "errorCode" /\ ~toHost'[i].error
    BY <1>4, <1>6, <2>1, <2>2
  <2>4. \A i \in 1 .. Len(toBoard') : toBoard'[i].what # "errorCode"
    BY <1>1, <2>1
  <2> QED BY <1>7, <2>1, <2>3, <2>4
<1>9. ReportsTrue'
  <2> SUFFICES ASSUME NEW i \in 1 .. Len(toHost')
               PROVE  /\ toHost'[i].report => toHost'[i].what \in {"status", "errorCode"}
                      /\ toHost'[i].what = "status" /\ toHost'[i].ready =>
                           \/ tape' = "still"
                           \/ \E j \in 1 .. Len(toHost') : j > i /\ toHost'[j].what = "move"
                           \/ \E j \in 1 .. Len(toBoard') : toBoard'[j].what = "move"
    BY DEF ReportsTrue
  <2>1. CASE i = Len(toHost) + 1
    <3>1. toHost'[i] = a
      BY <1>6, <2>1
    <3>2. a.report => a.what \in {"status", "errorCode"}
      BY <1>3, <1>4
    <3>3. a.what = "status" /\ a.ready => tape = "still" /\ tape' = tape
      BY <1>1, <1>3, <1>4 DEF r
    <3> QED BY <3>1, <3>2, <3>3
  <2>2. CASE i # Len(toHost) + 1
    <3>1. i \in 1 .. Len(toHost) /\ toHost'[i] = toHost[i]
      BY <1>6, <2>2
    <3>2. toHost[i].report => toHost[i].what \in {"status", "errorCode"}
      BY <3>1 DEF JogInv, ReportsTrue
    <3>3. ASSUME toHost[i].what = "status" /\ toHost[i].ready
          PROVE  \/ tape' = "still"
                 \/ \E j \in 1 .. Len(toHost') : j > i /\ toHost'[j].what = "move"
                 \/ \E j \in 1 .. Len(toBoard') : toBoard'[j].what = "move"
      <4>1. CASE r.what = "move"
        <5>1. Len(toHost) + 1 \in 1 .. Len(toHost') /\ Len(toHost) + 1 > i
          BY <1>6, <3>1
        <5> QED BY <1>4, <1>6, <4>1, <5>1
      <4>2. CASE r.what # "move"
        <5>1. CASE tape = "still"
          BY <1>1, <4>2, <5>1 DEF r
        <5>2. CASE \E j \in 1 .. Len(toHost) : j > i /\ toHost[j].what = "move"
          BY <1>6, <5>2
        <5>3. CASE \E j \in 1 .. Len(toBoard) : toBoard[j].what = "move"
          <6>1. PICK j \in 1 .. Len(toBoard) : toBoard[j].what = "move"
            BY <5>3
          <6>2. j # 1
            BY <4>2, <6>1 DEF r
          <6>3. j - 1 \in 1 .. Len(toBoard') /\ (j - 1) + 1 = j
            BY <1>1, <6>2
          <6>4. toBoard'[j - 1].what = "move"
            BY <1>1, <6>1, <6>3
          <6> QED BY <6>3, <6>4
        <5> QED BY <3>1, <3>3, <5>1, <5>2, <5>3 DEF JogInv, ReportsTrue
      <4> QED BY <4>1, <4>2
    <3> QED BY <3>1, <3>2, <3>3
  <2> QED BY <2>1, <2>2
<1>10. Lag'
  <2>1. ASSUME NEW k \in Int, MoveWithin(k) PROVE MoveWithin(k)'
    <3>1. ASSUME NEW i \in 1 .. Len(toHost'), toHost'[i].what = "move" PROVE i <= k + 1
      <4>1. CASE i = Len(toHost) + 1
        <5>1. toBoard[1].what = "move"
          BY <1>4, <1>6, <3>1, <4>1 DEF r
        <5> QED BY <1>2, <1>6, <2>1, <4>1, <5>1 DEF MoveWithin
      <4>2. CASE i # Len(toHost) + 1
        <5>1. i \in 1 .. Len(toHost) /\ toHost[i].what = "move"
          BY <1>6, <3>1, <4>2
        <5> QED BY <2>1, <5>1 DEF MoveWithin
      <4> QED BY <4>1, <4>2
    <3>2. ASSUME NEW i \in 1 .. Len(toBoard'), toBoard'[i].what = "move"
          PROVE  Len(toHost') + i <= k + 1
      <4>1. toBoard[i + 1].what = "move" /\ i + 1 \in 1 .. Len(toBoard)
        BY <1>1, <3>2
      <4>2. Len(toHost) + (i + 1) <= k + 1
        BY <2>1, <4>1 DEF MoveWithin
      <4> QED BY <1>6, <4>2
    <3> QED BY <3>1, <3>2 DEF MoveWithin
  <2>2. Way' = Way
    <3>1. Whos(toHost') = Whos(toHost) \cup {Who(a)}
      BY <1>4, <1>5, WhosAppend DEF WakeInv
    <3>2. Whos(toBoard) = Whos(toBoard') \cup {Who(a)}
      BY <1>1, <1>2, <1>4, WhosTail, ServedIs DEF r
    <3> QED BY <3>1, <3>2 DEF Way
  <2>3. OnWay' = OnWay
    BY <1>1, <1>6 DEF OnWay
  <2> QED BY <1>1, <1>7, <2>1, <2>2, <2>3 DEF JogInv, Lag
<1>11. ReturnedStill'
  <2>1. ASSUME Resting PROVE Resting'
    <3>1. r.what # "move"
      BY <1>2, <2>1 DEF r, Resting, NoMoveAfter
    <3>2. tape' = "still"
      BY <1>1, <2>1, <3>1 DEF r, Resting
    <3>3. \A j \in 1 .. Len(toBoard') : toBoard'[j].what # "move"
      BY <1>1, <2>1 DEF Resting, NoMoveAfter
    <3> QED BY <3>2, <3>3 DEF Resting, NoMoveAfter
  <2> QED BY <1>7, <2>1 DEF JogInv, ReturnedStill
<1> QED BY <1>8, <1>9, <1>10, <1>11 DEF JogInv

Same  == raised' = raised /\ returned' = returned
Codes == {"latchCode", "pollCode", "settleCode"}

\* Where a failed exchange leads.
LEMMA FailPlaces ==
  ASSUME Typed, WakeInv, Fail \/ Unwind \/ (pc = "stop" /\ Raise), pc # "closed"
  PROVE  /\ returned' = returned /\ (pc \in Closing => pc' \in Closing /\ Same)
         /\ \/ pc' = "stop" /\ raised'
            \/ Same /\ pc \in Early /\ pc' \in Early \ Codes
            \/ Same /\ pc' \in Closing
<1> USE DEF Leaving
<1>1. ASSUME Release PROVE pc' \in Closing /\ raised' = raised
  BY <1>1 DEF Release, Closing
<1>2. ASSUME Leave PROVE pc' \in Closing /\ Same
  BY <1>1, <1>2 DEF Leave, Same
<1>3. CASE pc \in {"poll", "pollCode"}
  <2>1. Raise
    BY <1>3 DEF Fail, Unwind
  <2> QED BY <1>3, <2>1 DEF Raise, Closing
<1>4. CASE pc \in {"timing", "wakeStep", "probe", "undoMotor"}
  <2>1. Leave \/ NoAnswer \/ Retry \/ Goto("undoSelect")
    BY <1>4 DEF Fail, Unwind
  <2>2. ASSUME NoAnswer PROVE Same /\ pc' \in (Early \ Codes) \cup Closing
    <3>1. CASE motorUnit
      BY <2>2, <3>1 DEF NoAnswer, Same, Early, Codes
    <3>2. CASE ~motorUnit
      BY <1>2, <2>2, <3>2 DEF NoAnswer, NextCandidate, StartWake, Same, Early, Codes
    <3> QED BY <3>1, <3>2
  <2>3. ASSUME Retry PROVE Same /\ pc' \in (Early \ Codes) \cup Closing
    <3>1. NoAnswer \/ TryAgain
      BY <2>3 DEF Retry
    <3> QED BY <1>4, <2>2, <3>1 DEF TryAgain, Same, Early, Codes
  <2>4. ASSUME Goto("undoSelect") PROVE Same /\ pc' \in Early \ Codes
    BY <2>4 DEF Goto, Same, Early, Codes
  <2> QED BY <1>2, <1>4, <2>1, <2>2, <2>3, <2>4 DEF Early, Closing, Same
<1>5. CASE pc \in {"motorOff", "releaseSelect", "deselect"}
  <2>1. Goto("releaseSelect") \/ Goto("closed")
    BY <1>5 DEF Fail, Unwind
  <2> QED BY <2>1 DEF Goto, Same, Closing
<1>7. CASE pc = "stop" /\ Raise
  BY <1>7 DEF Raise, Closing
<1>6. CASE pc \in Leaving /\ ~(pc = "stop" /\ Raise)
  <2>1. Leave
    BY <1>6 DEF Fail, Unwind
  <2> QED BY <1>2, <2>1 DEF Same
<1> QED BY <1>3, <1>4, <1>5, <1>6, <1>7 DEF Typed, Phases, Early, Polling, Ending, Closing

\* Where an answer leads when nothing reports an error.
LEMMA OkPlaces ==
  ASSUME Typed, NEW a, Ok(a), pc \notin Codes \cup {"closed"}, ~a.error
  PROVE  \/ Same /\ pc \in Early /\ pc' \in (Early \ Codes) \cup Closing
         \/ Same /\ pc = "latch" /\ pc' = "move"
         \/ Same /\ pc = "move" /\ pc' = "poll"
         \/ Same /\ pc = "poll" /\ pc' \in {"poll", "stop"}
         \/ Same /\ pc = "stop" /\ pc' = "settle"
         \/ Same /\ pc = "settle" /\ pc' \in {"settle"} \cup Closing
         \/ pc = "settle" /\ a.ready /\ JogReturns
         \/ Same /\ pc \in Closing /\ pc' \in Closing
<1> USE DEF StatusPlaces, CodePlaces
<1>1. ASSUME Leave PROVE pc' \in Closing /\ Same
  BY <1>1 DEF Leave, Release, Same, Closing
<1>2. CASE pc \in {"identify", "probe", "undoMotor"}
  <2>1. \E p \in {"clear", "latch", "undoSelect"} : Goto(p)
    BY <1>2 DEF Ok
  <2> QED BY <1>2, <2>1 DEF Goto, Same, Early, Codes
<1>3. CASE pc \in {"clear", "undoSelect"}
  <2>1. (\E c : StartWake(c)) \/ Leave
    BY <1>3 DEF Ok, NextCandidate
  <2> QED BY <1>1, <1>3, <2>1 DEF StartWake, Same, Early, Codes
<1>4. CASE pc \in {"timing", "wakeStep"}
  <2>1. \E n : NextStep(n)
    BY <1>4 DEF Ok
  <2> QED BY <1>4, <2>1 DEF NextStep, Same, Early, Codes
<1>5. CASE pc = "latch"
  <2>1. Woken
    BY <1>5 DEF Ok, StatusRead
  <2> QED BY <1>5, <2>1 DEF Woken, Same
<1>6. CASE pc = "move"
  <2>1. IntoTry
    BY <1>6 DEF Ok
  <2> QED BY <1>6, <2>1 DEF IntoTry, Same
<1>7. CASE pc = "poll"
  <2>1. Goto("stop") \/ Goto("poll")
    BY <1>7 DEF Ok, StatusRead
  <2> QED BY <1>7, <2>1 DEF Goto, Same
<1>8. CASE pc = "stop"
  <2>1. Goto("settle")
    BY <1>8 DEF Ok
  <2> QED BY <1>8, <2>1 DEF Goto, Same
<1>9. CASE pc = "settle"
  <2>1. (a.ready /\ JogReturns) \/ Goto("settle") \/ Leave
    BY <1>9 DEF Ok, StatusRead
  <2> QED BY <1>1, <1>9, <2>1 DEF Goto, Same
<1>10. CASE pc \in {"motorOff", "releaseSelect", "deselect"}
  <2>1. \E p \in {"releaseSelect", "deselect", "closed"} : Goto(p)
    BY <1>10 DEF Ok
  <2> QED BY <1>10, <2>1 DEF Goto, Same, Closing
<1> QED BY <1>2, <1>3, <1>4, <1>5, <1>6, <1>7, <1>8, <1>9, <1>10
        DEF Typed, Phases, Early, Polling, Ending, Closing, Codes

\* With an error too, a status is returned only on the way out.
LEMMA OkReturned ==
  ASSUME Typed, NEW a, Ok(a), pc # "closed"
  PROVE  (Same /\ (pc \in Closing => pc' \in Closing)) \/ JogReturns
<1> USE DEF StatusPlaces, CodePlaces
<1>1. CASE pc \notin Codes /\ ~a.error
  BY <1>1, OkPlaces DEF Early, Closing
<1>2. ASSUME NEW at \in {"latch", "poll", "settle"}, NEW x, StatusRead(at, x) PROVE Same \/ JogReturns
  BY <1>2 DEF StatusRead, Woken, Goto, Leave, Release, Same
<1>3. CASE pc \in Codes
  <2>1. StatusRead(CodePlaces[pc], TRUE)
    BY <1>3 DEF Ok, Codes
  <2>2. CodePlaces[pc] \in {"latch", "poll", "settle"}
    BY <1>3 DEF Codes
  <2> QED BY <1>2, <1>3, <2>1, <2>2 DEF Codes, Closing
<1>4. CASE pc \in {"latch", "poll", "settle"}
  <2>1. (\E q : Goto(q)) \/ StatusRead(pc, a.ready)
    BY <1>4 DEF Ok
  <2> QED BY <1>2, <1>4, <2>1 DEF Goto, Same, Closing
<1>5. CASE pc \notin Codes \cup {"latch", "poll", "settle"}
  <2>1. \/ (\E q : Goto(q) /\ (pc \in Closing => q \in Closing))
        \/ (\E c : StartWake(c)) \/ Leave \/ (\E n : NextStep(n)) \/ IntoTry
    BY <1>5 DEF Ok, NextCandidate, Codes, Typed, Phases, Early, Polling, Ending, Closing
  <2>2. pc \in Closing => (\E q \in Closing : Goto(q))
    BY <1>5 DEF Ok, Closing
  <2> QED BY <2>1, <2>2 DEF Goto, StartWake, Leave, Release, NextStep, IntoTry, Same
<1> QED BY <1>1, <1>3, <1>4, <1>5

\* What every read leaves, wherever it leads.
LEMMA ReadLeaves ==
  ASSUME IInv, WakeInv, JogInv, Hosts
  PROVE  /\ asked' = Nobody /\ pc # "closed" /\ toBoard' = toBoard
         /\ UNCHANGED boardVars /\ ReportsTrue'
         /\ Receive => asked # Nobody /\ Turn
         /\ pc \in Early => \A w \in Way' : w[1] # "move"
         /\ ~hadError => /\ \A i \in 1 .. Len(toBoard') : toBoard'[i].what # "errorCode"
                         /\ \A i \in 1 .. Len(toHost') : toHost'[i].what # "errorCode" /\ ~toHost'[i].error
         /\ Resting => Resting'
<1>1. Typed /\ MotorNoted /\ toHost \in Seq(Answers)
  BY DEF IInv, WakeInv
<1>2. asked' = Nobody /\ pc # "closed" /\ toBoard' = toBoard /\ UNCHANGED boardVars /\ Reads
  BY <1>1, HostReads, ReadsAre
<1>3. tape' = tape
  BY <1>2 DEF boardVars
<1>4. ASSUME Receive PROVE asked # Nobody /\ Turn
  <2>1. asked # Nobody /\ ((\E a : Ok(a)) \/ Fail)
    BY <1>4 DEF Receive, ReadAnswer, EchoMatches
  <2> QED BY <1>1, <1>2, <2>1, OkTurn, FailTurn
<1>5. ReportsTrue'
  BY <1>1, <1>2, <1>3, ReadReports DEF JogInv
<1>6. ASSUME pc \in Early PROVE \A w \in Way' : w[1] # "move"
  <2>1. Way' \subseteq Way \cup {JunkWho}
    BY <1>1, <1>2, FailWay
  <2>2. \A w \in Way : w[1] # "move"
    BY <1>6 DEF JogInv, Lag
  <2> QED BY <2>1, <2>2 DEF JunkWho
<1>7. ASSUME ~hadError
      PROVE  /\ \A i \in 1 .. Len(toBoard') : toBoard'[i].what # "errorCode"
             /\ \A i \in 1 .. Len(toHost') : toHost'[i].what # "errorCode" /\ ~toHost'[i].error
  <2>1. PICK d \in {0 - 1, 0, 1} :
          \A i \in 1 .. Len(toHost') :
             IF d = 0 - 1 /\ i \in {1, 2} THEN toHost'[i] = Junk
             ELSE i + d \in 1 .. Len(toHost) /\ toHost'[i] = toHost[i + d]
    BY <1>1, <1>2, ReadItems
  <2>2. Junk.what # "errorCode" /\ ~Junk.error
    BY DEF Junk
  <2>3. /\ \A i \in 1 .. Len(toBoard) : toBoard[i].what # "errorCode"
        /\ \A i \in 1 .. Len(toHost) : toHost[i].what # "errorCode" /\ ~toHost[i].error
    BY <1>7 DEF JogInv, NoFault
  <2> QED BY <1>2, <2>1, <2>2, <2>3
<1>8. Resting => Resting'
  BY <1>2, <1>3 DEF Resting, NoMoveAfter
<1> QED BY <1>2, <1>4, <1>5, <1>6, <1>7, <1>8

\* An exchange that failed.
LEMMA FailJog ==
  ASSUME IInv, WakeInv, JogInv, Hosts, Fail \/ Unwind \/ (pc = "stop" /\ Raise)
  PROVE  JogInv'
<1>1. /\ pc # "closed" /\ asked' = Nobody /\ UNCHANGED boardVars /\ ReportsTrue'
      /\ pc \in Early => \A w \in Way' : w[1] # "move"
      /\ ~hadError => /\ \A i \in 1 .. Len(toBoard') : toBoard'[i].what # "errorCode"
                      /\ \A i \in 1 .. Len(toHost') : toHost'[i].what # "errorCode" /\ ~toHost'[i].error
      /\ Resting => Resting'
  BY ReadLeaves
<1>2. hadError' = hadError /\ latched' = latched
  BY <1>1 DEF boardVars
<1>3. /\ returned' = returned /\ (pc \in Closing => pc' \in Closing /\ Same)
      /\ \/ pc' = "stop" /\ raised'
         \/ Same /\ pc \in Early /\ pc' \in Early \ Codes
         \/ Same /\ pc' \in Closing
  BY <1>1, FailPlaces DEF IInv
<1>4. pc' \notin DOMAIN CodePlaces
  BY <1>3 DEF CodePlaces, Early, Codes, Closing
<1>5. NoFault'
  BY <1>1, <1>2, <1>4 DEF JogInv, NoFault
<1>6. Lag'
  BY <1>1, <1>3 DEF Lag, Early, Closing
<1>7. ReturnedStill'
  BY <1>1, <1>2, <1>3 DEF JogInv, ReturnedStill, Same
<1> QED BY <1>1, <1>5, <1>6, <1>7 DEF JogInv

\* An answer that stands, where an error may have been reported.
LEMMA OkJogError ==
  ASSUME IInv, WakeInv, JogInv, Receive, Ok(Head(toHost)), hadError
  PROVE  JogInv'
<1>1. /\ pc # "closed" /\ asked' = Nobody /\ UNCHANGED boardVars /\ ReportsTrue' /\ Turn
      /\ pc \in Early => \A w \in Way' : w[1] # "move"
  BY ReadLeaves DEF Hosts
<1>2. hadError'
  BY <1>1 DEF boardVars
<1>3. (Same /\ (pc \in Closing => pc' \in Closing)) \/ JogReturns
  BY <1>1, OkReturned DEF IInv
<1>4. NoFault'
  BY <1>2 DEF NoFault
<1>5. Lag'
  <2>1. pc' \in Early \cup {"move"} => pc \in Early
    BY <1>1 DEF Turn, IInv, Typed, Phases, Early, Polling, Ending, Closing
  <2> QED BY <1>1, <1>2, <2>1 DEF Lag
<1>6. ReturnedStill'
  <2>1. CASE JogReturns
    <3>1. pc' \in Closing
      BY <2>1 DEF JogReturns, Release, Closing
    <3>2. raised' = raised /\ returned' = ~raised
      BY <2>1 DEF JogReturns, Release
    <3>3. returned' => ~raised'
      BY <3>2, Zenon
    <3> QED BY <1>2, <3>1, <3>3 DEF ReturnedStill
  <2>2. CASE Same /\ (pc \in Closing => pc' \in Closing)
    BY <1>2, <2>2 DEF JogInv, ReturnedStill, Same
  <2> QED BY <1>3, <2>1, <2>2
<1> QED BY <1>1, <1>4, <1>5, <1>6 DEF JogInv

\* An answer that stands, where there is no error.
LEMMA OkJog ==
  ASSUME Tries <= 4, IInv, WakeInv, JogInv, Receive, Ok(Head(toHost)), ReportIn(Head(toHost)),
         ~hadError
  PROVE  JogInv'
<1> DEFINE a == Head(toHost)
<1>1. /\ pc # "closed" /\ asked # Nobody /\ asked' = Nobody /\ toBoard' = toBoard
      /\ UNCHANGED boardVars
      /\ ReportsTrue'
      /\ pc \in Early => \A w \in Way' : w[1] # "move"
      /\ \A i \in 1 .. Len(toBoard') : toBoard'[i].what # "errorCode"
      /\ \A i \in 1 .. Len(toHost') : toHost'[i].what # "errorCode" /\ ~toHost'[i].error
      /\ Resting => Resting'
  BY ReadLeaves DEF Hosts
<1>2. hadError' = hadError /\ latched' = latched /\ tape' = tape
  BY <1>1 DEF boardVars
<1>3. Typed /\ toHost \in Seq(Answers) /\ ReadAnswer /\ Ok(a) /\ ReportIn(a)
  BY DEF IInv, WakeInv, Receive
<1>4. a = toHost[1] /\ 1 \in 1 .. Len(toHost) /\ Len(toHost) \in Nat
  BY <1>3, TailAt DEF ReadAnswer, EchoMatches
<1>5. pc \notin Codes /\ ~a.error /\ ~latched
  BY <1>4 DEF JogInv, NoFault, CodePlaces, Codes
<1> HIDE DEF a
<1>6. \/ Same /\ pc \in Early /\ pc' \in (Early \ Codes) \cup Closing
      \/ Same /\ pc = "latch" /\ pc' = "move"
      \/ Same /\ pc = "move" /\ pc' = "poll"
      \/ Same /\ pc = "poll" /\ pc' \in {"poll", "stop"}
      \/ Same /\ pc = "stop" /\ pc' = "settle"
      \/ Same /\ pc = "settle" /\ pc' \in {"settle"} \cup Closing
      \/ pc = "settle" /\ a.ready /\ JogReturns
      \/ Same /\ pc \in Closing /\ pc' \in Closing
  BY <1>1, <1>3, <1>5, OkPlaces
<1>7. JogReturns => pc' \in Closing /\ raised' = raised /\ returned' = ~raised
  BY DEF JogReturns, Release, Closing
<1>8. NoFault'
  <2>1. pc' \notin DOMAIN CodePlaces
    BY <1>6, <1>7 DEF CodePlaces, Early, Codes, Closing
  <2> QED BY <1>1, <1>2, <1>5, <2>1 DEF NoFault
<1>9. ASSUME NEW k \in Int, MoveWithin(k) PROVE MoveWithin(k - 1)'
  BY <1>3, <1>9, ReadWithin
<1>10. Lag'
  <2>1. CASE pc' \in Early
    <3>1. pc \in Early
      BY <1>6, <1>7, <2>1 DEF Early, Closing
    <3>2. pc' \notin {"move", "poll", "stop", "settle"}
      BY <2>1 DEF Early
    <3>3. \A w \in Way' : w[1] # "move"
      BY <1>1, <3>1
    <3> QED BY <3>2, <3>3 DEF Lag
  <2>2. CASE pc' = "move"
    <3>1. pc = "latch"
      BY <1>6, <1>7, <2>2 DEF Early, Closing
    <3>2. OnWay <= Tries - 1 + 1 /\ OnWay \in Nat /\ OnWay' = OnWay - 1
      BY <1>1, <1>3, <3>1, ReadWay DEF WakeInv, WayAt, Waiting
    <3>3. OnWay' <= 3
      BY <3>2, TriesAssumption
    <3>4. \A w \in Way' : w[1] # "move"
      BY <1>1, <3>1 DEF Early
    <3> QED BY <1>1, <2>2, <3>3, <3>4 DEF Lag
  <2>3. CASE pc' \notin Early \cup {"move"}
    <3> SUFFICES ASSUME ~raised'
                 PROVE  /\ pc' = "poll" => MoveWithin(2)'
                        /\ pc' = "stop" => MoveWithin(1)'
                        /\ pc' = "settle" => MoveWithin(0)'
      BY <2>3 DEF Lag
    <3>1. raised' = raised
      BY <1>6, <1>7 DEF Same
    <3>2. /\ pc = "move" => MoveWithin(3)
          /\ pc = "poll" => MoveWithin(2)
          /\ pc = "stop" => MoveWithin(1)
          /\ pc = "settle" => MoveWithin(0)
      BY <1>1, <3>1 DEF JogInv, Lag
    <3>3. /\ pc' = "poll" => pc \in {"move", "poll"}
          /\ pc' = "stop" => pc = "poll"
          /\ pc' = "settle" => pc \in {"stop", "settle"}
      BY <1>6, <1>7 DEF Early, Closing
    <3>4. /\ pc = "move" => MoveWithin(2)'
          /\ pc = "poll" => MoveWithin(1)'
          /\ pc = "stop" => MoveWithin(0)'
          /\ pc = "settle" => MoveWithin(0 - 1)'
      <4>1. 3 - 1 = 2 /\ 2 - 1 = 1 /\ 1 - 1 = 0
        OBVIOUS
      <4> QED BY <1>9, <3>2, <4>1
    <3>5. toHost' \in Seq(Answers) /\ Typed'
      BY <1>3, ReadWay, HostStep DEF IInv
    <3>6. ASSUME NEW k \in Int, MoveWithin(k)' PROVE MoveWithin(k + 1)'
      <4>1. Len(toHost') \in Nat /\ Len(toBoard') \in Nat
        BY <3>5 DEF Typed
      <4> QED BY <3>6, <4>1 DEF MoveWithin
    <3>7. (pc = "poll" => MoveWithin(2)') /\ (pc = "settle" => MoveWithin(0)')
      <4>1. 1 + 1 = 2 /\ (0 - 1) + 1 = 0
        OBVIOUS
      <4> QED BY <3>4, <3>6, <4>1
    <3> QED BY <3>3, <3>4, <3>7
  <2> QED BY <2>1, <2>2, <2>3
<1>11. ReturnedStill'
  <2>1. CASE Same
    <3>1. pc \in Closing => pc' \in Closing
      BY <1>6, <1>7 DEF Early, Closing
    <3> QED BY <1>1, <1>2, <2>1, <3>1 DEF JogInv, ReturnedStill, Same
  <2>2. CASE pc = "settle" /\ a.ready /\ JogReturns
    <3> SUFFICES ASSUME ~raised PROVE Resting'
      BY <1>2, <1>7, <2>2 DEF ReturnedStill
    <3>1. MoveWithin(0)
      BY <1>1, <2>2 DEF JogInv, Lag
    <3>2. a.what = "status"
      <4>1. What = "status"
        BY <2>2 DEF What, StatusPlaces, CodePlaces
      <4>2. a.report
        BY <1>3, <4>1 DEF ReportIn
      <4> QED BY <1>4, <4>2 DEF JogInv, NoFault, ReportsTrue
    <3>3. \A i \in 1 .. Len(toHost) : toHost[i].what # "move"
      BY <1>4, <3>1, <3>2 DEF MoveWithin
    <3>4. \A i \in 1 .. Len(toBoard) : toBoard[i].what # "move"
      BY <1>4, <3>1 DEF MoveWithin
    <3>5. tape = "still"
      BY <1>4, <2>2, <3>2, <3>3, <3>4 DEF JogInv, ReportsTrue
    <3>6. Resting
      BY <3>4, <3>5 DEF Resting, NoMoveAfter
    <3> QED BY <1>1, <3>6
  <2> QED BY <1>6, <2>1, <2>2
<1> QED BY <1>1, <1>8, <1>10, <1>11 DEF JogInv

\* Every step of the host.
LEMMA HostJog ==
  ASSUME Tries <= 4, IInv, WakeInv, JogInv, Hosts
  PROVE  JogInv'
<1>1. \/ Receive /\ Ok(Head(toHost)) /\ ReportIn(Head(toHost))
      \/ Fail \/ Unwind \/ (pc = "stop" /\ Raise)
  BY DEF Hosts, Receive, Desync, Timeout, CtrlC, CtrlCBetween
<1>2. CASE Fail \/ Unwind \/ (pc = "stop" /\ Raise)
  BY <1>2, FailJog
<1>3. CASE Receive /\ Ok(Head(toHost)) /\ ReportIn(Head(toHost))
  BY <1>3, OkJog, OkJogError
<1> QED BY <1>1, <1>2, <1>3

\* A session begins with an error or without.
LEMMA StartedJog ==
  ASSUME Init
  PROVE  JogInv
<1>1. /\ pc = "identify" /\ toBoard = <<>> /\ toHost = <<>> /\ returned = FALSE /\ hadError = latched
  BY DEF Init, LinkInit
<1>2. Len(toHost) = 0 /\ Len(toBoard) = 0
  BY <1>1
<1>3. Way = {}
  BY <1>2 DEF Way, Whos
<1>4. NoFault
  <2>1. pc \notin DOMAIN CodePlaces
    BY <1>1 DEF CodePlaces
  <2>2. ~hadError => ~latched
    BY <1>1, Zenon
  <2> QED BY <1>2, <2>1, <2>2 DEF NoFault
<1>5. ReportsTrue /\ Lag
  BY <1>1, <1>2, <1>3 DEF ReportsTrue, Lag
<1>6. ReturnedStill
  BY <1>1 DEF ReturnedStill
<1> QED BY <1>4, <1>5, <1>6 DEF JogInv

\* The tape ends by itself, or nothing happens.
LEMMA TapeEndsJog ==
  ASSUME JogInv, TapeEnds \/ UNCHANGED vars
  PROVE  JogInv'
<1>1. /\ UNCHANGED <<asked, toBoard, toHost, pc, raised, returned, latched, hadError>>
      /\ tape' = "still" \/ tape' = tape
  BY DEF TapeEnds, vars, linkVars, hostVars, boardVars
<1>2. Way' = Way /\ OnWay' = OnWay
  BY <1>1 DEF Way, OnWay
<1>3. NoFault'
  BY <1>1 DEF JogInv, NoFault
<1>4. ReportsTrue'
  BY <1>1 DEF JogInv, ReportsTrue
<1>5. Lag'
  BY <1>1, <1>2 DEF JogInv, Lag, MoveWithin
<1>6. ReturnedStill'
  BY <1>1 DEF JogInv, ReturnedStill, Resting, NoMoveAfter
<1> QED BY <1>3, <1>4, <1>5, <1>6 DEF JogInv

\* jog() returns a true status, and leaves the drive at rest: with four tries of a status
\* (_STATUS_TRIES) at most three answers are behind when it sets the tape going, and it
\* reads as many until it has its last status.
THEOREM JogEndsStillAlways ==
  ASSUME Tries <= 4
  PROVE  Spec => []JogEndsStill
<1>1. Init => IInv /\ WakeInv /\ JogInv
  BY Started, StartedWake, StartedJog
<1>2. IInv /\ WakeInv /\ JogInv /\ [Next]_vars => IInv' /\ WakeInv' /\ JogInv'
  <2> SUFFICES ASSUME IInv, WakeInv, JogInv, [Next]_vars PROVE IInv' /\ WakeInv' /\ JogInv'
    OBVIOUS
  <2>1. IInv' /\ WakeInv'
    BY WakePreserved
  <2>2. Send \/ Execute \/ Hosts \/ (TapeEnds \/ UNCHANGED vars)
    BY DEF Next, Hosts
  <2>3. JogInv'
    BY <2>2, SendReports, ExecuteReports, HostJog, TapeEndsJog
  <2> QED BY <2>1, <2>3
<1>3. JogInv => (returned /\ ~hadError => tape = "still")
  BY DEF JogInv, ReturnedStill, Resting
<1>4. Spec => [](returned /\ ~hadError => tape = "still")
  BY <1>1, <1>2, <1>3, PTL DEF Spec
<1> QED BY <1>4, JoggedIsStoppedAlways, MotorIsOffAlways, PTL DEF JogEndsStill
=============================================================================
