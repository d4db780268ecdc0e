-------------------------------- MODULE Clock --------------------------------
(***************************************************************************)
(* The firmware's clock and timers (time.c, timer.c), and the two users of   *)
(* them that floppy.c has besides the clock itself: the delays between drive   *)
(* operations, and the filter of the INDEX pulses.                         *)
(*                                                                         *)
(* Time is a counter of W bits of which the hardware counts the low K only,   *)
(* downwards.  One hardware timer serves a queue of deadlines; its interrupt   *)
(* comes late by up to MaxLate ticks, the main loop's steps are interrupted,   *)
(* and it may be a 16-bit timer that cannot reach every deadline at once.      *)
(***************************************************************************)
EXTENDS Integers, Sequences, SequencesExt

CONSTANTS
  W, K,                 \* bits of time_t and of SysTick
  Slack,                \* SLACK_TICKS
  Fine, Coarse, Early,  \* the 16-bit timer: what it reaches; its coarse unit, units early
  IndexPeriod,          \* INDEX_TIMER_PERIOD
  Mask,                 \* delay_params.index_mask
  Ops,                  \* the operations that are delayed
  Asks,                 \* the delays that are asked for: which operations, how long
  MaxLate,              \* bound: how late an interrupt is served or main goes on
  MaxSince              \* bound: how long ago the last pulse is known to be

VARIABLES
  now,     \* the time there really is, modulo 2^W
  stamp,   \* time_stamp
  tm,      \* timers: the queue, the deadlines, the hardware timer and its interrupt
  index,   \* index.trigger_time; history: since, and whether the last pulse was right
  op,      \* op_delay: mask; owed (history): how long each operation is still to wait
  main     \* op_delay_async() on its way in the main loop

clockVars == <<now, stamp, tm, index, op, main>>

Top == 2^W
StkTop == 2^K
Half == Top \div 2
Not(t) == Top - 1 - t
\* time_diff(): signed, so right for times less than half the range apart.
Diff(x, y) == LET d == (y - x) % Top IN IF d >= Half THEN d - Top ELSE d
Most(a, b) == IF a > b THEN a ELSE b

(*----------------------------------- time.c -------------------------------*)
StkNow == Not(now) % StkTop
\* time_now(), with the stamp that it read: the stamp's high bits, one less when
\* the low ones have passed zero since.
TimeNow(s) ==
  LET t == (s - (s % StkTop)) + StkNow IN Not((IF t > s THEN t - StkTop ELSE t) % Top)
StampPeriod == StkTop \div 2

(*---------------------------------- timer.c -------------------------------*)
\* reprogram_timer(): the ticks until it fires.  (No deadline is further than 16 bits of
\* the coarse unit.)
Programmed(delta) ==
  IF ~tm.wide /\ delta >= Fine THEN Coarse * (delta \div Coarse - Early)
  ELSE IF delta <= Slack THEN 1 ELSE delta - Slack
Cancelled(q, t) == RemoveFirst(q, t)
\* How many timers of the queue go off before one that does in delta ticks.
Before(q, deadlines, delta) ==
  CHOOSE n \in 0 .. Len(q) :
    /\ \A i \in 1 .. n : Diff(TimeNow(stamp), deadlines[q[i]]) < delta
    /\ n < Len(q) => delta <= Diff(TimeNow(stamp), deadlines[q[n + 1]])
\* timer_set() on the timers m.
TimerSet(m, t, deadline) ==
  LET q      == Cancelled(m.queue, t)
      delta  == Diff(TimeNow(stamp), deadline)
      before == Before(q, m.deadline, delta)
  IN  [m EXCEPT !.queue = InsertAt(q, before + 1, t), !.deadline[t] = deadline,
                !.cnt = IF before = 0 THEN Programmed(delta) ELSE @]

(*---------------------------------- floppy.c ------------------------------*)
\* index_timer(): the last trigger never gets so old that Diff wraps.
Capped(trigger) ==
  IF Diff(trigger, TimeNow(stamp)) > IndexPeriod THEN (TimeNow(stamp) - IndexPeriod) % Top
  ELSE trigger

FirstPeriod == IF IndexPeriod <= StampPeriod THEN IndexPeriod ELSE StampPeriod
Init ==
  /\ now = Top - StkTop /\ stamp = StkNow
  /\ \E wide \in BOOLEAN :
       tm = [queue |-> IF FirstPeriod = IndexPeriod THEN <<"index", "stamp">> ELSE <<"stamp", "index">>,
             deadline |-> [[t \in {"stamp", "index", "delay"} |-> 0] EXCEPT
                             !["stamp"] = (now + StampPeriod) % Top,
                             !["index"] = (now + IndexPeriod) % Top],
             cnt |-> IF ~wide /\ FirstPeriod >= Fine
                     THEN Coarse * (FirstPeriod \div Coarse - Early) ELSE FirstPeriod - Slack,
             pending |-> FALSE, serving |-> FALSE, late |-> 0, wide |-> wide]
  /\ index = [trigger |-> (now - IndexPeriod) % Top, since |-> MaxSince, right |-> TRUE]
  /\ op = [mask |-> {}, owed |-> [o \in Ops |-> 0]]
  /\ main = [stage |-> "idle", s |-> 0, ops |-> {}, n |-> 0, age |-> 0]

(*------------------------------- the interrupt ----------------------------*)
Pop == [tm EXCEPT !.queue = Tail(@)]
Due == Head(tm.queue)
\* op_delay_timer() spins until its deadline.
Spinning ==
  /\ tm.serving /\ tm.queue # <<>> /\ Due = "delay"
  /\ Diff(TimeNow(stamp), tm.deadline.delay) \in 1 .. Slack

TimerIrq ==
  /\ tm.pending /\ ~tm.serving
  /\ tm' = [tm EXCEPT !.pending = FALSE, !.serving = TRUE]
  /\ UNCHANGED <<now, stamp, index, op, main>>
\* IRQ_timer()'s loop: it leaves when nothing, or nothing near, is queued...
IrqLeaves ==
  /\ tm.serving
  /\ \/ tm.queue = <<>> /\ tm' = [tm EXCEPT !.serving = FALSE, !.late = 0]
     \/ /\ tm.queue # <<>>
        /\ LET delta == Diff(TimeNow(stamp), tm.deadline[Due])
           IN  /\ delta > Slack
               /\ tm' = [tm EXCEPT !.serving = FALSE, !.late = 0, !.cnt = Programmed(delta)]
  /\ UNCHANGED <<now, stamp, index, op, main>>
\* ...and otherwise runs the first timer's function: time_stamp_update(),
\* index_timer() or op_delay_timer().
IrqRuns ==
  /\ tm.serving /\ tm.queue # <<>> /\ ~Spinning
  /\ Diff(TimeNow(stamp), tm.deadline[Due]) <= Slack
  /\ CASE Due = "stamp" ->
            /\ tm' = TimerSet(Pop, "stamp", (TimeNow(stamp) + StampPeriod) % Top)
            /\ stamp' = Not(TimeNow(stamp))
            /\ UNCHANGED <<index, op>>
       [] Due = "index" ->
            /\ tm' = TimerSet(Pop, "index", (TimeNow(stamp) + IndexPeriod) % Top)
            /\ index' = [index EXCEPT !.trigger = Capped(@)]
            /\ UNCHANGED <<stamp, op>>
       [] Due = "delay" ->
            /\ tm' = Pop
            /\ op' = [op EXCEPT !.mask = {}]
            /\ UNCHANGED <<stamp, index>>
  /\ UNCHANGED <<now, main>>

\* IRQ_INDEX_changed(), without hard sectors.
IndexPulse ==
  /\ LET delta == Diff(index.trigger, TimeNow(stamp))
     IN  index' = IF delta < Mask THEN [index EXCEPT !.right = index.since < Mask]
                  ELSE [trigger |-> TimeNow(stamp), since |-> 0, right |-> index.since >= Mask]
  /\ UNCHANGED <<now, stamp, tm, op, main>>

(*---------------------- op_delay_async() in the main loop ------------------*)
\* Between its steps interrupts are served.
DelayBegins ==
  /\ main.stage = "idle" /\ ~tm.serving
  /\ \E ask \in Asks :
       main' = [stage |-> "read", s |-> stamp, ops |-> ask[1], n |-> ask[2], age |-> 0]
  /\ UNCHANGED <<now, stamp, tm, index, op>>
ForgetsEarlier(deadline) == deadline                       \* mutant
\* The delay that is asked for does not shorten one that is under way.
Later(deadline) ==
  IF op.mask # {} /\ Diff(tm.deadline.delay, deadline) < 0 THEN tm.deadline.delay ELSE deadline
DelayMerges ==
  /\ main.stage = "read" /\ ~tm.serving
  /\ tm' = [tm EXCEPT !.queue = Cancelled(@, "delay")]
  /\ main' = [main EXCEPT !.stage = "set", !.n = Later((TimeNow(main.s) + main.n) % Top)]
  /\ op' = [mask |-> op.mask \cup main.ops,
            owed |-> [o \in Ops |-> IF o \in main.ops THEN Most(op.owed[o], main.n) ELSE op.owed[o]]]
  /\ UNCHANGED <<now, stamp, index>>
DelaySet ==
  /\ main.stage = "set" /\ ~tm.serving
  /\ tm' = TimerSet(tm, "delay", main.n)
  /\ main' = [stage |-> "idle", s |-> 0, ops |-> {}, n |-> 0, age |-> 0]
  /\ UNCHANGED <<now, stamp, index, op>>

\* Time passes; the hardware timer counts, and interrupts at 0.
Waiting == tm.pending \/ tm.serving
Tick ==
  /\ Waiting /\ ~Spinning => tm.late < MaxLate
  /\ main.stage # "idle" /\ ~Spinning => main.age < MaxLate
  /\ now' = (now + 1) % Top
  /\ tm' = [tm EXCEPT !.cnt = Most(@ - 1, 0), !.pending = @ \/ tm.cnt = 1,
                      !.late = IF Waiting /\ ~Spinning THEN @ + 1 ELSE @]
  /\ main' = IF main.stage # "idle" /\ ~Spinning THEN [main EXCEPT !.age = @ + 1] ELSE main
  /\ index' = [index EXCEPT !.since = IF @ = MaxSince THEN @ ELSE @ + 1]
  /\ op' = [op EXCEPT !.owed = [o \in Ops |-> Most(@[o] - 1, 0)]]
  /\ UNCHANGED stamp

Timers == TimerIrq \/ IrqLeaves \/ IrqRuns \/ Tick
OpDelay == DelayBegins \/ DelayMerges \/ DelaySet
Next == Timers \/ OpDelay \/ IndexPulse
Spec == Init /\ [][Next]_clockVars

(*------------------------------- properties -------------------------------*)
\* time_now() is the time, also for a reader that an update of the stamp
\* interrupted after it had read the old one.
ClockIsRight == TimeNow(stamp) = now /\ (main.stage = "read" => TimeNow(main.s) = now)

\* No timer is forgotten, whoever set or cancelled which in between: while one is
\* queued the hardware is to fire by the first deadline, or its interrupt is due.
TimersAreKept ==
  tm.queue # <<>> /\ ~Waiting =>
    tm.cnt \in 1..Most(1, Diff(now, tm.deadline[Due]))

\* No operation is permitted before the delay asked for it has passed, however
\* many delays were asked for meanwhile.
DelaysAreKept == \A o \in Ops : o \notin op.mask => op.owed[o] = 0

\* A pulse is counted exactly if Mask ticks have passed since the one counted
\* last, however long ago that was.
PulsesAreTimed == index.right
=============================================================================
