---------------------------- MODULE LinkExchange ----------------------------
(***************************************************************************)
(* The request/response exchange between the host (link/transport.py,       *)
(* link/device.py) and the board's command loop.  The host writes a frame   *)
(* and reads the answer; an answer carries the opcode it answers and         *)
(* nothing else that ties it to its request.  A read that gives up after     *)
(* its timeout leaves the answer to come, and the next read finds it.       *)
(*                                                                         *)
(* Simplifications.                                                        *)
(*  - The answer to a request comes in units of a header's size: the header *)
(*    and, for COMMAND_TXN, two units of payload (flags, bits, bit count).   *)
(*    A payload unit read as a header never equals the opcode asked for.    *)
(*  - A frame that the host wrote reaches the board; the cable stays in.    *)
(***************************************************************************)
EXTENDS Integers, Sequences

CONSTANT MaxStalls   \* bound: answers that come too late for their read

ASSUME StallAssumption == MaxStalls \in Nat

VARIABLES
  asked,     \* the request the host waits on, or Nobody
  toBoard,   \* requests written and not yet executed
  toHost,    \* answers on their way, oldest first
  stalls     \* counter of the bound

linkVars == <<asked, toBoard, toHost, stalls>>

\* A request: its opcode, what it asks of the drive or the board, and (history)
\* on whose behalf.
Nobody == [op |-> "none", what |-> "none", by |-> 0]

Txns   == {"wake", "status", "errorCode", "move", "stop"}
OpOf(what) == CASE what \in Txns                   -> "COMMAND_TXN"
                [] what \in {"motorOn", "motorOff"} -> "MOTOR"
                [] what = "select"                 -> "SELECT"
                [] what = "deselect"               -> "DESELECT"
                [] what = "timing"                 -> "SET_TIMING"
                [] what = "identify"               -> "GET_INFO"
Request(what, by) == [op |-> OpOf(what), what |-> what, by |-> by]

\* An answer: the opcode it echoes, the report's ACK and Final flags, and the
\* Ready and Error bits of a status byte.
Answer(r, report, isReady, isError) ==
  [op |-> r.op, what |-> r.what, by |-> r.by, report |-> report, ready |-> isReady, error |-> isError]
Junk == [op |-> "junk", what |-> "junk", by |-> 0, report |-> FALSE, ready |-> FALSE, error |-> FALSE]

LinkInit == asked = Nobody /\ toBoard = <<>> /\ toHost = <<>> /\ stalls = 0

\* send_frame().
Ask(r) ==
  /\ asked = Nobody
  /\ asked' = r /\ toBoard' = Append(toBoard, r)
  /\ UNCHANGED <<toHost, stalls>>

\* recv_frame(): the header's echo is the opcode asked for.
EchoMatches == asked # Nobody /\ toHost # <<>> /\ Head(toHost).op = asked.op

ReadAnswer ==
  /\ EchoMatches
  /\ asked' = Nobody /\ toHost' = Tail(toHost)
  /\ UNCHANGED <<toBoard, stalls>>

\* recv_frame(): another echo.  The header is gone, its payload stays.
ReadMismatch ==
  /\ asked # Nobody /\ toHost # <<>> /\ ~EchoMatches
  /\ asked' = Nobody
  /\ toHost' = IF Head(toHost).op = "COMMAND_TXN" THEN <<Junk, Junk>> \o Tail(toHost)
               ELSE Tail(toHost)
  /\ UNCHANGED <<toBoard, stalls>>

\* The read times out with nothing read.
ReadTimesOut ==
  /\ asked # Nobody /\ toHost = <<>> /\ stalls < MaxStalls
  /\ asked' = Nobody /\ stalls' = stalls + 1
  /\ UNCHANGED <<toBoard, toHost>>

\* Ctrl-C in the read: before the header, or between the header and its payload,
\* which stays.
ReadInterrupted ==
  /\ asked # Nobody /\ asked' = Nobody
  /\ \/ UNCHANGED toHost
     \/ EchoMatches /\ asked.op = "COMMAND_TXN" /\ toHost' = <<Junk, Junk>> \o Tail(toHost)
  /\ UNCHANGED <<toBoard, stalls>>

\* Ctrl-C with no request out: before the frame is written.
NotAsked == asked = Nobody /\ UNCHANGED linkVars

\* The board executes the next request and answers it with a.
Serve(a) ==
  /\ toBoard # <<>>
  /\ toBoard' = Tail(toBoard) /\ toHost' = Append(toHost, a)
  /\ UNCHANGED <<asked, stalls>>

=============================================================================
