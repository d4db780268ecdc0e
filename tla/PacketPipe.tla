----------------------------- MODULE PacketPipe -----------------------------
(***************************************************************************)
(* What a bulk endpoint promises the code on both sides of the USB line: a  *)
(* bounded queue of packets.  Every packet that is put comes out once, in    *)
(* order, unless a bus reset empties the endpoint.                          *)
(***************************************************************************)
EXTENDS Naturals, Sequences

CONSTANTS Numbers,   \* packets are numbered modulo this
          Capacity   \* packets an endpoint may hold

VARIABLES queue,     \* the packets under way, oldest first
          next,      \* the number of the next packet that is put
          last       \* the number of the last packet that came out

vars == <<queue, next, last>>

Init == queue = <<>> /\ next = 0 /\ last = Numbers - 1

Put ==
  /\ Len(queue) < Capacity
  /\ queue' = Append(queue, next) /\ next' = (next + 1) % Numbers
  /\ UNCHANGED last

Get ==
  /\ queue # <<>>
  /\ last' = Head(queue) /\ queue' = Tail(queue)
  /\ UNCHANGED next

Reset == queue' = <<>> /\ UNCHANGED <<next, last>>

Next == Put \/ Get \/ Reset

Spec == Init /\ [][Next]_vars /\ WF_vars(Get)
=============================================================================
