--------------------------- MODULE CaptureSession ---------------------------
(***************************************************************************)
(* What a tape capture promises, without rings, packets or timers: a        *)
(* session produces transitions while it runs, ends sealed or open, lets go *)
(* of the tape in the step in which it ends, and hands the host a prefix of *)
(* what it produced.                                                        *)
(***************************************************************************)
EXTENDS Naturals, Sequences, SequencesExt

VARIABLES
  phase,      \* "open": none, or one that ended unsealed; "running"; "sealed"
  held,       \* the session set the tape moving and has not stopped it
  produced,   \* transitions of the session, in order
  delivered   \* the part the host has

vars == <<phase, held, produced, delivered>>

Init == phase = "open" /\ held = FALSE /\ produced = <<>> /\ delivered = <<>>

\* A session starts afresh, with or without a motion command.
Start ==
  /\ phase # "running" /\ phase' = "running"
  /\ held' \in BOOLEAN
  /\ produced' = <<>> /\ delivered' = <<>>

Produce ==
  /\ phase = "running"
  /\ IsPrefix(produced, produced')
  /\ UNCHANGED <<phase, held, delivered>>

\* The tape halted by itself.
Halt ==
  /\ held' = FALSE
  /\ UNCHANGED <<phase, produced, delivered>>

\* The last transitions and the end come in one step.
Finish ==
  /\ phase = "running" /\ phase' \in {"sealed", "open"}
  /\ held' = FALSE
  /\ IsPrefix(produced, produced')
  /\ UNCHANGED delivered

Deliver ==
  /\ IsPrefix(delivered, delivered') /\ IsPrefix(delivered', produced)
  /\ UNCHANGED <<phase, held, produced>>

Next == Start \/ Produce \/ Halt \/ Finish \/ Deliver

Spec == Init /\ [][Next]_vars

============================================================================
