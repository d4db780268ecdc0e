-------------------------- MODULE MCCaptureStream ---------------------------
(***************************************************************************)
(* A capture's stream, byte by byte, and the INDEX pulses of a whole pass,   *)
(* for TLC.  They share no state: a behaviour is one part's, chosen in the   *)
(* initial state.                                                          *)
(***************************************************************************)
EXTENDS FluxStream, IndexLine

VARIABLE part

\* A pulse is off by as much as it may be: the worst a pass can be.
MCJitters == {-Jitter, Jitter}

MCInit == part \in {"bytes", "pulses"} /\ StreamInit /\ LineInit
MCNext ==
  \/ part = "bytes" /\ StreamNext /\ UNCHANGED <<part, lineVars>>
  \/ part = "pulses" /\ LineNext /\ UNCHANGED <<part, fluxVars>>

MCSpec == MCInit /\ [][MCNext]_<<part, lineVars, fluxVars>>
=============================================================================
