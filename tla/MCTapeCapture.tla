---------------------------- MODULE MCTapeCapture ----------------------------
(* Small rings, packets and tapes on which every end of a capture occurs.   *)
EXTENDS TapeCapture

Capture(m, b) == [op |-> "capture", motion |-> m, budget |-> b]

\* One drive pass after another, and verbs that change nothing between them.
MCPass == {Verb("select"), Verb("query"), Capture(TRUE, 0)}

\* Passes, and captures up to a budget of a tape that a plain command moved.
\* Stop Tape and the deselecting commands lead where the end of a capture, the
\* watchdog and a bus reset lead.
MCHost == {Verb("motion"), Verb("select"), Capture(TRUE, 0), Capture(FALSE, 1)}

==============================================================================
