----------------------------- MODULE MCRtmpStream -----------------------------
(***************************************************************************)
(* The streaming output for TLC: the courses of events it is put through.  *)
(***************************************************************************)
EXTENDS RtmpStream

Course(isCalm, starts, stops, forces, drops, refused) ==
    [calm |-> isCalm, starts |-> starts, stops |-> stops, forces |-> forces,
     drops |-> drops, refused |-> refused, delay |-> "none"]

Delayed(mode, isCalm, starts, stops, forces, drops, refused) ==
    [Course(isCalm, starts, stops, forces, drops, refused) EXCEPT !.delay = mode]

\* The user starts and stops at any moment and connections are refused; or
\* connections are lost and refused at any moment and nobody stops; or all of it
\* happens, each when the other threads wait for just that.
Sessions == {Course(FALSE, 3, 3, 0, 0, 2),
             Course(FALSE, 2, 0, 0, 2, 2),
             Course(TRUE, 2, 2, 2, 2, 2)}

\* With a delay: a stop at any moment; losses and refusals at any moment; a start
\* that is called off by force.
DelayedSessions == {Delayed("plain", FALSE, 2, 1, 0, 0, 0),
                    Delayed("plain", FALSE, 2, 0, 0, 2, 1),
                    Delayed("preserve", FALSE, 2, 0, 0, 2, 1),
                    Delayed("plain", TRUE, 3, 1, 1, 0, 0)}

AllSessions == Sessions \cup DelayedSessions

\* A delayed stream that is stopped by force at any moment, and one that is
\* stopped twice.
DelayedForce == {Delayed("plain", FALSE, 1, 0, 1, 0, 0)}
DelayedStops == {Delayed("plain", FALSE, 2, 2, 0, 0, 0)}

\* A stop at any moment of the loss of a connection, a forced one at any moment
\* of a reconnect delay.
StopAndLoss == {Course(FALSE, 1, 1, 0, 1, 0)}
ForceAndRetry == {Course(FALSE, 1, 0, 1, 1, 0)}
=============================================================================
