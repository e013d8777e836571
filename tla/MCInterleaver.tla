---------------------------- MODULE MCInterleaver ----------------------------
(* Outputs with one or two video and audio encoders.                        *)
EXTENDS Interleaver

MCNoTime == -100

Course(v, a, p, s, lv, la, f) ==
    [video |-> v, audio |-> a, prompt |-> p,
     interval |-> [t \in v \cup a |-> IF t \in v THEN 3 ELSE 2],
     start |-> [t \in v \cup a |-> IF t \in v THEN s ELSE 5],
     lead |-> [t \in v \cup a |-> IF t \in v THEN lv ELSE la],
     first |-> [t \in v \cup a |-> IF t \in v THEN 0 ELSE f]]

\* Encoders that start for this output, with one audio encoder.
Paired == {Course(v, {8}, FALSE, s, lv, la, f) :
    v \in {{0}, {0, 1}}, s \in {9, 12}, lv \in {0, 3}, la \in {0, 3}, f \in {0, 2}}

\* Encoders that another output uses already, or of which only one starts now.
Running == {Course({0}, {8}, TRUE, s, 3, la, f) :
    s \in {1, 6}, la \in {0, 3}, f \in {0, 2}}

\* Two audio encoders, in phase and out of it.
InPhase == {Course({0}, {8, 9}, FALSE, s, 3, la, 0) : s \in {9, 12}, la \in {0, 3}}
OutOfPhase == {[c EXCEPT !.start[8] = @ + 1] : c \in InPhase}

MCCourses == Paired \cup Running \cup InPhase
=============================================================================
