----------------------- MODULE MCAdaptivePerformance ------------------------
(***************************************************************************)
(* A panel with the bitrates of a small ladder: 3000 kbps is cut to the    *)
(* minimum of 1080p, 720p and 480p in one, two and five steps.             *)
(***************************************************************************)
EXTENDS AdaptivePerformance

Course(clicks, recordings, saves, losses, isSlow, isImpatient) ==
    [clicks |-> clicks, recordings |-> recordings, saves |-> saves,
     losses |-> losses, slow |-> isSlow, impatient |-> isImpatient]

(* The stream alone; a recording at any moment, with encoders slow to      *)
(* detach; a user who clicks during a fallback; the dialog at any moment.  *)
Days == {Course(3, 0, 0, 1, FALSE, FALSE),
         Course(1, 1, 0, 0, TRUE, FALSE),
         Course(2, 0, 0, 0, FALSE, TRUE),
         Course(1, 0, 1, 0, FALSE, FALSE)}

SlowDetaching == {Course(1, 0, 0, 0, TRUE, FALSE)}

RecordedDialog == {Course(1, 1, 1, 0, FALSE, FALSE)}

SlowDialog == {Course(2, 0, 1, 0, TRUE, FALSE)}

(* A service with a maximum between the minimum and the bitrate of the     *)
(* user, one with a lower maximum still, and a resolution it does not list.*)
SmallService == [h \in {480, 720, 1080} |-> CASE h = 1080 -> 2700 [] h = 720 -> 1700 [] OTHER -> 0]

OneBitrate == {3000}

TwoBitrates == {2500, 3000}

=============================================================================
