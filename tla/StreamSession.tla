---------------------------- MODULE StreamSession ----------------------------
(***************************************************************************)
(* What a stream tells the user interface from one start to its end: the   *)
(* signals of a session come in an order that its button and status bar    *)
(* can follow, "stop" comes once and last, and no session is left          *)
(* connecting or reconnecting for ever.                                    *)
(*                                                                         *)
(* obs_output_start tells "starting" when it has started the plugin, whose *)
(* threads may then have told anything, the end included: it comes once,   *)
(* at any moment between two calls, unless the start fails.                *)
(***************************************************************************)
EXTENDS Naturals, Sequences

VARIABLES
    signals,    \* the user's call and what has been told since
    announced   \* how often "starting" has come since the call

Last == signals[Len(signals)]
Over == signals = <<>> \/ Last \in {"stop", "failed"}
Announced == signals = <<>> \/ Last = "failed" \/ announced = 1

Init == signals = <<>> /\ announced = 0

Begin == Over /\ Announced /\ signals' = <<"called">> /\ announced' = 0

\* Which signal may come after which.
Follows ==
    [called            |-> {"start", "stop", "failed"},
     start             |-> {"reconnect", "stop"},
     reconnect         |-> {"reconnect", "reconnect_success", "stop"},
     reconnect_success |-> {"reconnect", "stop"}]

Tell ==
    /\ ~Over /\ \E s \in Follows[Last] : signals' = Append(signals, s)
    /\ UNCHANGED announced

Announce ==
    /\ ~Announced
    /\ announced' = announced + 1
    /\ UNCHANGED signals

Next == Begin \/ Tell \/ Announce

\* A session that is neither live nor over has more to tell.
Waiting == ~Over /\ Last \in {"called", "reconnect"}
Resolve == Waiting /\ Tell

Spec == Init /\ [][Next]_<<signals, announced>>
FairSpec ==
    /\ Spec
    /\ WF_<<signals, announced>>(Resolve) /\ WF_<<signals, announced>>(Announce)
=============================================================================
