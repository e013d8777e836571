--------------------------- MODULE AdaptivePolicy ---------------------------
(***************************************************************************)
(* The policy of OpbsAdaptivePerformanceController                         *)
(* (frontend/widgets/OpbsAdaptivePerformance.cpp) as operators over the    *)
(* record of its members.  The policy is a pure object: Reset() and        *)
(* Update() read and write nothing but these members, so they are          *)
(* operators here and the modules that own a controller turn them into     *)
(* actions.                                                                *)
(*                                                                         *)
(* A sample is abstracted to what the policy distinguishes: whether the    *)
(* stream is up, whether one of the five host measures is over its limit,  *)
(* and the band the worst congestion and drop ratio fall in.               *)
(***************************************************************************)
EXTENDS Integers

CONSTANTS
    HostPressureLimit,  \* 3 samples of host pressure restrict the interface
    HostHealthyLimit,   \* 15 samples without it restore the interface
    SevereLimit,        \* 2 samples of pressure suffice when this one is severe
    ModerateLimit,      \* 3 samples otherwise
    HealthyLimit,       \* 25 healthy samples raise the bitrate
    DownCooldown,       \* 8 samples without a change after a decrease
    UpCooldown          \* 10 samples without a change after an increase

(* The literals of the source are parameters: an instance of the panel can *)
(* be checked with small ones, the controller alone with the real ones.    *)
ASSUME LimitsAssumption ==
    /\ {HostPressureLimit, HostHealthyLimit} \subseteq Nat \ {0}
    /\ {SevereLimit, ModerateLimit, HealthyLimit} \subseteq Nat \ {0}
    /\ {DownCooldown, UpCooldown} \subseteq Nat \ {0}

Lesser(a, b) == IF a < b THEN a ELSE b
Greater(a, b) == IF a < b THEN b ELSE a

(* worstCongestion and worstDroppedRatio fall in one of four bands.        *)
NetworkBands == {"severe", "moderate", "neutral", "healthy"}

Samples == [streaming : BOOLEAN, hostPressure : BOOLEAN, network : NetworkBands]

(* The members after construction; DetectHostProfile() is not consulted.   *)
InitialController ==
    [maximum |-> 6000, minimum |-> 1800, current |-> 6000,
     pressure |-> 0, healthy |-> 0, hostPressure |-> 0, hostHealthy |-> 0,
     cooldown |-> 0, constrained |-> FALSE]

(* networkPressureSamples is the one counter that is also counted down, so *)
(* where it saturates matters.  Above this bound it can only be when a     *)
(* cooldown ran while every sample was bad, which lasts at most one        *)
(* cooldown, or when the bitrate is already at its minimum, where only a   *)
(* counter reset by healthy samples is looked at again.                    *)
PressureCap == Greater(DownCooldown, UpCooldown) + ModerateLimit

Controllers ==
    [maximum : Int, minimum : Int, current : Int,
     pressure : 0 .. PressureCap, healthy : 0 .. HealthyLimit,
     hostPressure : 0 .. HostPressureLimit, hostHealthy : 0 .. HostHealthyLimit,
     cooldown : 0 .. Greater(DownCooldown, UpCooldown),
     constrained : BOOLEAN]

-----------------------------------------------------------------------------
(* Reset(maximum, minimum): constrainedMode is left as it is.              *)
Reset(c, maximum, minimum) ==
    LET top == Greater(1000, maximum)
    IN [c EXCEPT !.maximum = top,
                 !.minimum = Lesser(Greater(minimum, 1000), top),
                 !.current = top,
                 !.pressure = 0, !.healthy = 0,
                 !.hostPressure = 0, !.hostHealthy = 0,
                 !.cooldown = 0]

(* The first half of Update(): the two host counters and the hysteresis of *)
(* the restricted mode.                                                    *)
WatchHost_Sticky(c, sample) ==
    LET bad == IF sample.hostPressure
               THEN Lesser(c.hostPressure + 1, HostPressureLimit) ELSE 0
        good == IF sample.hostPressure
                THEN 0 ELSE Lesser(c.hostHealthy + 1, HostHealthyLimit)
    IN [c EXCEPT !.hostPressure = bad, !.hostHealthy = good,
                 !.constrained = c.constrained \/ bad >= HostPressureLimit]

WatchHost(c, sample) ==
    LET bad == IF sample.hostPressure
               THEN Lesser(c.hostPressure + 1, HostPressureLimit) ELSE 0
        good == IF sample.hostPressure
                THEN 0 ELSE Lesser(c.hostHealthy + 1, HostHealthyLimit)
    IN [c EXCEPT !.hostPressure = bad, !.hostHealthy = good,
                 !.constrained = IF c.constrained THEN good < HostHealthyLimit
                                 ELSE bad >= HostPressureLimit]

(* The counters of the network and the cooldown of a streaming sample.     *)
CountNetwork(c, network) ==
    [c EXCEPT
        !.cooldown = Greater(0, c.cooldown - 1),
        !.pressure = CASE network \in {"severe", "moderate"} ->
                              Lesser(c.pressure + 1, PressureCap)
                       [] network = "healthy" -> 0
                       [] OTHER -> Greater(0, c.pressure - 1),
        !.healthy = IF network = "healthy"
                    THEN Lesser(c.healthy + 1, HealthyLimit) ELSE 0]

(* int(floor(b * 0.78 / 50)) * 50, with 0.85 for moderate pressure, and    *)
(* int(ceil(b * 1.06 / 50)) * 50.  The doubles of the source give the same *)
(* integers for every bitrate from 1000 to 51000, the range of the         *)
(* settings dialog.                                                        *)
Lowered(b, severe) == ((b * (IF severe THEN 78 ELSE 85)) \div 5000) * 50
Raised(b) == ((b * 106 + 4999) \div 5000) * 50

Tolerance(severe) == IF severe THEN SevereLimit ELSE ModerateLimit

(* The second half of Update(): one change of the bitrate, or none.        *)
MayLower(c, severe) ==
    c.cooldown = 0 /\ c.pressure >= Tolerance(severe) /\ c.current > c.minimum

MayRaise(c) ==
    c.cooldown = 0 /\ c.healthy >= HealthyLimit /\ c.current < c.maximum

AdjustBitrate_IgnoresCooldown(c, severe) ==
    IF c.pressure >= Tolerance(severe) /\ c.current > c.minimum
    THEN [c EXCEPT !.pressure = 0,
                   !.current = Greater(c.minimum, Lowered(c.current, severe)),
                   !.cooldown = DownCooldown]
    ELSE IF MayRaise(c)
    THEN [c EXCEPT !.healthy = 0, !.current = Lesser(c.maximum, Raised(c.current)),
                   !.cooldown = UpCooldown]
    ELSE c

AdjustBitrate_NeverRaises(c, severe) ==
    IF MayLower(c, severe)
    THEN [c EXCEPT !.pressure = 0,
                   !.current = Greater(c.minimum, Lowered(c.current, severe)),
                   !.cooldown = DownCooldown]
    ELSE c

AdjustBitrate(c, severe) ==
    LET lower == Greater(c.minimum, Lowered(c.current, severe))
        higher == Lesser(c.maximum, Raised(c.current))
    IN IF MayLower(c, severe)
       THEN [c EXCEPT !.pressure = 0,
                      !.current = Lesser(lower, c.current),
                      !.cooldown = IF lower < c.current THEN DownCooldown ELSE 0]
       ELSE IF MayRaise(c)
       THEN [c EXCEPT !.healthy = 0,
                      !.current = Greater(higher, c.current),
                      !.cooldown = IF higher > c.current THEN UpCooldown ELSE 0]
       ELSE c

(* Update(sample).  bitrateChanged of the decision is current' # current,  *)
(* constrainedModeChanged is constrained' # constrained.                   *)
Update(c, sample) ==
    LET h == WatchHost(c, sample)
    IN IF sample.streaming
       THEN AdjustBitrate(CountNetwork(h, sample.network), sample.network = "severe")
       ELSE [h EXCEPT !.pressure = 0, !.healthy = 0]

=============================================================================
