--------------------------- MODULE Adaptive_proofs --------------------------
(***************************************************************************)
(* The bounds and the spacing of the bitrate changes hold for every choice *)
(* of limits, cooldowns and ranges.                                        *)
(***************************************************************************)
EXTENDS AdaptivePerformance, AdaptiveController, SequenceTheorems, TLAPS

(* What the samples do to the counters, said without the changes of the    *)
(* bitrate: inductive together with the typing.                            *)
ControllerInv == TypeOK /\ BitrateInRange /\ CooldownAccounted /\ HealthyAccounted

-----------------------------------------------------------------------------
(* The assumption on the limits, one constant at a time.                   *)
LEMMA Limits ==
    /\ HostPressureLimit \in Nat /\ HostPressureLimit > 0
    /\ HostHealthyLimit \in Nat /\ HostHealthyLimit > 0
    /\ SevereLimit \in Nat /\ SevereLimit > 0
    /\ ModerateLimit \in Nat /\ ModerateLimit > 0
    /\ HealthyLimit \in Nat /\ HealthyLimit > 0
    /\ DownCooldown \in Nat /\ DownCooldown > 0
    /\ UpCooldown \in Nat /\ UpCooldown > 0
    /\ PressureCap \in Nat
    /\ Greater(DownCooldown, UpCooldown) \in Nat
    /\ DownCooldown <= Greater(DownCooldown, UpCooldown)
    /\ UpCooldown <= Greater(DownCooldown, UpCooldown)
BY LimitsAssumption DEF PressureCap, Greater

(* A controller stays one when one member is replaced.                     *)
LEMMA OneMember ==
    ASSUME NEW c \in Controllers
    PROVE  /\ \A v \in Int : /\ [c EXCEPT !.maximum = v] \in Controllers
                             /\ [c EXCEPT !.minimum = v] \in Controllers
                             /\ [c EXCEPT !.current = v] \in Controllers
           /\ \A v \in 0 .. PressureCap : [c EXCEPT !.pressure = v] \in Controllers
           /\ \A v \in 0 .. HealthyLimit : [c EXCEPT !.healthy = v] \in Controllers
           /\ \A v \in 0 .. HostPressureLimit : [c EXCEPT !.hostPressure = v] \in Controllers
           /\ \A v \in 0 .. HostHealthyLimit : [c EXCEPT !.hostHealthy = v] \in Controllers
           /\ \A v \in 0 .. Greater(DownCooldown, UpCooldown) :
                 [c EXCEPT !.cooldown = v] \in Controllers
           /\ \A v \in BOOLEAN : [c EXCEPT !.constrained = v] \in Controllers
<1>1. \A v \in Int : /\ [c EXCEPT !.maximum = v] \in Controllers
                    /\ [c EXCEPT !.minimum = v] \in Controllers
                    /\ [c EXCEPT !.current = v] \in Controllers
  BY Zenon DEF Controllers
<1>2. /\ \A v \in 0 .. PressureCap : [c EXCEPT !.pressure = v] \in Controllers
      /\ \A v \in 0 .. HealthyLimit : [c EXCEPT !.healthy = v] \in Controllers
      /\ \A v \in 0 .. HostPressureLimit : [c EXCEPT !.hostPressure = v] \in Controllers
      /\ \A v \in 0 .. HostHealthyLimit : [c EXCEPT !.hostHealthy = v] \in Controllers
      /\ \A v \in 0 .. Greater(DownCooldown, UpCooldown) :
            [c EXCEPT !.cooldown = v] \in Controllers
  BY Zenon DEF Controllers
<1>3. \A v \in BOOLEAN : [c EXCEPT !.constrained = v] \in Controllers
  BY Zenon DEF Controllers
<1> QED  BY <1>1, <1>2, <1>3

(* The same for the members that counting, or adjusting, moves together.   *)
LEMMA ThreeMembers ==
    ASSUME NEW c \in Controllers, NEW p \in 0 .. PressureCap, NEW h \in 0 .. HealthyLimit,
           NEW k \in 0 .. Greater(DownCooldown, UpCooldown)
    PROVE  [c EXCEPT !.cooldown = k, !.pressure = p, !.healthy = h] \in Controllers
<1> DEFINE ck == [c EXCEPT !.cooldown = k]
           ckp == [ck EXCEPT !.pressure = p]
<1>1. ck \in Controllers
  BY OneMember
<1>2. ckp \in Controllers
  <2> HIDE DEF ck
  <2> QED  BY <1>1, OneMember
<1>3. [ckp EXCEPT !.healthy = h] \in Controllers
  <2> HIDE DEF ckp
  <2> QED  BY <1>2, OneMember
<1> QED  BY <1>3

LEMMA ChangedBitrate ==
    ASSUME NEW c \in Controllers, NEW b \in Int,
           NEW k \in 0 .. Greater(DownCooldown, UpCooldown)
    PROVE  /\ [c EXCEPT !.pressure = 0, !.current = b, !.cooldown = k] \in Controllers
           /\ [c EXCEPT !.healthy = 0, !.current = b, !.cooldown = k] \in Controllers
<1> DEFINE cp == [c EXCEPT !.pressure = 0]
           cpb == [cp EXCEPT !.current = b]
           ch == [c EXCEPT !.healthy = 0]
           chb == [ch EXCEPT !.current = b]
<1>1. cp \in Controllers /\ ch \in Controllers
  BY OneMember, Limits
<1>2. cpb \in Controllers /\ chb \in Controllers
  <2> HIDE DEF cp, ch
  <2> QED  BY <1>1, OneMember
<1>3. /\ [cpb EXCEPT !.cooldown = k] \in Controllers
      /\ [chb EXCEPT !.cooldown = k] \in Controllers
  <2> HIDE DEF cpb, chb
  <2> QED  BY <1>2, OneMember
<1> QED  BY <1>3

(* Reset() leaves a controller at its maximum with every counter at zero.  *)
LEMMA ResetFacts ==
    ASSUME NEW c \in Controllers, NEW high \in Int, NEW low \in Int
    PROVE  /\ Reset(c, high, low) \in Controllers
           /\ Reset(c, high, low).minimum <= Reset(c, high, low).current
           /\ Reset(c, high, low).current <= Reset(c, high, low).maximum
           /\ Reset(c, high, low).minimum >= 1000
           /\ Reset(c, high, low).current = Greater(1000, high)
           /\ Reset(c, high, low).maximum = Greater(1000, high)
<1> DEFINE top == Greater(1000, high)
           bottom == Lesser(Greater(low, 1000), top)
<1>1. top \in Int /\ bottom \in Int /\ bottom <= top /\ bottom >= 1000
  BY DEF Greater, Lesser
<1> DEFINE c1 == [c EXCEPT !.maximum = top]
           c2 == [c1 EXCEPT !.minimum = bottom]
           c3 == [c2 EXCEPT !.current = top]
           c4 == [c3 EXCEPT !.pressure = 0]
           c5 == [c4 EXCEPT !.healthy = 0]
           c6 == [c5 EXCEPT !.hostPressure = 0]
           c7 == [c6 EXCEPT !.hostHealthy = 0]
           c8 == [c7 EXCEPT !.cooldown = 0]
<1>2. Reset(c, high, low) = c8
  BY DEF Reset
<1> HIDE DEF top, bottom
<1>3. c3 \in Controllers
  <2>1. c1 \in Controllers  BY <1>1, OneMember
  <2>2. c2 \in Controllers
    <3> HIDE DEF c1
    <3> QED  BY <1>1, <2>1, OneMember
  <2> HIDE DEF c2
  <2> QED  BY <1>1, <2>2, OneMember
<1>4. c5 \in Controllers
  <2> HIDE DEF c3
  <2>1. c4 \in Controllers  BY <1>3, Limits, OneMember
  <2> HIDE DEF c4
  <2> QED  BY <2>1, Limits, OneMember
<1>5. c7 \in Controllers
  <2> HIDE DEF c5
  <2>1. c6 \in Controllers  BY <1>4, Limits, OneMember
  <2> HIDE DEF c6
  <2> QED  BY <2>1, Limits, OneMember
<1>6. c8 \in Controllers
  <2> HIDE DEF c7
  <2> QED  BY <1>5, Limits, OneMember
<1>7. c8.maximum = top /\ c8.minimum = bottom /\ c8.current = top
  BY DEF Controllers
<1> QED  BY <1>1, <1>2, <1>6, <1>7 DEF top

(* The host half of Update() touches nothing of the network half.          *)
LEMMA WatchHostFacts ==
    ASSUME NEW c \in Controllers, NEW s \in Samples
    PROVE  /\ WatchHost(c, s) \in Controllers
           /\ WatchHost(c, s).maximum = c.maximum
           /\ WatchHost(c, s).minimum = c.minimum
           /\ WatchHost(c, s).current = c.current
           /\ WatchHost(c, s).healthy = c.healthy
           /\ WatchHost(c, s).cooldown = c.cooldown
<1> DEFINE bad == IF s.hostPressure THEN Lesser(c.hostPressure + 1, HostPressureLimit) ELSE 0
           good == IF s.hostPressure THEN 0 ELSE Lesser(c.hostHealthy + 1, HostHealthyLimit)
           flag == IF c.constrained THEN good < HostHealthyLimit ELSE bad >= HostPressureLimit
           c1 == [c EXCEPT !.hostPressure = bad]
           c2 == [c1 EXCEPT !.hostHealthy = good]
           c3 == [c2 EXCEPT !.constrained = flag]
<1>1. WatchHost(c, s) = c3
  BY DEF WatchHost
<1>2. bad \in 0 .. HostPressureLimit /\ good \in 0 .. HostHealthyLimit
  BY Limits DEF Controllers, Lesser
<1>3. flag \in BOOLEAN
  <2>1. (good < HostHealthyLimit) \in BOOLEAN /\ (bad >= HostPressureLimit) \in BOOLEAN
    BY <1>2, Limits
  <2> QED  BY <2>1, Zenon
<1> HIDE DEF bad, good, flag
<1>4. c1 \in Controllers  BY <1>2, OneMember
<1>5. c2 \in Controllers
  <2> HIDE DEF c1
  <2> QED  BY <1>2, <1>4, OneMember
<1>6. c3 \in Controllers
  <2> HIDE DEF c2
  <2> QED  BY <1>3, <1>5, OneMember
<1>7. /\ c3.maximum = c.maximum /\ c3.minimum = c.minimum /\ c3.current = c.current
      /\ c3.healthy = c.healthy /\ c3.cooldown = c.cooldown
  BY DEF Controllers
<1> QED  BY <1>1, <1>6, <1>7

(* Counting moves the cooldown down by one and the healthy counter up by   *)
(* at most one.                                                            *)
LEMMA CountNetworkFacts ==
    ASSUME NEW c \in Controllers, NEW network \in NetworkBands
    PROVE  /\ CountNetwork(c, network) \in Controllers
           /\ CountNetwork(c, network).maximum = c.maximum
           /\ CountNetwork(c, network).minimum = c.minimum
           /\ CountNetwork(c, network).current = c.current
           /\ CountNetwork(c, network).cooldown = Greater(0, c.cooldown - 1)
           /\ CountNetwork(c, network).healthy <= c.healthy + 1
           /\ CountNetwork(c, network).healthy = 0 \/ CountNetwork(c, network).pressure = 0
<1> DEFINE k == Greater(0, c.cooldown - 1)
           p == CASE network \in {"severe", "moderate"} -> Lesser(c.pressure + 1, PressureCap)
                  [] network = "healthy" -> 0
                  [] OTHER -> Greater(0, c.pressure - 1)
           h == IF network = "healthy" THEN Lesser(c.healthy + 1, HealthyLimit) ELSE 0
<1>1. CountNetwork(c, network) = [c EXCEPT !.cooldown = k, !.pressure = p, !.healthy = h]
  BY DEF CountNetwork
<1>2. k \in 0 .. Greater(DownCooldown, UpCooldown)
  BY Limits DEF Controllers, Greater
<1>3. p \in 0 .. PressureCap
  BY Limits DEF Controllers, Greater, Lesser, NetworkBands
<1>4. h \in 0 .. HealthyLimit /\ h <= c.healthy + 1
  BY Limits DEF Controllers, Lesser
<1>7. h = 0 \/ p = 0
  <2>1. CASE network = "healthy"
    <3>1. p = 0  BY <2>1
    <3> QED  BY <3>1
  <2>2. CASE network # "healthy"
    <3>1. h = 0  BY <2>2
    <3> QED  BY <3>1
  <2> QED  BY <2>1, <2>2
<1> HIDE DEF k, p, h
<1>5. [c EXCEPT !.cooldown = k, !.pressure = p, !.healthy = h] \in Controllers
  BY <1>2, <1>3, <1>4, ThreeMembers
<1>6. LET n == [c EXCEPT !.cooldown = k, !.pressure = p, !.healthy = h]
      IN /\ n.maximum = c.maximum /\ n.minimum = c.minimum /\ n.current = c.current
         /\ n.cooldown = k /\ n.healthy = h /\ n.pressure = p
  BY DEF Controllers
<1> QED  BY <1>1, <1>4, <1>5, <1>6, <1>7 DEF k

(* The steps of the ladder are integers.                                   *)
LEMMA LadderType ==
    ASSUME NEW b \in Int, NEW grave \in BOOLEAN
    PROVE  Lowered(b, grave) \in Int /\ Raised(b) \in Int
BY DEF Lowered, Raised

(* Adjusting keeps the bitrate in its range; it changes the bitrate only   *)
(* when no cooldown runs, and starts the cooldown that belongs to the      *)
(* change; an increase spends a full healthy counter.                      *)
LEMMA AdjustFacts ==
    ASSUME NEW c \in Controllers, NEW grave \in BOOLEAN,
           c.minimum <= c.current, c.current <= c.maximum
    PROVE  /\ AdjustBitrate(c, grave) \in Controllers
           /\ AdjustBitrate(c, grave).minimum <= AdjustBitrate(c, grave).current
           /\ AdjustBitrate(c, grave).current <= AdjustBitrate(c, grave).maximum
           /\ AdjustBitrate(c, grave).minimum = c.minimum
           /\ AdjustBitrate(c, grave).maximum = c.maximum
           /\ AdjustBitrate(c, grave).healthy <= c.healthy
           /\ AdjustBitrate(c, grave).current = c.current =>
                 AdjustBitrate(c, grave).cooldown = c.cooldown
           /\ AdjustBitrate(c, grave).current < c.current =>
                 /\ c.cooldown = 0 /\ AdjustBitrate(c, grave).cooldown = DownCooldown
                 /\ c.pressure > 0
           /\ AdjustBitrate(c, grave).current > c.current =>
                 /\ c.cooldown = 0 /\ AdjustBitrate(c, grave).cooldown = UpCooldown
                 /\ AdjustBitrate(c, grave).healthy = 0 /\ c.healthy >= HealthyLimit
<1> DEFINE lower == Greater(c.minimum, Lowered(c.current, grave))
           higher == Lesser(c.maximum, Raised(c.current))
<1>1. lower \in Int /\ higher \in Int /\ lower >= c.minimum /\ higher <= c.maximum
  BY LadderType DEF Controllers, Greater, Lesser
<1>2. CASE MayLower(c, grave)
  <2> DEFINE b == Lesser(lower, c.current)
             k == IF lower < c.current THEN DownCooldown ELSE 0
  <2>1. AdjustBitrate(c, grave) = [c EXCEPT !.pressure = 0, !.current = b, !.cooldown = k]
    BY <1>2 DEF AdjustBitrate
  <2> HIDE DEF lower
  <2>2. /\ b \in Int /\ k \in 0 .. Greater(DownCooldown, UpCooldown)
        /\ c.minimum <= b /\ b <= c.current
        /\ b = c.current => k = 0
        /\ b < c.current => k = DownCooldown
        /\ c.cooldown = 0 /\ c.current > c.minimum /\ c.pressure > 0
    BY <1>1, <1>2, Limits DEF Controllers, Lesser, MayLower, Tolerance
  <2> HIDE DEF b, k
  <2>3. [c EXCEPT !.pressure = 0, !.current = b, !.cooldown = k] \in Controllers
    BY <2>2, ChangedBitrate
  <2>4. LET d == [c EXCEPT !.pressure = 0, !.current = b, !.cooldown = k]
        IN /\ d.current = b /\ d.cooldown = k /\ d.healthy = c.healthy
           /\ d.minimum = c.minimum /\ d.maximum = c.maximum
    BY DEF Controllers
  <2> QED  BY <2>1, <2>2, <2>3, <2>4 DEF Controllers
<1>3. CASE ~MayLower(c, grave) /\ MayRaise(c)
  <2> DEFINE b == Greater(higher, c.current)
             k == IF higher > c.current THEN UpCooldown ELSE 0
  <2>1. AdjustBitrate(c, grave) = [c EXCEPT !.healthy = 0, !.current = b, !.cooldown = k]
    BY <1>3 DEF AdjustBitrate
  <2> HIDE DEF higher
  <2>2. /\ b \in Int /\ k \in 0 .. Greater(DownCooldown, UpCooldown)
        /\ b <= c.maximum /\ b >= c.current
        /\ b = c.current => k = 0
        /\ b > c.current => k = UpCooldown
        /\ c.cooldown = 0 /\ c.healthy >= HealthyLimit
    BY <1>1, <1>3, Limits DEF Controllers, Greater, MayRaise
  <2> HIDE DEF b, k
  <2>3. [c EXCEPT !.healthy = 0, !.current = b, !.cooldown = k] \in Controllers
    BY <2>2, ChangedBitrate
  <2>4. LET d == [c EXCEPT !.healthy = 0, !.current = b, !.cooldown = k]
        IN /\ d.current = b /\ d.cooldown = k /\ d.healthy = 0
           /\ d.minimum = c.minimum /\ d.maximum = c.maximum
    BY DEF Controllers
  <2> QED  BY <2>1, <2>2, <2>3, <2>4, Limits DEF Controllers
<1>4. CASE ~MayLower(c, grave) /\ ~MayRaise(c)
  <2>1. AdjustBitrate(c, grave) = c  BY <1>4 DEF AdjustBitrate
  <2> QED  BY <2>1 DEF Controllers
<1> QED  BY <1>2, <1>3, <1>4

(* One sample, from the counters to the bitrate.                           *)
LEMMA UpdateFacts ==
    ASSUME NEW c \in Controllers, NEW s \in Samples,
           c.minimum <= c.current, c.current <= c.maximum
    PROVE  /\ Update(c, s) \in Controllers
           /\ Update(c, s).minimum <= Update(c, s).current
           /\ Update(c, s).current <= Update(c, s).maximum
           /\ Update(c, s).minimum = c.minimum
           /\ Update(c, s).maximum = c.maximum
           /\ ~s.streaming => Update(c, s).current = c.current
           /\ Update(c, s).current = c.current =>
                 \/ /\ s.streaming
                    /\ Update(c, s).cooldown = Greater(0, c.cooldown - 1)
                    /\ Update(c, s).healthy <= c.healthy + 1
                 \/ /\ ~s.streaming
                    /\ Update(c, s).cooldown = c.cooldown
                    /\ Update(c, s).healthy = 0
           /\ Update(c, s).current < c.current =>
                 /\ c.cooldown <= 1 /\ Update(c, s).cooldown = DownCooldown
                 /\ Update(c, s).healthy = 0
           /\ Update(c, s).current > c.current =>
                 /\ c.cooldown <= 1 /\ Update(c, s).cooldown = UpCooldown
                 /\ Update(c, s).healthy = 0 /\ c.healthy + 1 >= HealthyLimit
<1> DEFINE h == WatchHost(c, s)
           n == CountNetwork(h, s.network)
           grave == (s.network = "severe")
           d == AdjustBitrate(n, grave)
<1>1. /\ h \in Controllers
      /\ h.maximum = c.maximum /\ h.minimum = c.minimum /\ h.current = c.current
      /\ h.healthy = c.healthy /\ h.cooldown = c.cooldown
  BY WatchHostFacts
<1>2. CASE s.streaming
  <2>1. Update(c, s) = d
    BY <1>2 DEF Update
  <2>2. s.network \in NetworkBands /\ grave \in BOOLEAN
    BY DEF Samples
  <2> HIDE DEF h, grave
  <2>3. /\ n \in Controllers
        /\ n.maximum = h.maximum /\ n.minimum = h.minimum /\ n.current = h.current
        /\ n.cooldown = Greater(0, h.cooldown - 1)
        /\ n.healthy <= h.healthy + 1
        /\ n.healthy = 0 \/ n.pressure = 0
    BY <1>1, <2>2, CountNetworkFacts
  <2> HIDE DEF n
  <2>4. n.minimum <= n.current /\ n.current <= n.maximum
    BY <1>1, <2>3
  <2>5. /\ d \in Controllers
        /\ d.minimum <= d.current /\ d.current <= d.maximum /\ d.healthy <= n.healthy
        /\ d.minimum = n.minimum /\ d.maximum = n.maximum
        /\ d.current = n.current => d.cooldown = n.cooldown
        /\ d.current < n.current => n.cooldown = 0 /\ d.cooldown = DownCooldown /\ n.pressure > 0
        /\ d.current > n.current => /\ n.cooldown = 0 /\ d.cooldown = UpCooldown
                                   /\ d.healthy = 0 /\ n.healthy >= HealthyLimit
    BY <2>2, <2>3, <2>4, AdjustFacts
  <2> HIDE DEF d
  <2>6. n.cooldown = 0 => c.cooldown <= 1
    BY <1>1, <2>3 DEF Controllers, Greater
  <2> QED  BY <1>1, <1>2, <2>1, <2>3, <2>5, <2>6, Limits DEF Controllers
<1>3. CASE ~s.streaming
  <2>1. Update(c, s) = [h EXCEPT !.pressure = 0, !.healthy = 0]
    BY <1>3 DEF Update
  <2> HIDE DEF h
  <2>2. [h EXCEPT !.pressure = 0, !.healthy = 0] \in Controllers
    <3> DEFINE hp == [h EXCEPT !.pressure = 0]
    <3>1. hp \in Controllers  BY <1>1, OneMember, Limits
    <3> HIDE DEF hp
    <3>2. [hp EXCEPT !.healthy = 0] \in Controllers  BY <3>1, OneMember, Limits
    <3> QED  BY <3>2 DEF hp
  <2>3. LET e == [h EXCEPT !.pressure = 0, !.healthy = 0]
        IN /\ e.maximum = c.maximum /\ e.minimum = c.minimum /\ e.current = c.current
           /\ e.cooldown = c.cooldown /\ e.healthy = 0
    BY <1>1 DEF Controllers
  <2> QED  BY <1>3, <2>1, <2>2, <2>3 DEF Controllers
<1> QED  BY <1>2, <1>3

-----------------------------------------------------------------------------
LEMMA InitialIsController == InitialController \in Controllers
BY Limits DEF InitialController, Controllers

LEMMA ControllerInitInv == ControllerInit => ControllerInv
<1> SUFFICES ASSUME ControllerInit PROVE ControllerInv
  OBVIOUS
<1>1. PICK r \in Ranges : controller = Reset(InitialController, r[1], r[2])
  BY DEF ControllerInit
<1>2. r[1] \in Int /\ r[2] \in Int
  BY RangesAssumption
<1>3. controller \in Controllers /\ controller.minimum <= controller.current /\ controller.current <= controller.maximum
  BY <1>1, <1>2, ResetFacts, InitialIsController
<1>4. sample \in Samples
  BY DEF ControllerInit, Idle, Samples, NetworkBands
<1>5. SinceCap \in Nat
  BY Limits DEF SinceCap, Greater
<1> QED  BY <1>3, <1>4, <1>5, RangesAssumption
         DEF ControllerInit, ControllerInv, TypeOK, BitrateInRange, CooldownAccounted, HealthyAccounted

(* What has passed and what is left of a cooldown add up again after any   *)
(* step.                                                                   *)
LEMMA ControllerNextInv == ControllerInv /\ [ControllerNext]_controllerVars => ControllerInv'
<1> SUFFICES ASSUME ControllerInv, [ControllerNext]_controllerVars PROVE ControllerInv'
  OBVIOUS
<1>0. /\ SinceCap \in Nat /\ DownCooldown <= SinceCap /\ UpCooldown <= SinceCap
      /\ HealthyLimit <= SinceCap
  BY Limits DEF SinceCap, Greater
<1>1. ASSUME NEW s \in Samples, Sampled(s) PROVE ControllerInv'
  <2>1. /\ controller \in Controllers /\ controller.minimum <= controller.current /\ controller.current <= controller.maximum
    BY DEF ControllerInv, TypeOK, BitrateInRange
  <2>2. controller' = Update(controller, s)
    BY <1>1 DEF Sampled
  <2> DEFINE d == Update(controller, s)
  <2>3. /\ d \in Controllers
        /\ d.minimum <= d.current /\ d.current <= d.maximum
        /\ d.current = controller.current =>
              \/ s.streaming /\ d.cooldown = Greater(0, controller.cooldown - 1) /\ d.healthy <= controller.healthy + 1
              \/ ~s.streaming /\ d.cooldown = controller.cooldown /\ d.healthy = 0
        /\ d.current < controller.current => d.cooldown = DownCooldown /\ d.healthy = 0
        /\ d.current > controller.current => d.cooldown = UpCooldown /\ d.healthy = 0
    BY <2>1, UpdateFacts
  <2> HIDE DEF d
  <2>4. controller' = d
    BY <2>2 DEF d
  <2>5. /\ since \in 0 .. SinceCap /\ last \in {"none", "down", "up"} /\ resets \in 0 .. MaxResets
        /\ last = "down" => since + controller.cooldown >= DownCooldown
        /\ last = "up" => since + controller.cooldown >= UpCooldown
        /\ last # "none" => controller.healthy <= since
    BY DEF ControllerInv, TypeOK, CooldownAccounted, HealthyAccounted
  <2>6. sample' \in Samples /\ resets' \in 0 .. MaxResets
    BY <1>1, <2>5 DEF Sampled
  <2>7. CASE d.current = controller.current
    <3>1. last' = last /\ since' = IF s.streaming THEN Lesser(since + 1, SinceCap) ELSE since
      BY <1>1, <2>4, <2>7 DEF Sampled
    <3>2. since' \in 0 .. SinceCap
      BY <1>0, <2>5, <3>1 DEF Lesser
    <3>3. CooldownAccounted' /\ HealthyAccounted'
      <4>1. CASE s.streaming
        BY <1>0, <2>1, <2>3, <2>4, <2>5, <2>7, <3>1, <4>1, Limits
           DEF CooldownAccounted, HealthyAccounted, Lesser, Greater, Controllers
      <4>2. CASE ~s.streaming
        BY <1>0, <2>1, <2>3, <2>4, <2>5, <2>7, <3>1, <4>2, Limits
           DEF CooldownAccounted, HealthyAccounted, Controllers
      <4> QED  BY <4>1, <4>2
    <3> QED  BY <2>3, <2>4, <2>5, <2>6, <3>1, <3>2, <3>3 DEF ControllerInv, TypeOK, BitrateInRange
  <2>8. CASE d.current # controller.current
    <3>1. since' = 0 /\ last' = IF d.current < controller.current THEN "down" ELSE "up"
      BY <1>1, <2>4, <2>8 DEF Sampled
    <3>2. CooldownAccounted' /\ HealthyAccounted'
      <4>1. CASE d.current < controller.current
        BY <2>3, <2>4, <3>1, <4>1, Limits DEF CooldownAccounted, HealthyAccounted
      <4>2. CASE d.current > controller.current
        BY <2>1, <2>3, <2>4, <3>1, <4>2, Limits
           DEF CooldownAccounted, HealthyAccounted, Controllers
      <4> QED  BY <2>1, <2>3, <2>8, <4>1, <4>2 DEF Controllers
    <3> QED  BY <1>0, <2>3, <2>4, <2>6, <3>1, <3>2 DEF ControllerInv, TypeOK, BitrateInRange
  <2> QED  BY <2>7, <2>8
<1>2. ASSUME NEW r \in Ranges, ResetController(r) PROVE ControllerInv'
  <2>1. controller \in Controllers /\ sample \in Samples /\ resets \in 0 .. MaxResets
    BY DEF ControllerInv, TypeOK
  <2>2. r[1] \in Int /\ r[2] \in Int
    BY RangesAssumption
  <2>3. controller' = Reset(controller, r[1], r[2])
    BY <1>2 DEF ResetController
  <2>4. controller' \in Controllers /\ controller'.minimum <= controller'.current /\ controller'.current <= controller'.maximum
    BY <2>1, <2>2, <2>3, ResetFacts
  <2>5. since' = 0 /\ last' = "none" /\ sample' = sample /\ resets' \in 0 .. MaxResets
    BY <1>2, <2>1, RangesAssumption DEF ResetController
  <2> QED  BY <1>0, <2>1, <2>4, <2>5
           DEF ControllerInv, TypeOK, BitrateInRange, CooldownAccounted, HealthyAccounted
<1>3. CASE UNCHANGED controllerVars
  BY <1>3 DEF controllerVars, ControllerInv, TypeOK, BitrateInRange, CooldownAccounted, HealthyAccounted
<1> QED  BY <1>1, <1>2, <1>3 DEF ControllerNext, Sampling

THEOREM ControllerInvariance == ControllerSpec => []ControllerInv
BY ControllerInitInv, ControllerNextInv, PTL DEF ControllerSpec

-----------------------------------------------------------------------------
(* The members of a controller keep their types, the counters their caps.  *)
THEOREM ControllerTyping == ControllerSpec => []TypeOK
<1>1. ControllerInv => TypeOK  BY DEF ControllerInv
<1> QED  BY ControllerInvariance, <1>1, PTL

(* Whatever the range, the bitrate stays inside it.                        *)
THEOREM RangeIsKept == ControllerSpec => []BitrateInRange
<1>1. ControllerInv => BitrateInRange  BY DEF ControllerInv
<1> QED  BY ControllerInvariance, <1>1, PTL

(* Whatever the cooldowns, two changes are at least one cooldown apart:    *)
(* the one that the first of them started.                                 *)
THEOREM Damping == ControllerSpec => ChangesAreSpaced
<1> DEFINE A == Sampling /\ controller'.current # controller.current =>
                  /\ last = "down" => since + 1 >= DownCooldown
                  /\ last = "up" => since + 1 >= UpCooldown
<1>1. ControllerInv /\ [ControllerNext]_controllerVars => [A]_controllerVars
  <2> SUFFICES ASSUME ControllerInv, Sampling, controller'.current # controller.current
               PROVE  /\ last = "down" => since + 1 >= DownCooldown
                      /\ last = "up" => since + 1 >= UpCooldown
    OBVIOUS
  <2>1. PICK s \in Samples : Sampled(s)
    BY DEF Sampling
  <2>2. controller \in Controllers /\ controller.minimum <= controller.current /\ controller.current <= controller.maximum
    BY DEF ControllerInv, TypeOK, BitrateInRange
  <2>3. controller' = Update(controller, s)
    BY <2>1 DEF Sampled
  <2>4. controller'.current \in Int
    BY <2>2, <2>3, UpdateFacts DEF Controllers
  <2>5. controller.cooldown <= 1
    BY <2>2, <2>3, <2>4, UpdateFacts DEF Controllers
  <2> QED  BY <2>2, <2>5, Limits DEF ControllerInv, TypeOK, CooldownAccounted, Controllers, SinceCap
<1> QED  BY ControllerInvariance, <1>1, PTL DEF ControllerSpec, ChangesAreSpaced

(* Whatever the limits, an increase that follows another change comes      *)
(* after a full run of healthy samples.                                    *)
THEOREM SlowRecovery == ControllerSpec => RaisesSlowly
<1> DEFINE A == Sampling /\ controller'.current > controller.current /\ last # "none" => since + 1 >= HealthyLimit
<1>1. ControllerInv /\ [ControllerNext]_controllerVars => [A]_controllerVars
  <2> SUFFICES ASSUME ControllerInv, Sampling, controller'.current > controller.current, last # "none"
               PROVE  since + 1 >= HealthyLimit
    OBVIOUS
  <2>1. PICK s \in Samples : Sampled(s)
    BY DEF Sampling
  <2>2. controller \in Controllers /\ controller.minimum <= controller.current /\ controller.current <= controller.maximum
    BY DEF ControllerInv, TypeOK, BitrateInRange
  <2>3. controller' = Update(controller, s)
    BY <2>1 DEF Sampled
  <2>4. controller.healthy + 1 >= HealthyLimit
    BY <2>2, <2>3, UpdateFacts
  <2> QED  BY <2>2, <2>4, Limits DEF ControllerInv, TypeOK, HealthyAccounted, Controllers, SinceCap
<1> QED  BY ControllerInvariance, <1>1, PTL DEF ControllerSpec, RaisesSlowly

-----------------------------------------------------------------------------
(* The panel.  What the handlers do to the controller and the encoder is   *)
(* said by the lemmas above; what they do to each other is said here.      *)

Budgets == [clicks : Nat, recordings : Nat, saves : Nat, losses : Nat,
            slow : BOOLEAN, impatient : BOOLEAN]

(* What can be on its way to the interface: the news of one stream.        *)
News == {<<>>, <<"started">>, <<"stopped">>, <<"started", "stopped">>}

(* The range of the dialog, in which the integers of Lowered and Raised    *)
(* are those of the source.                                                *)
InRange(c) ==
    /\ 1000 <= c.minimum /\ c.minimum <= c.current
    /\ c.current <= c.maximum /\ c.maximum <= 51000

PanelTypeOK ==
    /\ ctl \in Controllers /\ InRange(ctl)
    /\ ui \in BOOLEAN /\ severe \in 0 .. FallbackLimit
    /\ userBitrate \in Bitrates /\ sessionMaximum \in {0} \cup DialogBitrates
    /\ encoderBitrate \in DialogBitrates
    /\ configHeight \in {1080, 720, 480} /\ videoHeight \in {1080, 720, 480}
    /\ fallback \in {"none", "stopping", "waiting"} /\ restarts \in 0 .. MaxRestarts
    /\ output \in {"idle", "connecting", "live", "stopping", "ending"}
    /\ handlerActive \in BOOLEAN /\ events \in News
    /\ secondary \in BOOLEAN /\ recording \in BOOLEAN
    /\ wanted \in BOOLEAN /\ lost \in BOOLEAN
    /\ course \in Courses /\ budget \in Budgets

(* The news that can be on its way, and whether the second destination can *)
(* be up, follow from where the stream is.                                 *)
Posted ==
    /\ handlerActive <=> output \in {"live", "stopping"}
    /\ output \in {"connecting", "stopping"} => events = <<>>
    /\ output = "live" => events \in {<<>>, <<"started">>}
    /\ output \in {"idle", "ending"} => events # <<"started">>
    /\ output = "ending" /\ ~course.slow => events # <<>>
    /\ secondary => output = "live" \/ events \in {<<"stopped">>, <<"started", "stopped">>}

(* What a course rules out has not happened.                               *)
Spared ==
    /\ budget.recordings <= course.recordings /\ budget.saves <= course.saves
    /\ course.recordings = 0 => ~recording
    /\ course.saves = 0 => userBitrate = FirstBitrate

(* Without recordings the encoder has what the service allows of the       *)
(* bitrate the next reset of the controller will find in the settings,     *)
(* until StreamingStarted has been handled, and then the controller's,     *)
(* once the controller has changed it.                                     *)
Believed ==
    DynamicBitrate /\ course.recordings = 0 =>
        /\ output = "connecting" \/ (output = "live" /\ events # <<>>) =>
              encoderBitrate = Capped(Effective(userBitrate, sessionMaximum))
        /\ output \in {"live", "stopping"} /\ events = <<>> =>
              \/ encoderBitrate = ctl.current
              \/ ctl.current = ctl.maximum /\ encoderBitrate = Capped(ctl.current)

(* No step down the ladder is left, or only the one that is under way.     *)
LastStep == configHeight = 480 \/ (configHeight = 720 /\ fallback = "stopping")

(* Without changes of the settings the controller may believe in another   *)
(* bitrate than the encoder's (a recording keeps it), but not in the       *)
(* minimum when the encoder is above it.  Once the last step is taken      *)
(* nothing depends on that any more.                                       *)
Deserved ==
    DynamicBitrate /\ course.saves = 0 =>
        /\ encoderBitrate <= userBitrate
        /\ output # "idle" => ctl.maximum <= userBitrate
        /\ LastStep \/ sessionMaximum \in {0, userBitrate, Lesser(userBitrate, 4000)}
        /\ StreamingActive /\ events = <<>> /\ ctl.current <= MinimumFor(videoHeight) + 50 =>
              LastStep \/ encoderBitrate <= MinimumFor(videoHeight) + 50

PanelInv == PanelTypeOK /\ Posted /\ Spared /\ Believed /\ Deserved

-----------------------------------------------------------------------------
LEMMA InDialog == \A b : b \in DialogBitrates <=> b \in Int /\ 1000 <= b /\ b <= 51000
BY DEF DialogBitrates

LEMMA Panel ==
    /\ FallbackLimit \in Nat /\ FallbackLimit > 1 /\ MaxRestarts \in Nat
    /\ FirstBitrate \in Bitrates /\ \A b \in Bitrates : b \in DialogBitrates
    /\ DynamicBitrate \in BOOLEAN /\ SecondEnabled \in BOOLEAN
    /\ \A c \in Courses : c \in Budgets
<1>1. FallbackLimit \in Nat /\ FallbackLimit > 1 /\ MaxRestarts \in Nat
  BY PanelAssumption
<1>2. FirstBitrate \in Bitrates /\ \A b \in Bitrates : b \in DialogBitrates
  BY PanelAssumption
<1>3. DynamicBitrate \in BOOLEAN /\ SecondEnabled \in BOOLEAN
  BY PanelAssumption, Zenon
<1>4. \A c \in Courses : c \in Budgets
  BY PanelAssumption, Zenon DEF Budgets
<1> QED  BY <1>1, <1>2, <1>3, <1>4

(* A bound is counted down, and nothing else of the budget changes.        *)
LEMMA SpentFacts ==
    ASSUME budget \in Budgets, NEW w \in {"clicks", "recordings", "saves", "losses"}, Spent(w)
    PROVE  /\ budget' \in Budgets /\ course' = course /\ budget[w] > 0
           /\ budget'.recordings <= budget.recordings /\ budget'.saves <= budget.saves
<1>1. budget[w] \in Nat
  BY DEF Budgets
<1>2. budget' = [budget EXCEPT ![w] = budget[w] - 1] /\ budget[w] > 0 /\ course' = course
  BY DEF Spent
<1>3. budget[w] - 1 \in Nat
  BY <1>1, <1>2
<1>4. CASE w = "clicks"      BY <1>2, <1>3, <1>4 DEF Budgets
<1>5. CASE w = "recordings"  BY <1>2, <1>3, <1>5 DEF Budgets
<1>6. CASE w = "saves"       BY <1>2, <1>3, <1>6 DEF Budgets
<1>7. CASE w = "losses"      BY <1>2, <1>3, <1>7 DEF Budgets
<1> QED  BY <1>4, <1>5, <1>6, <1>7

(* A controller that was just reset has the bitrate it was given.          *)
LEMMA FreshFacts ==
    ASSUME ctl \in Controllers, NEW b \in DialogBitrates, videoHeight \in {1080, 720, 480}
    PROVE  /\ Fresh(b) \in Controllers /\ InRange(Fresh(b))
           /\ Fresh(b).current = b /\ Fresh(b).maximum = b
<1>1. MinimumFor(videoHeight) \in Int /\ b \in Int
  BY InDialog DEF MinimumFor
<1>2. Greater(1000, b) = b /\ 1000 <= b /\ b <= 51000
  BY InDialog DEF Greater
<1> QED  BY <1>1, <1>2, ResetFacts DEF Fresh, InRange

LEMMA EffectiveFacts ==
    ASSUME NEW b \in DialogBitrates, NEW m \in {0} \cup DialogBitrates
    PROVE  Effective(b, m) \in DialogBitrates /\ Effective(b, m) <= b
BY InDialog DEF Effective, Lesser

(* The service never raises a bitrate.                                     *)
LEMMA CappedFacts ==
    ASSUME NEW b \in DialogBitrates, videoHeight \in {1080, 720, 480}
    PROVE  Capped(b) \in DialogBitrates /\ Capped(b) <= b
<1>1. ServiceMaximum[videoHeight] \in {0} \cup DialogBitrates
  BY PanelAssumption
<1> QED  BY <1>1, InDialog DEF Capped, Lesser

(* A sample changes encoder and controller together, if at all.            *)
LEMMA MeasureFacts ==
    ASSUME NEW c \in Controllers, InRange(c), NEW u \in BOOLEAN, NEW s \in Samples,
           encoderBitrate \in DialogBitrates, Measure(c, u, s)
    PROVE  /\ ctl' = Update(c, s) /\ ctl' \in Controllers /\ InRange(ctl')
           /\ ctl'.maximum = c.maximum /\ ui' \in BOOLEAN
           /\ encoderBitrate' \in DialogBitrates
           /\ \/ ctl'.current = c.current /\ encoderBitrate' = encoderBitrate
              \/ s.streaming /\ (DynamicBitrate => encoderBitrate' = ctl'.current)
<1>1. ctl' = Update(c, s)
  BY DEF Measure
<1>2. /\ ctl' \in Controllers /\ ctl'.minimum <= ctl'.current /\ ctl'.current <= ctl'.maximum
      /\ ctl'.minimum = c.minimum /\ ctl'.maximum = c.maximum
      /\ ~s.streaming => ctl'.current = c.current
  BY <1>1, UpdateFacts DEF InRange
<1>3. InRange(ctl')
  BY <1>2 DEF InRange, Controllers
<1>4. ctl'.current \in DialogBitrates
  BY <1>2, <1>3, InDialog DEF InRange, Controllers
<1>5. ui' \in BOOLEAN
  BY <1>2, Zenon DEF Measure, UiMode, Controllers
<1>6. encoderBitrate' = IF s.streaming /\ ctl'.current # c.current /\ DynamicBitrate
                        THEN ctl'.current ELSE encoderBitrate
  BY DEF Measure, Applied
<1> QED  BY <1>1, <1>2, <1>3, <1>4, <1>5, <1>6

LEMMA SevereCountFacts ==
    ASSUME NEW n \in 0 .. FallbackLimit, NEW d, NEW s
    PROVE  /\ SevereCount(n, d, s) \in 0 .. FallbackLimit
           /\ SevereCount(n, d, s) >= FallbackLimit =>
                 s.streaming /\ d.current <= MinimumFor(videoHeight) + 50
BY Panel DEF SevereCount, Lesser

LEMMA PanelInitInv == Init => PanelInv
<1> SUFFICES ASSUME Init PROVE PanelInv
  OBVIOUS
<1>1. /\ InitialController \in Controllers
      /\ InRange(InitialController)
  BY InitialIsController DEF InitialController, InRange
<1>2. course \in Budgets /\ FirstBitrate \in DialogBitrates /\ 0 \in 0 .. FallbackLimit
  BY Panel DEF Init
<1>3. PanelTypeOK
  <2>1. 0 \in 0 .. MaxRestarts /\ <<>> \in News
    BY Panel DEF News
  <2>2. configHeight \in {1080, 720, 480} /\ videoHeight \in {1080, 720, 480}
    BY DEF Init
  <2> QED  BY <1>1, <1>2, <2>1, <2>2, Panel, ZenonT(40) DEF Init, PanelTypeOK
<1>4. Posted
  BY DEF Init, Posted
<1>5. Spared
  BY <1>2 DEF Init, Spared, Budgets
<1>6. Believed /\ Deserved
  BY <1>2, InDialog DEF Init, Believed, Deserved, StreamingActive
<1> QED  BY <1>3, <1>4, <1>5, <1>6 DEF PanelInv

-----------------------------------------------------------------------------
(* What every sample does, whether it decides on a fallback or not.        *)
LEMMA TickFacts ==
    ASSUME PanelInv, NEW s \in Samples, Tick(s)
    PROVE  /\ events = <<>> /\ s.streaming = StreamingActive
           /\ ctl' \in Controllers /\ InRange(ctl') /\ ctl'.maximum = ctl.maximum
           /\ ui' \in BOOLEAN /\ encoderBitrate' \in DialogBitrates
           /\ \/ ctl'.current = ctl.current /\ encoderBitrate' = encoderBitrate
              \/ StreamingActive /\ (DynamicBitrate => encoderBitrate' = ctl'.current)
           /\ UNCHANGED <<userBitrate, handlerActive, events, recording, wanted, lost, budget, course>>
           /\ \/ /\ severe' \in 0 .. FallbackLimit
                 /\ UNCHANGED <<sessionMaximum, configHeight, videoHeight, fallback, restarts,
                                secondary, output>>
              \/ /\ FallbackAllowed /\ ScheduleFallback
                 /\ ctl'.current <= MinimumFor(videoHeight) + 50
<1>1. /\ ctl \in Controllers /\ InRange(ctl) /\ ui \in BOOLEAN
      /\ encoderBitrate \in DialogBitrates /\ severe \in 0 .. FallbackLimit
  BY DEF PanelInv, PanelTypeOK
<1>2. /\ events = <<>> /\ s.streaming = StreamingActive /\ Measure(ctl, ui, s)
      /\ UNCHANGED <<userBitrate, handlerActive, events, recording, wanted, lost, budget, course>>
  BY DEF Tick, user
<1> DEFINE n == SevereCount(severe, Update(ctl, s), s)
<1>3. /\ ctl' = Update(ctl, s) /\ ctl' \in Controllers /\ InRange(ctl')
      /\ ctl'.maximum = ctl.maximum /\ ui' \in BOOLEAN /\ encoderBitrate' \in DialogBitrates
      /\ \/ ctl'.current = ctl.current /\ encoderBitrate' = encoderBitrate
         \/ s.streaming /\ (DynamicBitrate => encoderBitrate' = ctl'.current)
  BY <1>1, <1>2, MeasureFacts
<1>4. /\ n \in 0 .. FallbackLimit
      /\ n >= FallbackLimit => Update(ctl, s).current <= MinimumFor(videoHeight) + 50
  BY <1>1, SevereCountFacts
<1>5. IF n >= FallbackLimit /\ FallbackAllowed
      THEN ScheduleFallback
      ELSE severe' = n /\ UNCHANGED <<sessionMaximum, ladder, secondary, output>>
  BY DEF Tick
<1>6. \/ /\ severe' \in 0 .. FallbackLimit
         /\ UNCHANGED <<sessionMaximum, configHeight, videoHeight, fallback, restarts,
                        secondary, output>>
      \/ /\ FallbackAllowed /\ ScheduleFallback
         /\ ctl'.current <= MinimumFor(videoHeight) + 50
  <2> HIDE DEF n
  <2> QED  BY <1>3, <1>4, <1>5 DEF ladder
<1> QED  BY <1>2, <1>3, <1>6

LEMMA TickInv ==
    ASSUME PanelInv, NEW s \in Samples, Tick(s)
    PROVE  PanelInv'
<1>1. PanelTypeOK /\ Posted /\ Spared /\ Believed /\ Deserved
  BY DEF PanelInv
<1>2. /\ events = <<>> /\ s.streaming = StreamingActive
      /\ ctl' \in Controllers /\ InRange(ctl') /\ ctl'.maximum = ctl.maximum
      /\ ui' \in BOOLEAN /\ encoderBitrate' \in DialogBitrates
      /\ \/ ctl'.current = ctl.current /\ encoderBitrate' = encoderBitrate
         \/ StreamingActive /\ (DynamicBitrate => encoderBitrate' = ctl'.current)
      /\ UNCHANGED <<userBitrate, handlerActive, events, recording, wanted, lost, budget, course>>
  BY TickFacts
<1>3. Spared'
  BY <1>1, <1>2 DEF Spared
<1>4. /\ ctl.maximum \in Int /\ ctl'.maximum \in Int /\ ctl'.current \in Int
      /\ ctl'.current <= ctl'.maximum
      /\ userBitrate \in Int /\ encoderBitrate \in Int /\ MinimumFor(videoHeight) \in Int
  BY <1>1, <1>2, Panel, InDialog DEF PanelTypeOK, Controllers, InRange, MinimumFor
<1>5. DynamicBitrate /\ course.saves = 0 => encoderBitrate' <= userBitrate'
  BY <1>1, <1>2, <1>4 DEF Deserved, StreamingActive
<1>6. CASE /\ severe' \in 0 .. FallbackLimit
           /\ UNCHANGED <<sessionMaximum, configHeight, videoHeight, fallback, restarts,
                          secondary, output>>
  <2>1. PanelTypeOK'
    BY <1>1, <1>2, <1>6 DEF PanelTypeOK
  <2>2. Posted'
    BY <1>1, <1>2, <1>6 DEF Posted
  <2>3. Believed'
    BY <1>1, <1>2, <1>6 DEF Believed, Capped, StreamingActive
  <2>4. Deserved'
    <3>1. UNCHANGED <<LastStep, MinimumFor(videoHeight)>>
      BY <1>6 DEF LastStep, MinimumFor
    <3> QED  BY <1>1, <1>2, <1>4, <1>5, <1>6, <3>1 DEF Deserved, StreamingActive
  <2> QED  BY <1>3, <2>1, <2>2, <2>3, <2>4 DEF PanelInv
<1>7. CASE /\ FallbackAllowed /\ ScheduleFallback
           /\ ctl'.current <= MinimumFor(videoHeight) + 50
  <2>1. /\ fallback = "none" /\ restarts < MaxRestarts /\ StreamingActive /\ configHeight > 480
        /\ fallback' = "stopping" /\ restarts' = restarts + 1 /\ severe' = 0 /\ secondary' = FALSE
        /\ sessionMaximum' = Lesser(userBitrate, IF configHeight > 720 THEN 4000 ELSE 2500)
        /\ output' = (IF output = "live" THEN "stopping" ELSE output)
        /\ UNCHANGED <<configHeight, videoHeight>>
    BY <1>7 DEF FallbackAllowed, ScheduleFallback, StopSecondary
  <2>2. sessionMaximum' \in DialogBitrates
    BY <1>1, <2>1, Panel, InDialog DEF Lesser, PanelTypeOK
  <2>3. PanelTypeOK'
    <3>1. restarts' \in 0 .. MaxRestarts /\ 0 \in 0 .. FallbackLimit
      BY <1>1, <2>1, Panel DEF PanelTypeOK
    <3>2. output' \in {"idle", "connecting", "live", "stopping", "ending"}
      BY <1>1, <2>1 DEF PanelTypeOK
    <3>3. /\ sessionMaximum' \in {0} \cup DialogBitrates /\ secondary' \in BOOLEAN
          /\ severe' \in 0 .. FallbackLimit /\ fallback' \in {"none", "stopping", "waiting"}
          /\ configHeight' = configHeight /\ videoHeight' = videoHeight
      BY <2>1, <2>2, <3>1
    <3> QED  BY <1>1, <1>2, <3>1, <3>2, <3>3 DEF PanelTypeOK
  <2>4. Posted'
    BY <1>1, <1>2, <2>1 DEF Posted, StreamingActive
  <2>5. Believed'
    BY <1>1, <1>2, <2>1 DEF Believed, Capped, StreamingActive, PanelTypeOK
  <2>6. LastStep' \/ sessionMaximum' = Lesser(userBitrate', 4000)
    BY <1>1, <1>2, <2>1 DEF PanelTypeOK, LastStep
  <2>7. Deserved'
    <3>1. UNCHANGED MinimumFor(videoHeight) /\ (output' # "idle" => output # "idle")
      BY <2>1 DEF MinimumFor
    <3>2. LastStep => LastStep'
      BY <2>1 DEF LastStep
    <3>3. StreamingActive' => StreamingActive
      BY <2>1
    <3> QED  BY <1>1, <1>2, <1>4, <1>5, <2>6, <3>1, <3>2, <3>3 DEF Deserved
  <2> QED  BY <1>3, <2>3, <2>4, <2>5, <2>7 DEF PanelInv
<1> QED  BY <1>6, <1>7, TickFacts

-----------------------------------------------------------------------------
LEMMA StoppedBehindStarted == Append(<<"started">>, "stopped") = <<"started", "stopped">>
<1> DEFINE News2 == {"started", "stopped"}
           a == Append(<<"started">>, "stopped")
           b == <<"started", "stopped">>
<1>1. <<"started">> \in Seq(News2) /\ b \in Seq(News2)
  OBVIOUS
<1>2. a \in Seq(News2)
  BY <1>1
<1>3. Len(a) = 2 /\ Len(b) = 2
  BY <1>1
<1>4. \A i \in 1 .. 2 : a[i] = b[i]
  BY <1>1
<1> QED  BY <1>1, <1>2, <1>3, <1>4, SeqEqual

(* The news of a stream are read one after the other.                      *)
LEMMA NewsFacts ==
    ASSUME NEW e \in News
    PROVE  /\ e # <<>> /\ Head(e) = "started" =>
                 \/ e = <<"started">> /\ Tail(e) = <<>>
                 \/ e = <<"started", "stopped">> /\ Tail(e) = <<"stopped">>
           /\ e # <<>> /\ Head(e) = "stopped" => e = <<"stopped">> /\ Tail(e) = <<>>
           /\ e = <<>> => \A what : Append(e, what) = <<what>>
           /\ e = <<"started">> => Append(e, "stopped") = <<"started", "stopped">>
<1>1. CASE e = <<>>
  BY <1>1
<1>2. CASE e = <<"started">>
  <2>1. Head(e) = "started" /\ Tail(e) = <<>>  BY <1>2
  <2>2. Append(e, "stopped") = <<"started", "stopped">>  BY <1>2, StoppedBehindStarted
  <2>3. e # <<>> /\ "started" # "stopped"  BY <1>2
  <2> QED  BY <1>2, <2>1, <2>2, <2>3
<1>3. CASE e = <<"stopped">>
  BY <1>3
<1>4. CASE e = <<"started", "stopped">>
  <2>1. Head(e) = "started"  BY <1>4
  <2>2. Tail(e) = <<"stopped">>  BY <1>4
  <2> QED  BY <1>4, <2>1, <2>2
<1> QED  BY <1>1, <1>2, <1>3, <1>4 DEF News

LEMMA NewsDiffer ==
    /\ <<"started">> # <<>> /\ <<"stopped">> # <<>> /\ <<"started", "stopped">> # <<>>
    /\ <<"started">> # <<"stopped">> /\ <<"started">> # <<"started", "stopped">>
    /\ <<"stopped">> # <<"started", "stopped">>
    /\ {<<>>, <<"started">>, <<"stopped">>, <<"started", "stopped">>} \subseteq News
<1>1. Len(<<"started">>) = 1 /\ Len(<<"stopped">>) = 1 /\ Len(<<"started", "stopped">>) = 2
  OBVIOUS
<1>2. <<"started">>[1] = "started" /\ <<"stopped">>[1] = "stopped"
  OBVIOUS
<1> QED  BY <1>1, <1>2 DEF News

(* As long as the maximum of the session is not the lower one of 720 or    *)
(* 480 lines, a controller reset to the minimum was given the bitrate of   *)
(* the user.                                                               *)
LEMMA Unlowered ==
    ASSUME NEW b \in DialogBitrates, NEW m \in {0, b, Lesser(b, 4000)},
           videoHeight \in {1080, 720, 480},
           Effective(b, m) <= MinimumFor(videoHeight) + 50
    PROVE  Effective(b, m) = b
<1>1. b \in Int /\ 1000 <= b
  BY InDialog
<1>2. MinimumFor(videoHeight) + 50 < 4000
  BY DEF MinimumFor
<1>3. MinimumFor(videoHeight) \in Int
  BY DEF MinimumFor
<1>4. CASE m = 0  BY <1>4 DEF Effective
<1>5. CASE m = b  BY <1>1, <1>5 DEF Effective, Lesser
<1>6. CASE m = Lesser(b, 4000)
  <2>1. CASE b < 4000
    BY <1>1, <1>6, <2>1 DEF Effective, Lesser
  <2>2. CASE ~(b < 4000)
    <3>1. Effective(b, m) = 4000  BY <1>1, <1>6, <2>2 DEF Effective, Lesser
    <3> QED  BY <1>2, <1>3, <3>1
  <2> QED  BY <2>1, <2>2
<1> QED  BY <1>4, <1>5, <1>6

-----------------------------------------------------------------------------
(* A click, a setting or a lost connection spends its bound.               *)
LEMMA SpentSpares ==
    ASSUME PanelInv, NEW w \in {"clicks", "recordings", "saves", "losses"}, Spent(w)
    PROVE  /\ course' = course /\ course' \in Courses /\ budget' \in Budgets /\ budget[w] > 0
           /\ budget'.recordings <= course'.recordings /\ budget'.saves <= course'.saves
<1>1. /\ budget \in Budgets /\ course \in Courses /\ course \in Budgets
      /\ budget.recordings <= course.recordings /\ budget.saves <= course.saves
  BY Panel DEF PanelInv, PanelTypeOK, Spared
<1>2. /\ budget' \in Budgets /\ course' = course /\ budget[w] > 0
      /\ budget'.recordings <= budget.recordings /\ budget'.saves <= budget.saves
  BY <1>1, SpentFacts
<1>3. /\ budget.recordings \in Int /\ budget'.recordings \in Int /\ course.recordings \in Int
      /\ budget.saves \in Int /\ budget'.saves \in Int /\ course.saves \in Int
  BY <1>1, <1>2 DEF Budgets
<1> QED  BY <1>1, <1>2, <1>3

(* An output that starts gives the encoder what the service allows of the  *)
(* bitrate of the profile, unless a recording uses it; the controller      *)
(* starts from that of the profile.                                        *)
LEMMA SetupFacts ==
    ASSUME PanelInv, output = "idle" \/ output = "connecting", NEW b \in DialogBitrates,
           ctl' = Fresh(b), encoderBitrate' = SetupEncoder(b)
    PROVE  /\ ctl' \in Controllers /\ InRange(ctl') /\ ctl'.maximum = b
           /\ encoderBitrate' \in DialogBitrates
           /\ course.recordings = 0 => encoderBitrate' = Capped(b)
           /\ encoderBitrate' = encoderBitrate \/ encoderBitrate' <= b
<1>1. /\ ctl \in Controllers /\ videoHeight \in {1080, 720, 480}
      /\ encoderBitrate \in DialogBitrates
      /\ handlerActive = FALSE /\ (course.recordings = 0 => ~recording)
  BY DEF PanelInv, PanelTypeOK, Posted, Spared
<1>2. /\ Fresh(b) \in Controllers /\ InRange(Fresh(b)) /\ Fresh(b).maximum = b
  BY <1>1, FreshFacts
<1>3. Capped(b) \in DialogBitrates /\ Capped(b) <= b
  BY <1>1, CappedFacts
<1> QED  BY <1>1, <1>2, <1>3 DEF SetupEncoder

LEMMA ToggleStartInv ==
    ASSUME PanelInv, ToggleStart
    PROVE  PanelInv'
<1>1. PanelTypeOK /\ Posted /\ Spared /\ Believed /\ Deserved
  BY DEF PanelInv
<1>2. /\ output = "idle" /\ events = <<>> /\ Spent("clicks")
      /\ wanted' = TRUE /\ sessionMaximum' = userBitrate
      /\ ctl' = Fresh(userBitrate) /\ severe' = 0
      /\ encoderBitrate' = SetupEncoder(userBitrate)
      /\ output' = "connecting" /\ lost' = FALSE
      /\ UNCHANGED <<handlerActive, events, ui, userBitrate, configHeight, videoHeight,
                     fallback, restarts, secondary, recording>>
  BY DEF ToggleStart, StartStreaming, ladder
<1>3. userBitrate \in DialogBitrates /\ userBitrate \in Int /\ userBitrate > 0
  BY <1>1, Panel, InDialog DEF PanelTypeOK
<1>4. /\ course' = course /\ course' \in Courses /\ budget' \in Budgets
      /\ budget'.recordings <= course'.recordings /\ budget'.saves <= course'.saves
  BY <1>2, SpentSpares
<1>5. /\ ctl' \in Controllers /\ InRange(ctl') /\ ctl'.maximum = userBitrate
      /\ encoderBitrate' \in DialogBitrates
      /\ course.recordings = 0 => encoderBitrate' = Capped(userBitrate)
      /\ encoderBitrate' = encoderBitrate \/ encoderBitrate' <= userBitrate
  BY <1>2, <1>3, SetupFacts
<1>6. PanelTypeOK'
  <2>1. /\ sessionMaximum' \in {0} \cup DialogBitrates /\ severe' \in 0 .. FallbackLimit
        /\ output' \in {"idle", "connecting", "live", "stopping", "ending"}
    BY <1>2, <1>3, Panel
  <2>2. wanted' \in BOOLEAN /\ lost' \in BOOLEAN
    BY <1>2
  <2>3. /\ ui' \in BOOLEAN /\ userBitrate' \in Bitrates
        /\ configHeight' \in {1080, 720, 480} /\ videoHeight' \in {1080, 720, 480}
        /\ fallback' \in {"none", "stopping", "waiting"} /\ restarts' \in 0 .. MaxRestarts
        /\ handlerActive' \in BOOLEAN /\ events' \in News
        /\ secondary' \in BOOLEAN /\ recording' \in BOOLEAN
    BY <1>1, <1>2 DEF PanelTypeOK
  <2> QED  BY <1>4, <1>5, <2>1, <2>2, <2>3 DEF PanelTypeOK
<1>7. Posted'
  BY <1>1, <1>2, <1>4, NewsDiffer DEF Posted
<1>8. Spared'
  BY <1>1, <1>2, <1>4 DEF Spared
<1>9. Effective(userBitrate', sessionMaximum') = userBitrate
  BY <1>2, <1>3 DEF Effective, Lesser
<1>10. Believed'
  BY <1>2, <1>4, <1>5, <1>9 DEF Believed, Capped
<1>11. Deserved'
  BY <1>1, <1>2, <1>3, <1>4, <1>5 DEF Deserved, StreamingActive
<1> QED  BY <1>6, <1>7, <1>8, <1>10, <1>11 DEF PanelInv

LEMMA ToggleStopInv ==
    ASSUME PanelInv, ToggleStop
    PROVE  PanelInv'
<1>1. PanelTypeOK /\ Posted /\ Spared /\ Believed /\ Deserved
  BY DEF PanelInv
<1>2. /\ output \in {"live", "stopping"} /\ events = <<>> /\ Spent("clicks")
      /\ wanted' = FALSE /\ secondary' = FALSE /\ output' = "stopping"
      /\ UNCHANGED <<ctl, ui, severe, userBitrate, sessionMaximum, encoderBitrate, configHeight,
                     videoHeight, fallback, restarts, handlerActive, events, recording, lost>>
  BY DEF ToggleStop, StopSecondary, controls, settings, ladder
<1>3. /\ course' = course /\ course' \in Courses /\ budget' \in Budgets
      /\ budget'.recordings <= course'.recordings /\ budget'.saves <= course'.saves
  BY <1>2, SpentSpares
<1>4. PanelTypeOK'
  <2>1. /\ output' \in {"idle", "connecting", "live", "stopping", "ending"}
        /\ wanted' \in BOOLEAN /\ secondary' \in BOOLEAN
    BY <1>2
  <2>2. /\ ctl' \in Controllers /\ InRange(ctl')
        /\ ui' \in BOOLEAN /\ severe' \in 0 .. FallbackLimit
        /\ userBitrate' \in Bitrates /\ sessionMaximum' \in {0} \cup DialogBitrates
        /\ encoderBitrate' \in DialogBitrates
        /\ configHeight' \in {1080, 720, 480} /\ videoHeight' \in {1080, 720, 480}
        /\ fallback' \in {"none", "stopping", "waiting"} /\ restarts' \in 0 .. MaxRestarts
        /\ handlerActive' \in BOOLEAN /\ events' \in News
        /\ recording' \in BOOLEAN /\ lost' \in BOOLEAN
    BY <1>1, <1>2 DEF PanelTypeOK
  <2> QED  BY <1>3, <2>1, <2>2 DEF PanelTypeOK
<1>5. Posted'
  BY <1>1, <1>2, <1>3 DEF Posted
<1>6. Spared'
  BY <1>1, <1>2, <1>3 DEF Spared
<1>7. Believed'
  BY <1>1, <1>2, <1>3 DEF Believed, Capped
<1>8. Deserved'
  <2>1. UNCHANGED <<LastStep, MinimumFor(videoHeight)>>
    BY <1>2 DEF LastStep, MinimumFor
  <2> QED  BY <1>1, <1>2, <1>3, <2>1 DEF Deserved, StreamingActive
<1> QED  BY <1>4, <1>5, <1>6, <1>7, <1>8 DEF PanelInv

(* What the slots of StreamingStarted and StreamingStopped do before they  *)
(* part: the controller starts from the bitrate of the session, and a      *)
(* sample is taken.                                                        *)
LEMMA ResetAndMeasure ==
    ASSUME PanelInv, NEW u \in BOOLEAN, NEW s \in Samples, s.streaming = StreamingActive,
           NEW c, c = Fresh(Effective(userBitrate, sessionMaximum)), Measure(c, u, s),
           severe' = SevereCount(0, Update(c, s), s)
    PROVE  /\ ctl' \in Controllers /\ InRange(ctl') /\ ui' \in BOOLEAN
           /\ severe' \in 0 .. FallbackLimit /\ encoderBitrate' \in DialogBitrates
           /\ ctl'.maximum = Effective(userBitrate, sessionMaximum) /\ ctl'.maximum <= userBitrate
           /\ ctl'.current <= ctl'.maximum
           /\ \/ /\ ctl'.current = Effective(userBitrate, sessionMaximum)
                 /\ encoderBitrate' = encoderBitrate
              \/ StreamingActive /\ (DynamicBitrate => encoderBitrate' = ctl'.current)
<1>1. /\ ctl \in Controllers /\ videoHeight \in {1080, 720, 480}
      /\ encoderBitrate \in DialogBitrates /\ userBitrate \in DialogBitrates
      /\ sessionMaximum \in {0} \cup DialogBitrates
  BY Panel DEF PanelInv, PanelTypeOK
<1> DEFINE b == Effective(userBitrate, sessionMaximum)
<1>2. b \in DialogBitrates /\ b <= userBitrate
  BY <1>1, EffectiveFacts
<1>3. c \in Controllers /\ InRange(c) /\ c.current = b /\ c.maximum = b
  BY <1>1, <1>2, FreshFacts
<1> HIDE DEF b
<1>4. /\ ctl' \in Controllers /\ InRange(ctl') /\ ctl'.maximum = c.maximum /\ ui' \in BOOLEAN
      /\ encoderBitrate' \in DialogBitrates
      /\ \/ ctl'.current = c.current /\ encoderBitrate' = encoderBitrate
         \/ s.streaming /\ (DynamicBitrate => encoderBitrate' = ctl'.current)
  BY <1>1, <1>3, MeasureFacts
<1>5. severe' \in 0 .. FallbackLimit
  <2>1. 0 \in 0 .. FallbackLimit  BY Panel
  <2> QED  BY <2>1, SevereCountFacts
<1>6. ctl'.current <= ctl'.maximum
  BY <1>4 DEF InRange
<1> QED  BY <1>2, <1>3, <1>4, <1>5, <1>6 DEF b

(* So the controller believes in the minimum only if the encoder is there. *)
LEMMA DeservedAfterReset ==
    ASSUME PanelInv, DynamicBitrate, course.saves = 0,
           encoderBitrate' \in DialogBitrates, ctl' \in Controllers, ctl'.maximum <= userBitrate,
           ctl'.current <= ctl'.maximum,
           \/ /\ ctl'.current = Effective(userBitrate, sessionMaximum)
              /\ encoderBitrate' = encoderBitrate
           \/ StreamingActive /\ (DynamicBitrate => encoderBitrate' = ctl'.current)
    PROVE  /\ encoderBitrate' <= userBitrate
           /\ ctl'.current <= MinimumFor(videoHeight) + 50 =>
                 LastStep \/ encoderBitrate' <= MinimumFor(videoHeight) + 50
<1>1. /\ userBitrate \in DialogBitrates /\ encoderBitrate \in DialogBitrates
      /\ videoHeight \in {1080, 720, 480}
  BY Panel DEF PanelInv, PanelTypeOK
<1>2. /\ userBitrate \in Int /\ encoderBitrate \in Int /\ MinimumFor(videoHeight) \in Int
      /\ ctl'.current \in Int /\ ctl'.maximum \in Int
  BY <1>1, InDialog DEF MinimumFor, Controllers
<1>3. /\ encoderBitrate <= userBitrate
      /\ LastStep \/ sessionMaximum \in {0, userBitrate, Lesser(userBitrate, 4000)}
  BY DEF PanelInv, Deserved
<1>4. encoderBitrate' <= userBitrate
  BY <1>2, <1>3
<1>5. ASSUME ctl'.current <= MinimumFor(videoHeight) + 50, ~LastStep
      PROVE  encoderBitrate' <= MinimumFor(videoHeight) + 50
  <2>1. CASE /\ ctl'.current = Effective(userBitrate, sessionMaximum)
             /\ encoderBitrate' = encoderBitrate
    <3>1. Effective(userBitrate, sessionMaximum) = userBitrate
      BY <1>1, <1>3, <1>5, <2>1, Unlowered
    <3> QED  BY <1>2, <1>3, <1>5, <2>1, <3>1
  <2>2. CASE DynamicBitrate => encoderBitrate' = ctl'.current
    BY <1>5, <2>2
  <2> QED  BY <2>1, <2>2
<1> QED  BY <1>4, <1>5

LEMMA HandleStartedInv ==
    ASSUME PanelInv, NEW s \in Samples, HandleStarted(s)
    PROVE  PanelInv'
<1>1. PanelTypeOK /\ Posted /\ Spared /\ Believed /\ Deserved
  BY DEF PanelInv
<1> DEFINE c == Fresh(Effective(userBitrate, sessionMaximum))
<1>2. /\ events # <<>> /\ Head(events) = "started" /\ events' = Tail(events)
      /\ s.streaming = StreamingActive
      /\ Measure(c, ui, s) /\ severe' = SevereCount(0, Update(c, s), s)
      /\ secondary' = SecondEnabled
      /\ UNCHANGED <<userBitrate, sessionMaximum, configHeight, videoHeight, fallback, restarts,
                     output, handlerActive, recording, wanted, lost, budget, course>>
  BY DEF HandleStarted, StartSecondary, settings, ladder, user
<1>3. \/ events = <<"started">> /\ events' = <<>> /\ output = "live"
      \/ /\ events = <<"started", "stopped">> /\ events' = <<"stopped">>
         /\ output \in {"idle", "ending"}
  <2>1. \/ events = <<"started">> /\ events' = <<>>
        \/ events = <<"started", "stopped">> /\ events' = <<"stopped">>
    BY <1>1, <1>2, NewsFacts DEF PanelTypeOK
  <2>2. output \in {"idle", "connecting", "live", "stopping", "ending"}
    BY <1>1 DEF PanelTypeOK
  <2> QED  BY <1>1, <2>1, <2>2, NewsDiffer DEF Posted
<1>4. /\ ctl' \in Controllers /\ InRange(ctl') /\ ui' \in BOOLEAN
      /\ severe' \in 0 .. FallbackLimit /\ encoderBitrate' \in DialogBitrates
      /\ ctl'.maximum <= userBitrate /\ ctl'.current <= ctl'.maximum
      /\ ctl'.maximum = Effective(userBitrate, sessionMaximum)
      /\ \/ /\ ctl'.current = Effective(userBitrate, sessionMaximum)
            /\ encoderBitrate' = encoderBitrate
         \/ StreamingActive /\ (DynamicBitrate => encoderBitrate' = ctl'.current)
  <2>1. ui \in BOOLEAN  BY <1>1 DEF PanelTypeOK
  <2> QED  BY <1>2, <2>1, ResetAndMeasure
<1> HIDE DEF c
<1>5. PanelTypeOK'
  <2>1. secondary' \in BOOLEAN /\ events' \in News
    BY <1>2, <1>3, Panel, NewsDiffer
  <2>2. /\ userBitrate' \in Bitrates /\ sessionMaximum' \in {0} \cup DialogBitrates
        /\ configHeight' \in {1080, 720, 480} /\ videoHeight' \in {1080, 720, 480}
        /\ fallback' \in {"none", "stopping", "waiting"} /\ restarts' \in 0 .. MaxRestarts
        /\ output' \in {"idle", "connecting", "live", "stopping", "ending"}
        /\ handlerActive' \in BOOLEAN /\ recording' \in BOOLEAN
        /\ wanted' \in BOOLEAN /\ lost' \in BOOLEAN
        /\ course' \in Courses /\ budget' \in Budgets
    BY <1>1, <1>2 DEF PanelTypeOK
  <2> QED  BY <1>4, <2>1, <2>2 DEF PanelTypeOK
<1>6. Posted'
  BY <1>1, <1>2, <1>3, NewsDiffer DEF Posted
<1>7. Spared'
  BY <1>1, <1>2 DEF Spared
<1>8. Believed'
  <2> DEFINE e == Effective(userBitrate, sessionMaximum)
  <2>1. SUFFICES ASSUME DynamicBitrate, course.recordings = 0, output = "live"
                 PROVE  /\ events = <<"started">> /\ events' = <<>>
                        /\ \/ encoderBitrate' = ctl'.current
                           \/ ctl'.current = ctl'.maximum /\ encoderBitrate' = (Capped(ctl.current))'
    BY <1>2, <1>3, NewsDiffer DEF Believed
  <2>2. events = <<"started">> /\ events' = <<>> /\ encoderBitrate = Capped(e)
    BY <1>1, <1>3, <2>1, NewsDiffer DEF Believed
  <2>3. CASE ctl'.current = e /\ encoderBitrate' = encoderBitrate
    BY <1>2, <1>4, <2>2, <2>3 DEF Capped
  <2> QED  BY <1>4, <2>1, <2>2, <2>3
<1>9. Deserved'
  <2>1. UNCHANGED <<LastStep, MinimumFor(videoHeight)>>
    BY <1>2 DEF LastStep, MinimumFor
  <2>2. ASSUME DynamicBitrate, course.saves = 0
        PROVE  /\ encoderBitrate' <= userBitrate
               /\ ctl'.current <= MinimumFor(videoHeight) + 50 =>
                     LastStep \/ encoderBitrate' <= MinimumFor(videoHeight) + 50
    BY <1>4, <2>2, DeservedAfterReset
  <2> QED  BY <1>1, <1>2, <1>4, <2>1, <2>2 DEF Deserved
<1> QED  BY <1>5, <1>6, <1>7, <1>8, <1>9 DEF PanelInv

LEMMA HandleStoppedInv ==
    ASSUME PanelInv, NEW s \in Samples, HandleStopped(s)
    PROVE  PanelInv'
<1>1. PanelTypeOK /\ Posted /\ Spared /\ Believed /\ Deserved
  BY DEF PanelInv
<1> DEFINE c == Fresh(Effective(userBitrate, sessionMaximum))
<1>2. /\ events # <<>> /\ Head(events) = "stopped" /\ events' = Tail(events)
      /\ course.slow \/ output # "ending"
      /\ s.streaming = StreamingActive
      /\ Measure(c, FALSE, s) /\ severe' = SevereCount(0, Update(c, s), s)
      /\ secondary' = FALSE
      /\ IF fallback = "stopping" THEN LowerResolution
         ELSE UNCHANGED <<configHeight, videoHeight, fallback>>
      /\ UNCHANGED <<userBitrate, sessionMaximum, restarts, output, handlerActive, recording,
                     wanted, lost, budget, course>>
  BY DEF HandleStopped, StopSecondary, settings, user
<1>3. events = <<"stopped">> /\ events' = <<>> /\ output \in {"idle", "ending"}
  <2>1. events = <<"stopped">> /\ events' = <<>>
    BY <1>1, <1>2, NewsFacts DEF PanelTypeOK
  <2>2. output \in {"idle", "connecting", "live", "stopping", "ending"}
    BY <1>1 DEF PanelTypeOK
  <2> QED  BY <1>1, <2>1, <2>2, NewsDiffer DEF Posted
<1>4. /\ ctl' \in Controllers /\ InRange(ctl') /\ ui' \in BOOLEAN
      /\ severe' \in 0 .. FallbackLimit /\ encoderBitrate' \in DialogBitrates
      /\ ctl'.maximum <= userBitrate /\ ctl'.current <= ctl'.maximum
      /\ \/ /\ ctl'.current = Effective(userBitrate, sessionMaximum)
            /\ encoderBitrate' = encoderBitrate
         \/ StreamingActive /\ (DynamicBitrate => encoderBitrate' = ctl'.current)
  BY <1>2, ResetAndMeasure
<1> HIDE DEF c
<1>5. /\ configHeight' \in {1080, 720, 480} /\ videoHeight' \in {1080, 720, 480}
      /\ fallback' \in {"none", "stopping", "waiting"}
      /\ LastStep => LastStep'
      /\ output = "ending" => videoHeight' = videoHeight
  <2>1. CASE fallback = "stopping"
    BY <1>1, <1>2, <2>1
       DEF LowerResolution, LowerHeight, ResetVideoSucceeds, LastStep, PanelTypeOK
  <2>2. CASE fallback # "stopping"
    BY <1>1, <1>2, <2>2 DEF LastStep, PanelTypeOK
  <2> QED  BY <2>1, <2>2
<1>6. PanelTypeOK'
  <2>1. secondary' \in BOOLEAN /\ events' \in News
    BY <1>2, <1>3, NewsDiffer
  <2>2. /\ userBitrate' \in Bitrates /\ sessionMaximum' \in {0} \cup DialogBitrates
        /\ restarts' \in 0 .. MaxRestarts
        /\ output' \in {"idle", "connecting", "live", "stopping", "ending"}
        /\ handlerActive' \in BOOLEAN /\ recording' \in BOOLEAN
        /\ wanted' \in BOOLEAN /\ lost' \in BOOLEAN
        /\ course' \in Courses /\ budget' \in Budgets
    BY <1>1, <1>2 DEF PanelTypeOK
  <2> QED  BY <1>4, <1>5, <2>1, <2>2 DEF PanelTypeOK
<1>7. Posted'
  BY <1>1, <1>2, <1>3, NewsDiffer DEF Posted
<1>8. Spared'
  BY <1>1, <1>2 DEF Spared
<1>9. Believed'
  BY <1>2, <1>3 DEF Believed
<1>10. Deserved'
  <2>1. output = "ending" => UNCHANGED MinimumFor(videoHeight)
    BY <1>5 DEF MinimumFor
  <2>2. ASSUME DynamicBitrate, course.saves = 0
        PROVE  /\ encoderBitrate' <= userBitrate
               /\ ctl'.current <= MinimumFor(videoHeight) + 50 =>
                     LastStep \/ encoderBitrate' <= MinimumFor(videoHeight) + 50
    BY <1>4, <2>2, DeservedAfterReset
  <2> QED  BY <1>1, <1>2, <1>3, <1>4, <1>5, <2>1, <2>2 DEF Deserved, StreamingActive
<1> QED  BY <1>6, <1>7, <1>8, <1>9, <1>10 DEF PanelInv

LEMMA RestartStreamInv ==
    ASSUME PanelInv, RestartStream
    PROVE  PanelInv'
<1>1. PanelTypeOK /\ Posted /\ Spared /\ Believed /\ Deserved
  BY DEF PanelInv
<1> DEFINE b == Effective(userBitrate, sessionMaximum)
<1>2. /\ fallback = "waiting" /\ output # "ending" /\ events = <<>> /\ fallback' = "none"
      /\ UNCHANGED <<ui, userBitrate, sessionMaximum, configHeight, videoHeight, restarts,
                     secondary, recording, wanted, budget, course>>
  BY DEF RestartStream, settings
<1>3. /\ userBitrate \in DialogBitrates /\ sessionMaximum \in {0} \cup DialogBitrates
      /\ b \in DialogBitrates /\ b <= userBitrate
  <2>1. userBitrate \in DialogBitrates /\ sessionMaximum \in {0} \cup DialogBitrates
    BY <1>1, Panel DEF PanelTypeOK
  <2> QED  BY <2>1, EffectiveFacts
<1>4. CASE StreamingActive
  <2>1. UNCHANGED <<ctl, severe, encoderBitrate, output, handlerActive, events, lost>>
    BY <1>4 DEF RestartStream, stream
  <2>2. PanelTypeOK'
    BY <1>1, <1>2, <2>1 DEF PanelTypeOK
  <2>3. Posted' /\ Spared' /\ Believed'
    BY <1>1, <1>2, <2>1 DEF Posted, Spared, Believed, Capped
  <2>4. Deserved'
    <3>1. UNCHANGED MinimumFor(videoHeight) /\ (LastStep => LastStep')
      BY <1>2 DEF LastStep, MinimumFor
    <3> QED  BY <1>1, <1>2, <2>1, <3>1 DEF Deserved, StreamingActive
  <2> QED  BY <2>2, <2>3, <2>4 DEF PanelInv
<1>5. CASE ~StreamingActive
  <2>1. /\ ctl' = Fresh(b) /\ severe' = 0 /\ encoderBitrate' = SetupEncoder(b)
        /\ output' = "connecting" /\ lost' = FALSE /\ UNCHANGED <<handlerActive, events>>
    BY <1>5 DEF RestartStream, StartStreaming
  <2>2. output = "idle" \/ output = "connecting"
    BY <1>1, <1>5 DEF PanelTypeOK, StreamingActive
  <2>3. /\ ctl' \in Controllers /\ InRange(ctl') /\ ctl'.maximum = b
        /\ encoderBitrate' \in DialogBitrates
        /\ course.recordings = 0 => encoderBitrate' = Capped(b)
        /\ encoderBitrate' = encoderBitrate \/ encoderBitrate' <= b
    BY <1>3, <2>1, <2>2, SetupFacts
  <2>4. PanelTypeOK'
    <3>1. /\ severe' \in 0 .. FallbackLimit /\ fallback' \in {"none", "stopping", "waiting"}
          /\ output' \in {"idle", "connecting", "live", "stopping", "ending"}
      BY <1>2, <2>1, Panel
    <3>2. lost' \in BOOLEAN
      BY <2>1
    <3>3. /\ ui' \in BOOLEAN
          /\ userBitrate' \in Bitrates /\ sessionMaximum' \in {0} \cup DialogBitrates
          /\ configHeight' \in {1080, 720, 480} /\ videoHeight' \in {1080, 720, 480}
          /\ restarts' \in 0 .. MaxRestarts /\ handlerActive' \in BOOLEAN /\ events' \in News
          /\ secondary' \in BOOLEAN /\ recording' \in BOOLEAN /\ wanted' \in BOOLEAN
          /\ course' \in Courses /\ budget' \in Budgets
      BY <1>1, <1>2, <2>1 DEF PanelTypeOK
    <3> QED  BY <2>3, <3>1, <3>2, <3>3 DEF PanelTypeOK
  <2>5. Posted'
    BY <1>1, <1>2, <2>1, <2>2, NewsDiffer DEF Posted
  <2>6. Spared'
    BY <1>1, <1>2 DEF Spared
  <2>7. Believed'
    BY <1>2, <2>1, <2>3 DEF Believed, Capped
  <2>8. Deserved'
    <3>1. LastStep => LastStep'
      BY <1>2 DEF LastStep
    <3>2. b \in Int /\ userBitrate \in Int /\ encoderBitrate \in Int /\ encoderBitrate' \in Int
      BY <1>1, <1>3, <2>3, InDialog DEF PanelTypeOK
    <3>3. DynamicBitrate /\ course.saves = 0 => encoderBitrate' <= userBitrate
      BY <1>1, <1>3, <2>3, <3>2 DEF Deserved
    <3> HIDE DEF b
    <3> QED  BY <1>1, <1>2, <1>3, <2>1, <2>3, <3>1, <3>3 DEF Deserved, StreamingActive
  <2> QED  BY <2>4, <2>5, <2>6, <2>7, <2>8 DEF PanelInv
<1> QED  BY <1>4, <1>5

-----------------------------------------------------------------------------
LEMMA StartRecordingInv ==
    ASSUME PanelInv, StartRecording
    PROVE  PanelInv'
<1>1. PanelTypeOK /\ Posted /\ Spared /\ Believed /\ Deserved
  BY DEF PanelInv
<1>2. /\ Spent("recordings") /\ recording' = TRUE /\ sessionMaximum' = userBitrate
      /\ encoderBitrate' = (IF StreamingActive THEN encoderBitrate ELSE Capped(userBitrate))
      /\ UNCHANGED <<ctl, ui, severe, userBitrate, configHeight, videoHeight, fallback, restarts,
                     output, handlerActive, events, secondary, wanted, lost>>
  BY DEF StartRecording, controls, ladder, stream
<1>3. /\ course' = course /\ course' \in Courses /\ budget' \in Budgets /\ budget["recordings"] > 0
      /\ budget'.recordings <= course'.recordings /\ budget'.saves <= course'.saves
  BY <1>2, SpentSpares
<1>4. course.recordings # 0
  <2>1. course.recordings \in Int /\ budget.recordings \in Int /\ budget.recordings <= course.recordings
    BY <1>1, Panel DEF PanelTypeOK, Spared, Budgets
  <2> QED  BY <1>3, <2>1
<1>5. /\ userBitrate \in DialogBitrates /\ userBitrate \in Int
      /\ Capped(userBitrate) \in DialogBitrates /\ Capped(userBitrate) <= userBitrate
  BY <1>1, Panel, InDialog, CappedFacts DEF PanelTypeOK
<1>6. PanelTypeOK'
  <2>1. /\ sessionMaximum' \in {0} \cup DialogBitrates /\ encoderBitrate' \in DialogBitrates
        /\ recording' \in BOOLEAN
    BY <1>1, <1>2, <1>5 DEF PanelTypeOK
  <2>2. /\ ctl' \in Controllers /\ InRange(ctl')
        /\ ui' \in BOOLEAN /\ severe' \in 0 .. FallbackLimit /\ userBitrate' \in Bitrates
        /\ configHeight' \in {1080, 720, 480} /\ videoHeight' \in {1080, 720, 480}
        /\ fallback' \in {"none", "stopping", "waiting"} /\ restarts' \in 0 .. MaxRestarts
        /\ output' \in {"idle", "connecting", "live", "stopping", "ending"}
        /\ handlerActive' \in BOOLEAN /\ events' \in News /\ secondary' \in BOOLEAN
        /\ wanted' \in BOOLEAN /\ lost' \in BOOLEAN
    BY <1>1, <1>2 DEF PanelTypeOK
  <2> QED  BY <1>3, <2>1, <2>2 DEF PanelTypeOK
<1>7. Posted'
  BY <1>1, <1>2, <1>3 DEF Posted
<1>8. Spared'
  BY <1>1, <1>2, <1>3, <1>4 DEF Spared
<1>9. Believed'
  BY <1>3, <1>4 DEF Believed
<1>10. Deserved'
  <2>1. UNCHANGED <<LastStep, MinimumFor(videoHeight)>>
    BY <1>2 DEF LastStep, MinimumFor
  <2> QED  BY <1>1, <1>2, <1>3, <1>5, <2>1 DEF Deserved, StreamingActive
<1> QED  BY <1>6, <1>7, <1>8, <1>9, <1>10 DEF PanelInv

LEMMA StopRecordingInv ==
    ASSUME PanelInv, StopRecording
    PROVE  PanelInv'
<1>1. PanelTypeOK /\ Posted /\ Spared /\ Believed /\ Deserved
  BY DEF PanelInv
<1>2. /\ recording' = FALSE
      /\ UNCHANGED <<ctl, ui, severe, userBitrate, sessionMaximum, encoderBitrate, configHeight,
                     videoHeight, fallback, restarts, output, handlerActive, events, secondary,
                     wanted, lost, budget, course>>
  BY DEF StopRecording, controls, settings, ladder, stream, user
<1>3. PanelTypeOK'
  <2>1. recording' \in BOOLEAN
    BY <1>2
  <2> QED  BY <1>1, <1>2, <2>1 DEF PanelTypeOK
<1>4. Posted' /\ Spared' /\ Believed'
  BY <1>1, <1>2 DEF Posted, Spared, Believed, Capped
<1>5. Deserved'
  <2>1. UNCHANGED <<LastStep, MinimumFor(videoHeight)>>
    BY <1>2 DEF LastStep, MinimumFor
  <2> QED  BY <1>1, <1>2, <2>1 DEF Deserved, StreamingActive
<1> QED  BY <1>3, <1>4, <1>5 DEF PanelInv

LEMMA SaveSettingsInv ==
    ASSUME PanelInv, NEW b \in Bitrates, SaveSettings(b)
    PROVE  PanelInv'
<1>1. PanelTypeOK /\ Posted /\ Spared /\ Believed /\ Deserved
  BY DEF PanelInv
<1>2. /\ events = <<>> /\ Spent("saves") /\ userBitrate' = b
      /\ output' = (IF handlerActive \/ recording THEN output ELSE "idle")
      /\ UNCHANGED <<ctl, ui, severe, sessionMaximum, encoderBitrate, configHeight, videoHeight,
                     fallback, restarts, handlerActive, events, secondary, recording,
                     wanted, lost>>
  BY DEF SaveSettings, controls, ladder
<1>3. /\ course' = course /\ course' \in Courses /\ budget' \in Budgets /\ budget["saves"] > 0
      /\ budget'.recordings <= course'.recordings /\ budget'.saves <= course'.saves
  BY <1>2, SpentSpares
<1>4. course.saves # 0
  <2>1. course.saves \in Int /\ budget.saves \in Int /\ budget.saves <= course.saves
    BY <1>1, Panel DEF PanelTypeOK, Spared, Budgets
  <2> QED  BY <1>3, <2>1
<1>5. PanelTypeOK'
  BY <1>1, <1>2, <1>3 DEF PanelTypeOK
<1>6. Posted' /\ Spared'
  <2>1. output \in {"idle", "connecting", "live", "stopping", "ending"}
    BY <1>1 DEF PanelTypeOK
  <2>2. Posted'
    BY <1>1, <1>2, <1>3, <2>1, NewsDiffer DEF Posted, Spared
  <2>3. Spared'
    BY <1>1, <1>2, <1>3, <1>4 DEF Spared
  <2> QED  BY <2>2, <2>3
<1>7. Believed'
  <2>1. SUFFICES ASSUME DynamicBitrate, course.recordings = 0, output' # "idle" PROVE Believed'
    BY <1>3 DEF Believed
  <2>2. output' = output /\ output \in {"live", "stopping"}
    BY <1>1, <1>2, <2>1 DEF Posted, Spared
  <2> QED  BY <1>1, <1>2, <1>3, <2>2 DEF Believed, Capped
<1>8. Deserved'
  BY <1>3, <1>4 DEF Deserved
<1> QED  BY <1>5, <1>6, <1>7, <1>8 DEF PanelInv

-----------------------------------------------------------------------------
(* What the output does leaves the controller and the settings alone.      *)
LEMMA StreamInv ==
    ASSUME PanelInv, Stream
    PROVE  PanelInv'
<1>1. PanelTypeOK /\ Posted /\ Spared /\ Believed /\ Deserved
  BY DEF PanelInv
<1>2. UNCHANGED <<ctl, ui, severe, userBitrate, sessionMaximum, encoderBitrate, configHeight,
                  videoHeight, fallback, restarts, secondary, recording, wanted>>
  BY DEF Stream, Connected, Refused, Lost, Finished, Detached, controls, settings, ladder, user
<1>3. /\ course' = course /\ course' \in Courses /\ budget' \in Budgets
      /\ budget'.recordings <= course'.recordings /\ budget'.saves <= course'.saves
      /\ lost' \in BOOLEAN
  <2>1. CASE Connected \/ Finished \/ Detached
    <3>1. course' = course /\ budget' = budget /\ lost' = lost
      BY <2>1 DEF Connected, Finished, Detached, user
    <3> QED  BY <1>1, <3>1 DEF PanelTypeOK, Spared
  <2>2. CASE Refused \/ Lost
    <3>1. Spent("losses") /\ lost' = TRUE
      BY <2>2 DEF Refused, Lost
    <3> QED  BY <3>1, SpentSpares
  <2> QED  BY <2>1, <2>2 DEF Stream
<1>4. /\ \/ output = "connecting" /\ output' = "live" /\ handlerActive' = TRUE
            /\ events = <<>> /\ events' = <<"started">>
         \/ /\ output = "connecting" /\ output' = "idle" /\ handlerActive' = FALSE
            /\ events = <<>> /\ events' = <<"stopped">>
         \/ /\ output = "live" /\ output' = "ending" /\ handlerActive' = FALSE
            /\ \/ events = <<>> /\ events' = <<"stopped">>
               \/ events = <<"started">> /\ events' = <<"started", "stopped">>
         \/ /\ output = "stopping" /\ output' = "ending" /\ handlerActive' = FALSE
            /\ events = <<>> /\ events' = <<"stopped">>
         \/ /\ output = "ending" /\ output' = "idle"
            /\ UNCHANGED <<handlerActive, events>>
  <2>1. events \in News
    BY <1>1 DEF PanelTypeOK
  <2>2. events = <<>> => \A what : Append(events, what) = <<what>>
    BY <2>1, NewsFacts
  <2>3. events = <<"started">> => Append(events, "stopped") = <<"started", "stopped">>
    BY <2>1, NewsFacts
  <2>4. CASE Connected
    BY <1>1, <2>2, <2>4 DEF Connected, Tell, Posted
  <2>5. CASE Refused
    BY <1>1, <2>2, <2>5 DEF Refused, Tell, Posted
  <2>6. CASE Lost
    BY <1>1, <2>2, <2>3, <2>6 DEF Lost, Tell, Posted
  <2>7. CASE Finished
    BY <1>1, <2>2, <2>7 DEF Finished, Tell, Posted
  <2>8. CASE Detached
    BY <2>8 DEF Detached
  <2> QED  BY <2>4, <2>5, <2>6, <2>7, <2>8 DEF Stream
<1>5. PanelTypeOK'
  <2>1. events' \in News /\ output' \in {"idle", "connecting", "live", "stopping", "ending"}
    BY <1>1, <1>4, NewsDiffer DEF PanelTypeOK
  <2>2. handlerActive' \in BOOLEAN
    <3>1. handlerActive' = TRUE \/ handlerActive' = FALSE \/ handlerActive' = handlerActive
      BY <1>4
    <3>2. handlerActive \in BOOLEAN
      BY <1>1 DEF PanelTypeOK
    <3> QED  BY <3>1, <3>2, Zenon
  <2>3. /\ ctl' \in Controllers /\ InRange(ctl')
        /\ ui' \in BOOLEAN /\ severe' \in 0 .. FallbackLimit
        /\ userBitrate' \in Bitrates /\ sessionMaximum' \in {0} \cup DialogBitrates
        /\ encoderBitrate' \in DialogBitrates
        /\ configHeight' \in {1080, 720, 480} /\ videoHeight' \in {1080, 720, 480}
        /\ fallback' \in {"none", "stopping", "waiting"} /\ restarts' \in 0 .. MaxRestarts
        /\ secondary' \in BOOLEAN /\ recording' \in BOOLEAN /\ wanted' \in BOOLEAN
    BY <1>1, <1>2 DEF PanelTypeOK
  <2> QED  BY <1>3, <2>1, <2>2, <2>3 DEF PanelTypeOK
<1>6. Posted'
  <2>1. handlerActive' <=> output' \in {"live", "stopping"}
    BY <1>1, <1>4 DEF Posted
  <2>2. /\ output' \in {"connecting", "stopping"} => events' = <<>>
        /\ output' = "live" => events' \in {<<>>, <<"started">>}
        /\ output' \in {"idle", "ending"} => events' # <<"started">>
        /\ output' = "ending" => events' # <<>>
    BY <1>1, <1>4, NewsDiffer DEF Posted
  <2>3. secondary' => output' = "live" \/ events' \in {<<"stopped">>, <<"started", "stopped">>}
    BY <1>1, <1>2, <1>4, NewsDiffer DEF Posted
  <2> QED  BY <2>1, <2>2, <2>3 DEF Posted
<1>7. Spared'
  BY <1>1, <1>2, <1>3 DEF Spared
<1>8. Believed'
  BY <1>1, <1>2, <1>3, <1>4, NewsDiffer DEF Believed, Capped
<1>9. Deserved'
  <2>1. UNCHANGED <<LastStep, MinimumFor(videoHeight)>>
    BY <1>2 DEF LastStep, MinimumFor
  <2>2. /\ output' # "idle" => output # "idle"
        /\ StreamingActive' /\ events' = <<>> => StreamingActive /\ events = <<>>
    BY <1>4, NewsDiffer DEF StreamingActive
  <2> QED  BY <1>1, <1>2, <1>3, <2>1, <2>2 DEF Deserved
<1> QED  BY <1>5, <1>6, <1>7, <1>8, <1>9 DEF PanelInv

-----------------------------------------------------------------------------
LEMMA PanelNextInv == PanelInv /\ [Next]_vars => PanelInv'
<1> SUFFICES ASSUME PanelInv, [Next]_vars PROVE PanelInv'
  OBVIOUS
<1>1. ASSUME NEW s \in Samples, Tick(s) PROVE PanelInv'
  BY <1>1, TickInv
<1>2. CASE Handle
  BY <1>2, HandleStartedInv, HandleStoppedInv DEF Handle
<1>3. CASE RestartStream
  BY <1>3, RestartStreamInv
<1>4. CASE ToggleStart \/ ToggleStop
  BY <1>4, ToggleStartInv, ToggleStopInv
<1>5. CASE StartRecording \/ StopRecording
  BY <1>5, StartRecordingInv, StopRecordingInv
<1>6. ASSUME NEW b \in Bitrates, SaveSettings(b) PROVE PanelInv'
  BY <1>6, SaveSettingsInv
<1>7. CASE Stream
  BY <1>7, StreamInv
<1>8. CASE UNCHANGED vars
  <2>1. UNCHANGED <<ctl, ui, severe, userBitrate, sessionMaximum, encoderBitrate, configHeight,
                    videoHeight, fallback, restarts, output, handlerActive, events, secondary,
                    recording, wanted, lost, budget, course>>
    BY <1>8 DEF vars, controls, settings, ladder, stream, user
  <2> QED  BY <2>1
           DEF PanelInv, PanelTypeOK, InRange, Posted, Spared, Believed, Capped, Deserved, LastStep,
               StreamingActive, MinimumFor, Effective
<1> QED  BY <1>1, <1>2, <1>3, <1>4, <1>5, <1>6, <1>7, <1>8 DEF Next

THEOREM PanelInvariance == Spec => []PanelInv
BY PanelInitInv, PanelNextInv, PTL DEF Spec

(* The members of the panel keep their types, and every bitrate the range  *)
(* of the dialog, in which the steps of the source are those of the model. *)
THEOREM PanelTyping == Spec => []PanelTypeOK
<1>1. PanelInv => PanelTypeOK  BY DEF PanelInv
<1> QED  BY PanelInvariance, <1>1, PTL

(* An encoder that can change its bitrate has the one the controller       *)
(* believes in, or what the service made of its maximum when the stream    *)
(* was set up, and the second destination does not outlive the first.      *)
THEOREM OneBitrate == DynamicBitrate => (Spec => []DestinationsFollow)
<1> SUFFICES ASSUME DynamicBitrate PROVE Spec => []DestinationsFollow
  OBVIOUS
<1>1. PanelInv => DestinationsFollow
  <2> SUFFICES ASSUME PanelInv PROVE DestinationsFollow
    OBVIOUS
  <2>1. Posted /\ Believed
    BY DEF PanelInv
  <2>2. course.recordings = 0 /\ OnAir =>
           \/ encoderBitrate = ctl.current
           \/ ctl.current = ctl.maximum /\ encoderBitrate = Capped(ctl.current)
    BY <2>1 DEF Believed, OnAir
  <2>3. ASSUME secondary, output # "live"
        PROVE  \E i \in 1 .. Len(events) : events[i] = "stopped"
    <3>1. CASE events = <<"stopped">>
      BY <3>1
    <3>2. CASE events = <<"started", "stopped">>
      <4>1. Len(events) = 2 /\ events[2] = "stopped" /\ 2 \in 1 .. 2
        BY <3>2
      <4> QED  BY <4>1
    <3> QED  BY <2>1, <2>3, <3>1, <3>2 DEF Posted
  <2> QED  BY <2>2, <2>3 DEF DestinationsFollow
<1> QED  BY PanelInvariance, <1>1, PTL

(* The stream is given up for a lower resolution only at the minimum of    *)
(* this one, and never under a recording: unless the bitrate of the dialog *)
(* changes in a course with recordings, or with encoders that are slow to  *)
(* detach.                                                                 *)
THEOREM FallbackAtTheMinimum ==
    ASSUME DynamicBitrate,
           \A c \in Courses : c.saves = 0 \/ (c.recordings = 0 /\ ~c.slow)
    PROVE  Spec => FallbackIsJustified
<1> DEFINE A == /\ fallback' = "stopping" /\ fallback = "none" =>
                      encoderBitrate' <= MinimumFor(videoHeight) + 50
                /\ videoHeight' # videoHeight => ~recording /\ ~handlerActive
<1>1. PanelInv /\ [Next]_vars => [A]_vars
  <2> SUFFICES ASSUME PanelInv, Next PROVE A
    OBVIOUS
  <2>1. PanelTypeOK /\ Posted /\ Believed /\ Deserved
    BY DEF PanelInv
  <2>2. ASSUME fallback' = "stopping", fallback = "none"
        PROVE  encoderBitrate' <= MinimumFor(videoHeight) + 50
    <3>1. PICK s \in Samples : Tick(s)
      BY <2>2 DEF Next, Handle, HandleStarted, HandleStopped, RestartStream, ToggleStart,
                  ToggleStop, StartRecording, StopRecording, SaveSettings, Stream, Connected,
                  Refused, Lost, Finished, Detached, ladder
    <3>2. /\ events = <<>>
          /\ \/ ctl'.current = ctl.current /\ encoderBitrate' = encoderBitrate
             \/ DynamicBitrate => encoderBitrate' = ctl'.current
          /\ FallbackAllowed /\ ctl'.current <= MinimumFor(videoHeight) + 50
      BY <2>2, <3>1, TickFacts
    <3>3. StreamingActive /\ ~LastStep
      BY <2>2, <3>2 DEF FallbackAllowed, LastStep
    <3>4. CASE encoderBitrate' = ctl'.current
      BY <3>2, <3>4
    <3>5. CASE ctl'.current = ctl.current /\ encoderBitrate' = encoderBitrate
      <4>1. course.saves = 0 \/ (course.recordings = 0 /\ ~course.slow)
        BY <2>1 DEF PanelTypeOK
      <4>2. CASE course.saves = 0
        BY <2>1, <3>2, <3>3, <3>5, <4>2 DEF Deserved
      <4>3. CASE course.recordings = 0 /\ ~course.slow
        <5>1. output \in {"live", "stopping"}
          BY <2>1, <3>2, <3>3, <4>3 DEF Posted, StreamingActive
        <5>2. ctl.current \in DialogBitrates /\ videoHeight \in {1080, 720, 480}
          BY <2>1, InDialog DEF PanelTypeOK, InRange, Controllers
        <5>3. /\ Capped(ctl.current) <= ctl.current /\ Capped(ctl.current) \in Int
              /\ ctl.current \in Int /\ MinimumFor(videoHeight) \in Int
          BY <5>2, CappedFacts, InDialog DEF MinimumFor
        <5>4. encoderBitrate \in {ctl.current, Capped(ctl.current)}
          BY <2>1, <3>2, <4>3, <5>1 DEF Believed
        <5> QED  BY <3>2, <3>5, <5>3, <5>4
      <4> QED  BY <4>1, <4>2, <4>3
    <3> QED  BY <3>2, <3>4, <3>5
  <2>3. ASSUME videoHeight' # videoHeight
        PROVE  ~recording /\ ~handlerActive
    <3>1. PICK s \in Samples : HandleStopped(s)
      <4>1. ASSUME NEW s \in Samples, Tick(s) PROVE FALSE
        BY <2>3, <4>1 DEF Tick, ScheduleFallback, ladder
      <4> QED  BY <2>3, <4>1
               DEF Next, Handle, HandleStarted, RestartStream, ToggleStart, ToggleStop,
                   StartRecording, StopRecording, SaveSettings, Stream, Connected, Refused, Lost,
                   Finished, Detached, ladder
    <3> QED  BY <2>3, <3>1 DEF HandleStopped, LowerResolution, ResetVideoSucceeds
  <2> QED  BY <2>2, <2>3
<1> QED  BY PanelInvariance, <1>1, PTL DEF Spec, FallbackIsJustified

=============================================================================
