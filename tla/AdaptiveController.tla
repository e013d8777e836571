------------------------- MODULE AdaptiveController -------------------------
(***************************************************************************)
(* One controller on its own: it is sampled once a second and reset        *)
(* whenever a stream starts or stops.  History variables remember how many *)
(* samples of the stream passed since the bitrate last changed and which   *)
(* way, so that the documented damping can be stated.                      *)
(***************************************************************************)
EXTENDS AdaptivePolicy

CONSTANTS
    Ranges,             \* the <<maximum, minimum>> pairs Reset() is called with
    MaxResets           \* bound of the model: calls of Reset() after the first

ASSUME RangesAssumption ==
    /\ Ranges \subseteq Int \X Int
    /\ MaxResets \in Nat

VARIABLES
    controller,         \* the members of the controller
    sample,             \* the last sample
    since,              \* streaming samples since the bitrate last changed
    last,               \* that change: "none" since Reset(), "down" or "up"
    resets              \* calls of Reset()

controllerVars == <<controller, sample, since, last, resets>>

Idle == [streaming |-> FALSE, hostPressure |-> FALSE, network |-> "healthy"]

(* What since counts up to: enough to tell all the documented spacings.    *)
SinceCap == Greater(Greater(DownCooldown, UpCooldown), HealthyLimit)

-----------------------------------------------------------------------------
ControllerInit ==
    /\ \E r \in Ranges : controller = Reset(InitialController, r[1], r[2])
    /\ sample = Idle
    /\ since = 0
    /\ last = "none"
    /\ resets = 0

(* ResetAdaptivePerformance(), at the start and at the end of a stream.    *)
ResetController(r) ==
    /\ resets < MaxResets
    /\ controller' = Reset(controller, r[1], r[2])
    /\ since' = 0
    /\ last' = "none"
    /\ resets' = resets + 1
    /\ UNCHANGED sample

(* UpdateAdaptivePerformance() hands one sample to the controller.         *)
Sampled(s) ==
    /\ sample' = s
    /\ controller' = Update(controller, s)
    /\ IF controller'.current # controller.current
       THEN /\ since' = 0
            /\ last' = IF controller'.current < controller.current THEN "down" ELSE "up"
       ELSE /\ since' = IF s.streaming THEN Lesser(since + 1, SinceCap) ELSE since
            /\ UNCHANGED last
    /\ UNCHANGED resets

Sampling == \E s \in Samples : Sampled(s)

ControllerNext == Sampling \/ \E r \in Ranges : ResetController(r)

(* transmissionStatusTimer is a repeating timer of the interface thread.   *)
ControllerSpec == ControllerInit /\ [][ControllerNext]_controllerVars /\ WF_controllerVars(Sampling)

-----------------------------------------------------------------------------
TypeOK ==
    /\ controller \in Controllers
    /\ sample \in Samples
    /\ since \in 0 .. SinceCap
    /\ last \in {"none", "down", "up"}
    /\ resets \in 0 .. MaxResets

(* The bitrate never leaves the range the session was given, whatever      *)
(* order the steps down and up come in (OPBS_RENDIMIENTO_ADAPTATIVO.md:    *)
(* "El bitrate nunca supera el configurado por el usuario ni baja del      *)
(* minimo de la resolucion activa").                                       *)
BitrateInRange == controller.minimum <= controller.current /\ controller.current <= controller.maximum

(* The samples still missing from a cooldown are accounted for: what has   *)
(* passed since a change plus what is left of its cooldown is never less   *)
(* than the whole cooldown.                                                *)
CooldownAccounted ==
    /\ last = "down" => since + controller.cooldown >= DownCooldown
    /\ last = "up" => since + controller.cooldown >= UpCooldown

(* Every healthy sample counted since a change of the bitrate came after   *)
(* that change: what is counted can never exceed what has passed.          *)
HealthyAccounted == last # "none" => controller.healthy <= since

(* Two changes are never closer than the cooldown of the first one allows  *)
(* ("Cada cambio tiene un periodo de enfriamiento para impedir             *)
(* oscilacion"): the sample of the change is the first one the cooldown    *)
(* no longer covers.                                                       *)
ChangesAreSpaced ==
    [][Sampling /\ controller'.current # controller.current =>
          /\ last = "down" => since + 1 >= DownCooldown
          /\ last = "up" => since + 1 >= UpCooldown]_controllerVars

(* An increase is the answer to HealthyLimit good samples that all came    *)
(* after the previous change ("Conexion saludable durante 25 muestras:     *)
(* recupera 6 %"), so a raise can never follow a cut or another raise      *)
(* sooner.                                                                 *)
RaisesSlowly ==
    [][Sampling /\ controller'.current > controller.current /\ last # "none" =>
          since + 1 >= HealthyLimit]_controllerVars

(* On a connection that stays healthy the bitrate climbs back to its       *)
(* maximum, whatever it had been cut to.                                   *)
Recovers ==
    <>[](sample.streaming /\ sample.network = "healthy") ~> (controller.current = controller.maximum)

(* Host pressure that lasts restricts the interface; pressure that is gone *)
(* for good lets it return.                                                *)
HostIsAnswered ==
    /\ <>[](sample.hostPressure) => <>[](controller.constrained)
    /\ <>[](~sample.hostPressure) => <>[](~controller.constrained)

=============================================================================
