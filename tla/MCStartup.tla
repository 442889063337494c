------------------------------ MODULE MCStartup ------------------------------
(***************************************************************************)
(* Small instances of Startup and of ServiceRegistry.  The two share        *)
(* nothing but the number of slots, which Startup takes from FileCounts: a  *)
(* behaviour is one of start-up or one of the registry, and the steps of    *)
(* the one need not be interleaved with those of the other.                 *)
(*                                                                         *)
(* The registry has two services of one name, one that cannot be            *)
(* unregistered and one without finit_service.                              *)
(***************************************************************************)
EXTENDS Startup, ServiceRegistry, TLC

CONSTANTS radix, copy, flaky, bare, Radix, Other

VARIABLE scene   \* which of the two a behaviour is of

MCFiles == <<radix, copy, flaky, bare>>
MCServiceOf == radix :> Radix @@ copy :> Radix @@ flaky :> Other @@ bare :> Radix
MCFinit == radix :> "unregisters" @@ copy :> "unregisters" @@ flaky :> "fails" @@ bare :> "none"

ASSUME RegistryAssumption

mcVars == <<scene, startVars, registryVars>>

MCInit == scene \in {"startup", "registry"} /\ StartInit /\ RegistryInit

InStartup(A) == scene = "startup" /\ A /\ UNCHANGED <<scene, registryVars>>
InRegistry(A) == scene = "registry" /\ A /\ UNCHANGED <<scene, startVars>>

MCSpec ==
  /\ MCInit /\ [][InStartup(StartNext) \/ InRegistry(RegistryNext)]_mcVars
  /\ \A d \in Daemons : WF_mcVars(InStartup(DaemonRuns(d)))
=============================================================================
