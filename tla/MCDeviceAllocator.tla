------------------------- MODULE MCDeviceAllocator -------------------------
(***************************************************************************)
(* Small instances of DeviceAllocator for TLC: two agents, two calls in    *)
(* flight, a simulator and an emulator.  Requirements holds what one       *)
(* platform filter of /request lets through.  A behaviour is one of        *)
(* leases, with the Traffic of the cfg, or of an emulator that breaks and  *)
(* that the daemon repairs, with or without the idle sweep.                *)
(***************************************************************************)
EXTENDS DeviceAllocator, TLC

CONSTANTS sim, emu

VARIABLE part
mcVars == <<part, vars>>

AnyDevice == {{sim, emu}}
Simulators == {{sim}}

Repair == INSTANCE DeviceAllocator WITH
  Slot <- {1, 2, 3}, Requirements <- {{emu}}, Quota <- 1, AutoRepair <- TRUE, UserRunning <- {emu},
  Traffic <- {"broken", "repaired"}
Sweep == INSTANCE DeviceAllocator WITH
  Slot <- {1, 2}, Requirements <- {{emu}}, Quota <- 1, AutoRepair <- TRUE, UserRunning <- {emu},
  Traffic <- {"broken", "repaired", "idle"}

\* Agents and calls are interchangeable in every safety property.
Symmetry == Permutations(Agent) \cup Permutations(Call)

Leases(A) == part = "leases" /\ A /\ UNCHANGED part
MCInit == \/ part = "leases" /\ Init
          \/ part \in {"repairs", "sweeps"} /\ Repair!Init
MCNext == \/ Leases(Next)
          \/ part = "repairs" /\ Repair!Next /\ UNCHANGED part
          \/ part = "sweeps" /\ Sweep!Next /\ UNCHANGED part
MCSpec == MCInit /\ [][MCNext]_mcVars

\* DeviceAllocator, of the emulator: its quarantine lasts.
QuarantineHolds == [][/\ part = "repairs" => Repair!QuarantineKept
                      /\ part = "sweeps" => Sweep!QuarantineKept]_mcVars
=============================================================================
