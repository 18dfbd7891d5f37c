---------------------------- MODULE MCDevicePool ----------------------------
(***************************************************************************)
(* The device allocator beyond single leases, side by side.  A behaviour   *)
(* is one of its pool, with two agents, an emulator that the user keeps    *)
(* running and an unmanaged box, under changes, kills and restarts of the  *)
(* daemon; of its processes and its ban list; or of its installation.      *)
(***************************************************************************)
EXTENDS DeviceAllocator, AllocatorProcesses, TLC

CONSTANTS emu, box, a1, a2, author, other   \* named for the configuration

VARIABLE part
mcVars == <<part, vars, around, setup>>

Emulators == {{emu}}

\* Agents and calls are interchangeable in every safety property.
Symmetry == Permutations(Agent) \cup Permutations(Call)

MCInit ==
  /\ Init /\ D!Init /\ S!Init
  /\ part \in {"change", "daemons", "setup"}
  /\ part # "setup" => claude = S!Fresh
MCNext ==
  /\ UNCHANGED part
  /\ \/ part = "change" /\ Next /\ UNCHANGED <<around, setup>>
     \/ part = "daemons" /\ D!Next /\ UNCHANGED <<vars, setup>>
     \/ part = "setup" /\ S!Next /\ UNCHANGED <<vars, around>>
MCSpec == MCInit /\ [][MCNext]_mcVars
=============================================================================
