------------------------------- MODULE MCSDK -------------------------------
(* The two mutating surfaces of the device SDK in one run.  They share no state: a behaviour *)
(* exercises one of them, chosen at the start, while the other keeps a fixed initial state.  *)
EXTENDS MCSafeFiles, MCPackages

VARIABLE surface

FilesOnly ==
  /\ surface = "files"
  /\ FilesNext
  /\ UNCHANGED <<pkgVars, surface>>
PackagesOnly ==
  /\ surface = "packages"
  /\ PackagesNext
  /\ UNCHANGED <<fileVars, surface>>
SDKInit ==
  /\ surface \in {"files", "packages"}
  /\ FilesInit
  /\ PackagesInit
  /\ surface = "files" => (tool = "apt" /\ host = Host(1, 1, {}, {"b"}, {}, TRUE, TRUE))
  /\ surface = "packages" => backend = "direct"
SDKSpec == SDKInit /\ [][FilesOnly \/ PackagesOnly]_<<fileVars, pkgVars, surface>>
============================================================================
