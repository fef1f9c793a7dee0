----------------------------- MODULE Installation -----------------------------
(***************************************************************************)
(* One installation: the config comes first, from the wizard or by hand,   *)
(* and says whether the bridge gets a boot unit; then the service manager  *)
(* runs its commands.  What is left of the config is that flag, which a    *)
(* later run of the wizard may change.                                     *)
(***************************************************************************)
EXTENDS ServiceManager, Config

\* load_autostart_flag, of a config that loads.
Configure ==
  /\ Load /\ auto' = FromJson(File).autoStartOnBoot
  /\ UNCHANGED <<procs, registry, unit, binary, command, update, release, setups,
                 crashes, enabled>>

InstallInit == Init /\ ~auto /\ ConfigInit
InstallNext ==
  \/ Configure
  \/ config = Loaded /\ Next /\ UNCHANGED config

InstallSpec == InstallInit /\ [][InstallNext]_<<vars, config>> /\ Fairness
=============================================================================
