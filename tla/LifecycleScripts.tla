-------------------------- MODULE LifecycleScripts --------------------------
(***************************************************************************)
(* The order of the steps of every workflow of Lifecycle, of its rollbacks *)
(* and of what recovery does in their place.                               *)
(***************************************************************************)

InstallScript ==
  <<"build", "init", "capture", "prepared", "activating", "link", "register",
    "start", "verifying", "health", "write_state", "committed">>

RestoreScript ==
  <<"choose", "protect", "capture", "snapshot", "prepared", "stopping", "stop",
    "activating", "move_aside", "clear_release", "copy_release", "seed", "link",
    "register", "start", "verifying", "health", "write_state", "committed">>

UninstallScript ==
  <<"protect", "capture", "stopping", "deactivate", "activating", "rm_current",
    "rm_releases", "rm_data", "rm_state", "committed">>

RepairStaticScript ==
  <<"refresh_zip", "save_pages", "prepared", "activating", "pages_out", "pages_in",
    "write_state", "committed">>

RepairBinaryScript ==
  <<"save_binary", "export", "capture", "snapshot", "prepared", "stopping",
    "stop", "activating", "replace_binary", "start", "verifying", "health",
    "write_state", "committed">>

(* rollback_restore, the previous data/ still being there. *)
RollbackRestoreScript ==
  <<"rolling_back", "stop", "unit_back", "release_rm", "release_mv",
    "link_back", "data_rm", "data_mv", "start_back", "health_back",
    "state_back", "rolled_back">>

(* rollback_switch, which a backend repair shares with switch. *)
RollbackSwitchScript ==
  <<"rolling_back", "stop", "move_aside", "extract", "clear_release",
    "copy_release", "seed", "link_back", "register", "start", "health_back",
    "state_back", "rolled_back">>

CleanupScript == <<"host_back", "rm_target", "rm_link", "rm_init", "rm_state", "failed">>
AbortScript == <<"host_back", "failed">>
PreActivationScript == <<"service_back", "rm_txdir", "failed">>
CleanScript == <<"rm_txdir", "failed">>
StaticBackScript == <<"pages_rm", "pages_copy", "rolled_back">>
RecoverStaticScript == <<"pages_rm", "pages_copy", "failed">>

CompleteUninstallScript ==
  <<"deactivate", "rm_current", "rm_releases", "rm_data", "rm_state",
    "committed">>

Scripts ==
  [install |-> InstallScript, restore |-> RestoreScript,
   uninstall |-> UninstallScript, repair_static |-> RepairStaticScript,
   repair_binary |-> RepairBinaryScript,
   rollback_restore |-> RollbackRestoreScript,
   rollback_switch |-> RollbackSwitchScript,
   cleanup |-> CleanupScript, abort |-> AbortScript,
   pre_activation |-> PreActivationScript, clean |-> CleanScript,
   static_back |-> StaticBackScript, recover_static |-> RecoverStaticScript,
   complete |-> CompleteUninstallScript, commit |-> <<"committed">>,
   fail |-> <<"failed">>, idle |-> <<>>]
=============================================================================
