----------------------------- MODULE ModePromise -----------------------------
(***************************************************************************)
(* What the modes promise to a device that is not fit to serve programs:   *)
(* a boot decides whether it is, and only another boot decides anew.  From *)
(* SETUP_AP, which stands for EMERGENCY_AP too, the one way on is an       *)
(* update, and the one way out of that update is a restart; an update that *)
(* began in NORMAL may be given up.  NORMAL_SILENT is left by a restart.   *)
(***************************************************************************)

VARIABLES
  mode,  \* ModeManager::_currentMode
  fit    \* the last boot has found the device fit

modeVars == <<mode, fit>>

\* BOOT is passed in one step or in several.
Boots == mode' \in {"BOOT", "SETUP_AP", "NORMAL"} /\ fit' = (mode' = "NORMAL")

Init == mode \in {"BOOT", "SETUP_AP", "NORMAL"} /\ fit = (mode = "NORMAL")

Silence == mode = "NORMAL" /\ mode' = "NORMAL_SILENT" /\ UNCHANGED fit

UpdateBegins ==
  mode \in {"SETUP_AP", "NORMAL"} /\ mode' = "OTA_UPDATE" /\ UNCHANGED fit

UpdateGivenUp == mode = "OTA_UPDATE" /\ fit /\ mode' = "NORMAL" /\ UNCHANGED fit

Next == Boots \/ Silence \/ UpdateBegins \/ UpdateGivenUp

Spec == Init /\ [][Next]_modeVars
=============================================================================
