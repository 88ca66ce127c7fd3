---------------------------- MODULE MCDeviceState ----------------------------
(***************************************************************************)
(* DeviceState for TLC, explored along two lines (focus): an operator who  *)
(* configures the device and uses checkpoints while a cable is cut and     *)
(* restored, and a timeline that arms every kind of fault across exports   *)
(* and restarts.  The lines are told apart by what their steps leave       *)
(* alone.                                                                  *)
(***************************************************************************)
EXTENDS DeviceState

CONSTANT Cut \* the carrier fault of the operator's line

VARIABLE focus

MCInit == Init /\ focus \in {"operator", "timeline"}

MCNext ==
  /\ Next /\ UNCHANGED focus
  /\ focus = "operator" =>
       /\ saved' = Nil
       /\ \A k \in DOMAIN faults' : faults'[k] # 0 => k[2] = Cut /\ faults'[k] = 1
  /\ focus = "timeline" =>
       /\ UNCHANGED <<running, startup, checkpoints>> /\ update' = Nil

MCSpec == MCInit /\ [][MCNext]_<<vars, focus>> /\ WF_<<vars, focus>>((awake \/ dispatchPending) /\ UNCHANGED focus)

\* Whatever is exported can be restored, and on the timeline's line, where only
\* faults move links, receivers that are up to date know every link's state.
ExportsAndReports == ExportValidates /\ (focus = "timeline" => LinkStateReported)
=============================================================================
