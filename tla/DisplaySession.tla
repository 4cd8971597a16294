-------------------------- MODULE DisplaySession --------------------------
(***************************************************************************)
(* The host side of one Lima instance's display: the VM's run status, the *)
(* native VZ window controller bound to the current run (Code-Hex/vz;     *)
(* its state machine is spec 4.5), the driver's RunGUI, and the           *)
(* `limactl show-gui` command, which inspects the instance and then acts  *)
(* on what it read while the user and the framework go on acting.         *)
(***************************************************************************)
EXTENDS Naturals

CONSTANTS
  MaxGraphicStarts   \* bound on StartGraphicApplication calls in one run

VARIABLES
  vmType,      \* "vz" or "qemu"                       (instance config)
  enabled,     \* video.display is set and not "none"  (instance config)
  canRunGUI,   \* the driver's Info().Features.CanRunGUI
  exists,      \* store.Inspect finds the instance
  vmStatus,    \* "Running" or "Stopped"
  window,      \* the VZ window controller of the current run
  graphicStarts, \* StartGraphicApplication calls in the current run
  viewer,      \* an external SPICE viewer was launched in this run
  cmd,         \* where a show-gui invocation is
  snap,        \* the instance as show-gui's store.Inspect saw it
  result       \* what the last show-gui returned

vars == <<vmType, enabled, canRunGUI, exists, vmStatus, window,
          graphicStarts, viewer, cmd, snap, result>>

configVars == <<vmType, enabled, canRunGUI, exists>>

WindowStates == {"Uninitialized", "Created", "Visible", "Hidden", "Stopped"}

\* HasGUIWindow: the states in which a session window exists.
HasSession == {"Created", "Visible", "Hidden"}

Results == {"none", "ok", "NotExist", "NotRunning", "NotEnabled",
            "NotSupported", "VZNoReopen", "DriverFailed", "LaunchFailed"}

NoSnap == [status |-> "Stopped", enabled |-> FALSE, canRunGUI |-> FALSE]

(***************************************************************************)
(* The driver's RunGUI.  VZ: bring an existing window to the front, else  *)
(* StartGraphicApplication (one call per controller; a second call is     *)
(* AlreadyStarted and creates nothing).  QEMU: LaunchViewer, which starts *)
(* the viewer process and does not wait for it; finding or starting the   *)
(* viewer can fail.  Each disjunct also fixes show-gui's result.          *)
(***************************************************************************)
\* spiceclient.LaunchViewer: FindViewer, buildViewerArgs and cmd.Start can
\* each fail; once started the viewer runs on its own and its exit is only
\* logged.
LaunchViewer(res) ==
  /\ \/ viewer' = TRUE /\ res = "ok"
     \/ UNCHANGED viewer /\ res = "LaunchFailed"
  /\ UNCHANGED <<window, graphicStarts>>

RunGUI(res) ==
  IF vmType = "vz"
    THEN IF window \in HasSession
           THEN /\ window' = "Visible"
                /\ res = "ok"
                /\ UNCHANGED <<graphicStarts, viewer>>
           ELSE /\ graphicStarts < MaxGraphicStarts
                /\ graphicStarts' = graphicStarts + 1
                /\ window' = IF window = "Uninitialized" THEN "Created"
                                                         ELSE window
                /\ res = IF window = "Uninitialized" THEN "ok"
                                                     ELSE "LaunchFailed"
                /\ UNCHANGED viewer
    ELSE LaunchViewer(res)

(***************************************************************************)
(* VM lifecycle (limactl start / stop) and the window.                    *)
(***************************************************************************)
\* limactl start: a new run, with a new window controller.
StartVM ==
  /\ exists /\ vmStatus = "Stopped"
  /\ vmStatus' = "Running"
  /\ window' = "Uninitialized"
  /\ graphicStarts' = 0
  /\ viewer' = FALSE
  /\ UNCHANGED <<configVars, cmd, snap, result>>

\* During start the VZ driver opens the window of a display-enabled VM.
RunGUIAtStart ==
  /\ vmType = "vz" /\ enabled /\ canRunGUI
  /\ vmStatus = "Running" /\ window = "Uninitialized"
  /\ \E res \in Results : RunGUI(res)
  /\ UNCHANGED <<configVars, vmStatus, cmd, snap, result>>

\* limactl stop: the run ends and its window controller with it.
StopVM ==
  /\ vmStatus = "Running"
  /\ vmStatus' = "Stopped"
  /\ window' = "Stopped"
  /\ UNCHANGED <<configVars, graphicStarts, viewer, cmd, snap, result>>

\* The framework shows a created window.
ShowWindow ==
  /\ window = "Created" /\ window' = "Visible"
  /\ UNCHANGED <<configVars, vmStatus, graphicStarts, viewer, cmd, snap,
                 result>>

\* The user minimizes the window; the VM keeps running.
MinimizeWindow ==
  /\ window = "Visible" /\ window' = "Hidden"
  /\ UNCHANGED <<configVars, vmStatus, graphicStarts, viewer, cmd, snap,
                 result>>

\* The user closes the window: Virtualization.framework stops the VM.
CloseWindow ==
  /\ window \in {"Visible", "Hidden"}
  /\ window' = "Stopped"
  /\ vmStatus' = "Stopped"
  /\ UNCHANGED <<configVars, graphicStarts, viewer, cmd, snap, result>>

(***************************************************************************)
(* limactl show-gui INSTANCE                                              *)
(***************************************************************************)
\* store.Inspect, with populateGUIInfo filling the GUI info.
ShowGUIInspect ==
  /\ cmd = "Idle"
  /\ cmd' = "Inspected"
  /\ snap' = [status |-> vmStatus, enabled |-> enabled,
              canRunGUI |-> canRunGUI]
  /\ UNCHANGED <<configVars, vmStatus, window, graphicStarts, viewer, result>>

\* Mutant: show-gui without its special case for VZ.
ShowGUICheckNoVZGuard ==
  CASE ~exists                  -> "NotExist"
    [] snap.status # "Running"  -> "NotRunning"
    [] ~snap.enabled            -> "NotEnabled"
    [] ~snap.canRunGUI          -> "NotSupported"
    [] OTHER                    -> "none"

\* The checks on what Inspect returned, in order: the first failing one is
\* show-gui's error, "none" if all pass.
ShowGUICheck ==
  CASE ~exists                  -> "NotExist"
    [] snap.status # "Running"  -> "NotRunning"
    [] ~snap.enabled            -> "NotEnabled"
    [] ~snap.canRunGUI          -> "NotSupported"
    [] vmType = "vz"            -> "VZNoReopen"
    [] OTHER                    -> "none"

\* Report the failed check, or create the driver and call its RunGUI.
ShowGUIRun ==
  /\ cmd = "Inspected"
  /\ cmd' = "Idle"
  /\ UNCHANGED <<configVars, vmStatus, snap>>
  /\ IF ShowGUICheck # "none"
       THEN /\ result' = ShowGUICheck
            /\ UNCHANGED <<window, graphicStarts, viewer>>
       ELSE \/ /\ result' = "DriverFailed"
               /\ UNCHANGED <<window, graphicStarts, viewer>>
            \/ \E res \in Results : RunGUI(res) /\ result' = res

Init ==
  /\ vmType \in {"vz", "qemu"}
  /\ enabled \in BOOLEAN
  /\ canRunGUI \in BOOLEAN
  /\ exists \in BOOLEAN
  /\ vmStatus = "Stopped"
  /\ window = "Uninitialized"
  /\ graphicStarts = 0
  /\ viewer = FALSE
  /\ cmd = "Idle"
  /\ snap = NoSnap
  /\ result = "none"

Next ==
  \/ StartVM \/ RunGUIAtStart \/ StopVM
  \/ ShowWindow \/ MinimizeWindow \/ CloseWindow
  \/ ShowGUIInspect \/ ShowGUIRun

\* Only safety is checked here, so no step is assumed to be taken.
Spec == Init /\ [][Next]_vars

(***************************************************************************)
(* Properties                                                             *)
(***************************************************************************)
\* StartGraphicApplication is called at most once per run, whatever
\* show-gui and the user do meanwhile: a second call on a closed
\* controller is the AlreadyStarted misuse of spec 4.5.
AtMostOneGraphicStartPerRun == graphicStarts <= 1

\* Spec 6 and the VZ proposal's show-gui: once every check passes, show-gui
\* brings an existing VZ window to the front and succeeds.
ShowGUIForegroundsLiveWindow ==
  [][ /\ cmd = "Inspected" /\ cmd' = "Idle"
      /\ exists /\ snap.status = "Running" /\ snap.enabled /\ snap.canRunGUI
      /\ vmType = "vz" /\ window \in HasSession
      => result' = "ok" ]_vars

=============================================================================
