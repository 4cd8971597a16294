------------------------------ MODULE GUIInfo ------------------------------
(***************************************************************************)
(* Two readers of one instance configuration.  store.populateGUIInfo      *)
(* derives the GUI status `limactl list/show-gui` reports (Enabled,       *)
(* CanRunGUI, Resolution, ClipboardShared, AudioEnabled); the VZ driver   *)
(* builds the virtual machine from the same configuration with            *)
(* attachDisplay, attachAudio and attachSpiceAgent, and RunGUI opens its  *)
(* window.  The model runs the instance through start, RunGUI and stop    *)
(* and compares what the status says, and the window's size, with the     *)
(* devices the running machine has.                                       *)
(*                                                                         *)
(* A Go pointer field is a sequence of length 0 (nil) or 1 (p[1] is *p).      *)
(***************************************************************************)
EXTENDS Naturals, Sequences

CONSTANTS
  Displays,       \* values of video.display
  Sizes,          \* values of video.vz.width and video.vz.height
  AudioDevices    \* values of audio.device

VARIABLES
  cfg,            \* the instance configuration
  driverCan,      \* the driver's Info().Features.CanRunGUI, <<>> when
                  \* CreateConfiguredDriver fails
  spiceLib,       \* vz.SpiceAgentPortAttachmentName works on this host
  vmStatus,       \* "Running" or "Stopped"
  vm,             \* the devices of the running VZ machine
  window          \* the size the VZ window was created at, <<>> for none

vars == <<cfg, driverCan, spiceLib, vmStatus, vm, window>>

Ptr(S) == {<<>>} \cup {<<x>> : x \in S}
Deref(p, dflt) == IF p = <<>> THEN dflt ELSE p[1]

Configs ==
  [vmType : {"vz", "qemu"}, display : Displays,
   width : Ptr(Sizes), height : Ptr(Sizes),
   disableClipboard : Ptr(BOOLEAN),
   audioDevice : AudioDevices,
   inputEnabled : Ptr(BOOLEAN), outputEnabled : Ptr(BOOLEAN)]

NoVM == [scanout |-> <<>>, soundStreams |-> {}, spicePort |-> FALSE]

DefaultWidth == 1920
DefaultHeight == 1200

(***************************************************************************)
(* store.populateGUIInfo                                                  *)
(***************************************************************************)
populateGUIInfo(c, status, drv) ==
  LET enabled == c.display # "none"
  IN [Display  |-> c.display,
      Enabled  |-> enabled,
      CanRunGUI |-> status \in {"Running", "Stopped"} /\ Deref(drv, FALSE),
      Resolution |->
        IF c.width # <<>> /\ c.height # <<>>
          THEN <<[w |-> c.width[1], h |-> c.height[1]]>>
        ELSE IF c.display \in {"vz", "default"}
          THEN <<[w |-> DefaultWidth, h |-> DefaultHeight]>>
        ELSE <<>>,
      ClipboardShared |->
        IF c.disableClipboard # <<>>
          THEN ~c.disableClipboard[1]
          ELSE enabled /\ c.display \in {"vz", "default"},
      AudioEnabled |-> c.audioDevice # "none"]

(***************************************************************************)
(* The VZ machine configuration.  Each returns [err, ...]; an error fails *)
(* the start.                                                              *)
(***************************************************************************)
\* Mutant: "default" is grouped with "none" and gets no graphics device.
attachDisplayDefaultAsNone(c) ==
  CASE c.display = "vz"
         -> [err |-> FALSE,
             scanout |-> <<[w |-> Deref(c.width, DefaultWidth),
                            h |-> Deref(c.height, DefaultHeight)]>>]
    [] c.display \in {"none", "default"} -> [err |-> FALSE, scanout |-> <<>>]
    [] OTHER                              -> [err |-> TRUE, scanout |-> <<>>]

attachDisplay(c) ==
  CASE c.display \in {"vz", "default"}
         -> [err |-> FALSE,
             scanout |-> <<[w |-> Deref(c.width, DefaultWidth),
                            h |-> Deref(c.height, DefaultHeight)]>>]
    [] c.display = "none" -> [err |-> FALSE, scanout |-> <<>>]
    [] OTHER              -> [err |-> TRUE, scanout |-> <<>>]

attachAudio(c) ==
  CASE c.audioDevice \in {"vz", "default"}
         -> [err |-> FALSE,
             streams |-> {s \in {"output", "input"} :
                            IF s = "output" THEN Deref(c.outputEnabled, TRUE)
                                            ELSE Deref(c.inputEnabled, FALSE)}]
    [] c.audioDevice \in {"", "none"} -> [err |-> FALSE, streams |-> {}]
    [] OTHER                          -> [err |-> TRUE, streams |-> {}]

\* Every failure after the display check is logged and leaves the machine
\* without the port; the function never returns an error.
attachSpiceAgent(c, lib) ==
  /\ c.display # "none"
  /\ Deref(c.disableClipboard, FALSE) = FALSE
  /\ lib

Running(t) == cfg.vmType = t /\ vmStatus = "Running"

(***************************************************************************)
(* The instance lifecycle.                                                 *)
(***************************************************************************)
\* limactl start.  VZ builds the machine from the configuration; an error
\* of attachDisplay or attachAudio fails the start.  QEMU's machine is not
\* part of this model.
StartVM ==
  /\ vmStatus = "Stopped"
  /\ IF cfg.vmType = "vz"
       THEN LET d == attachDisplay(cfg)
                a == attachAudio(cfg)
            IN /\ ~d.err /\ ~a.err
               /\ vm' = [scanout |-> d.scanout, soundStreams |-> a.streams,
                         spicePort |-> attachSpiceAgent(cfg, spiceLib)]
       ELSE vm' = NoVM
  /\ vmStatus' = "Running"
  /\ UNCHANGED <<cfg, driverCan, spiceLib, window>>

StopVM ==
  /\ vmStatus = "Running"
  /\ vmStatus' = "Stopped"
  /\ vm' = NoVM
  /\ window' = <<>>
  /\ UNCHANGED <<cfg, driverCan, spiceLib>>

\* Mutant: the window's default height is the common 1080.
RunGUIDefault1080 ==
  /\ Running("vz") /\ window = <<>> /\ Deref(driverCan, TRUE)
  /\ window' = <<[w |-> Deref(cfg.width, DefaultWidth),
                  h |-> Deref(cfg.height, 1080)]>>
  /\ UNCHANGED <<cfg, driverCan, spiceLib, vmStatus, vm>>

\* The proposal's RunGUI: when canRunGUI, StartGraphicApplication with
\* video.vz.width and height, each defaulting to 1920 and 1200 on its own;
\* otherwise an error.  A second call fails inside the library and creates
\* nothing.  The host agent's canRunGUI is the capability the CLI reads
\* through Info(); when the CLI cannot create the driver it is unknown.
RunGUI ==
  /\ Running("vz") /\ window = <<>> /\ Deref(driverCan, TRUE)
  /\ window' = <<[w |-> Deref(cfg.width, DefaultWidth),
                  h |-> Deref(cfg.height, DefaultHeight)]>>
  /\ UNCHANGED <<cfg, driverCan, spiceLib, vmStatus, vm>>

Init ==
  /\ cfg \in Configs
  /\ driverCan \in Ptr(BOOLEAN)
  /\ spiceLib \in BOOLEAN
  /\ vmStatus = "Stopped"
  /\ vm = NoVM
  /\ window = <<>>

Next == StartVM \/ StopVM \/ RunGUI

Spec == Init /\ [][Next]_vars

GUI == populateGUIInfo(cfg, vmStatus, driverCan)

(***************************************************************************)
(* Properties                                                             *)
(***************************************************************************)
\* While a VZ instance runs, the status says the display is enabled exactly
\* when attachDisplay gave the machine a graphics scanout: the two readers
\* of video.display agree on which values mean a window.
DisplayEnabledMeansScanout ==
  Running("vz") => (GUI.Enabled <=> vm.scanout # <<>>)

\* While a VZ instance runs with a display, the reported Resolution is the
\* size of the scanout attachDisplay created (the size the window opens at).
ResolutionIsScanoutSize ==
  Running("vz") /\ vm.scanout # <<>> => GUI.Resolution = vm.scanout

\* Spec 4.5: the session is constructed "with the configured (or default)
\* dimensions".  RunGUI and attachDisplay each fill in the defaults for an
\* unset width or height; the window must open at the size of the scanout
\* the machine was built with, or the guest's framebuffer is scaled.
WindowOpensAtScanoutSize ==
  window # <<>> /\ vm.scanout # <<>> => window = vm.scanout

====
