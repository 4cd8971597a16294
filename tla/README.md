# TLA+ models of Lima's display and clipboard coordination

This directory holds TLA+ models of the display-session and clipboard-readiness
code of this Lima fork, and the TLC configurations that check them. The
sources are under `src/`. `spiceservice_linux.go` holds three Go files one
after another: `spiceservice` (lines 1-248), `store.populateGUIInfo`
(250-302) and `spiceclient` (304-534). `gui_linux.go` holds the guest `gui`
package (1-349) and the non-Linux `spiceservice` stub (351-382). The
`src/unnamed/part_*` files are the `limactl show-gui` command (`part_000`),
the VZ SPICE-agent attachment (`part_001`), the VZ display/audio proposal with
its `RunGUI` code (`part_002`) and the VZ display docs (`part_003`).

## 1. Inventory

### Components, their state and operations

| Component | Code | State | Operations |
|---|---|---|---|
| Guest clipboard readiness detector | `spiceservice_linux.go` 17-50, 90-162, 229-247 | none of its own. It reads the guest: `/dev/vport*` or `/sys/class/virtio-ports`, the package (PATH, dpkg, rpm), the daemon (systemctl, pgrep) | `DetectSpiceStatus`, `buildErrorMessage` |
| Guest clipboard supervisor | `spiceservice_linux.go` 52-88, 164-227 | the local `status`, the loop position in the package-manager table | `EnsureSpiceAgent`, `installSpiceAgent`, `startSpiceService` |
| Guest GUI info poller | `gui_linux.go` 21-349 | `info.Spice`, assembled from two detections | `DetectGUIInfo`, called once per guest-agent status poll |
| Non-Linux stub | `gui_linux.go` 351-382 | none | a fixed not-ready status and a no-op repair |
| VZ window controller | Code-Hex/vz, which is not in this repository; spec 4.5; `part_002` 295-426 | Uninitialized, Created, Visible, Hidden, Stopped, one controller per VM run | StartGraphicApplication, ShowWindow, BringWindowToFront, HasGUIWindow; the close callback also stops the VM |
| VZ driver `RunGUI` | `part_002` 360-376 | none | bring an existing window to the front, otherwise StartGraphicApplication |
| `limactl show-gui` | `part_000` 50-101 | the instance as `store.Inspect` saw it | four checks, a special case for VZ, then `driver.RunGUI` |
| Capability aggregator | `spiceservice_linux.go` 262-302 | derived: Enabled, CanRunGUI, Resolution, ClipboardShared, AudioEnabled | `populateGUIInfo` |
| VZ SPICE-agent attachment | `part_001` 16-79 | the VM configuration's console device | `attachSpiceAgent` |
| Descriptor codec and viewer resolver | `spiceservice_linux.go` 320-514 | none (pure) | `GetConnectionInfo`, `buildSpiceURI`, `buildViewerArgs`, `FindViewer`, `LaunchViewer` |
| QMP SPICE port query | `spiceservice_linux.go` 516-534 | none | dials QMP and always returns "not yet implemented" |

### How they interact

* On the host, `limactl start` creates the VM. `attachSpiceAgent` decides
  whether the guest gets a SPICE virtio port. For VZ, the host agent calls
  `RunGUI` during start to open the window. Closing that window stops the VM.
* `limactl show-gui` reads the instance (`store.Inspect`, which calls
  `populateGUIInfo`) and checks what it read. It then calls `RunGUI`, but
  only for non-VZ drivers. For QEMU, `RunGUI` calls `LaunchViewer`, which
  does not wait for the viewer to exit.
* In the guest, `DetectGUIInfo` detects the SPICE status. If the port exists
  but the clipboard is not ready, it calls `EnsureSpiceAgent`. After a repair
  that succeeds, it detects again and reports the result to the host.
* Shared state: the guest's real condition changes outside the agent's
  control. The port node can appear late. systemd can start the daemon, and
  the daemon can exit. On the host, the VM's status and window are changed by
  the user, the framework and `limactl` at the same time.

### What is hard

* **Guest, stale reads.** One poll cycle runs three detections (poll, ensure,
  re-detect) and acts on each in later steps. The reported status is copied
  from two of them, and VportExists is copied from only one.
* **Guest, fallback and failure.** The install loop continues after a failed
  install. A failed `systemctl enable` is only logged. A start that succeeds
  can still leave no daemon running.
* **Host, check then act.** `show-gui` checks a snapshot and acts later. The
  VM can stop in between, and so can the window. The VZ window can be started
  only once per run, and closing it is irreversible.
* **Timeouts.** Every probe has a 2 s timeout, except the `pgrep` fallback,
  which runs on the caller's context. Installs have 60 s and starts 10 s.
* **Package database.** `dpkg -l` exits 0 for any package the database knows,
  including one removed without purge, so "installed" can outlive the package.

### What makes each component correct

* Detector: `ClipboardReady` equals VportExists, AgentInstalled and
  AgentRunning all being true. ErrorMessage is empty exactly when ready, and
  it lists every failing check in the order port, installed, running.
* Supervisor: no side effects when ready. No install or start without a port.
  Only one package manager is tried (not the case: see spice_install_fallback). "start failed" is kept distinct from
  "started but not running". A daemon that exits is eventually restarted.
  Once the guest settles, the clipboard eventually becomes ready.
* Poller: the status it reports keeps the detector's contract.
* Window and session: StartGraphicApplication is called at most once per
  controller. `show-gui` brings a live window to the front. (That a window
  exists only while its VM runs is the library's behaviour, which the model
  takes from spec 4.5; it is not checked, because no code of this repository
  changes the window's state except through `RunGUI`.)
* Aggregator: the status agrees with what the host configured. ClipboardShared
  should imply that a port was attached, and Resolution should match the
  window's dimensions.
* Codec: unix-socket round trip, documented defaults, FormatError on a bad
  protocol token, and the viewer argument style chosen from the binary's name
  (not the case: see spice_viewer_dir).

## 2. Plan

1. `SpiceService` (done): the guest detector, supervisor and poller, run
   against an out-of-band guest environment.
2. `DisplaySession` (done): the VM run, the VZ window controller, `RunGUI`,
   `LaunchViewer` (abstracted) and `show-gui`.
3. Dropped: a refinement of `DisplaySession` to the spec 4.5 controller.
   The window steps of `DisplaySession` are the library's behaviour, taken
   from spec 4.5 itself, so the refinement held by construction; only
   `RunGUI` is code, and `AtMostOneGraphicStartPerRun` checks it.
4. `GUIInfo` (done): `populateGUIInfo`, `attachDisplay`, `attachAudio` and
   `attachSpiceAgent` over every configuration, through start and stop.
   Still to do: compose its port decision with `SpiceService`'s `vport`.
5. `SpiceClient` (done): `GetConnectionInfo`, `buildSpiceURI`,
   `buildViewerArgs`, `FindViewer` and `LaunchViewer` as operators over
   token-level display strings and paths, checked against reference
   definitions from spec 4.1 and 4.2 and the cases of `spice_test.go`.
6. `SpiceService` faults (done): a process that blocks `pgrep`, and a
   package removed without purge.
7. `GuestDisplay` (done): the display half of `DetectGUIInfo`, used by
   `SpiceService`'s `DetectGUIInfo` step.
8. `SpiceService` self-healing (done): guest conditions under which
   installs and starts succeed, and the clipboard becoming ready once they
   hold.

## 3. Modules and runs

### `SpiceService.tla` (MC: `MC_SpiceService.tla`)

Variables `vport`, `installed`, `dpkgResidue` (dpkg still lists a removed
package), `running`, `procStuck` (a process that blocks `pgrep`), `repoReachable`
(an install command of a manager on PATH succeeds), `startWorks` (the
daemon, once started, stays up) and `available` are the guest. `pc`, `status`, `info`, `pmIdx` and `installRuns`
are the poll cycle, and `report` is the last `info.Spice` returned. `pc =
"Hung"` is a cycle blocked inside `pgrep`: a detection that reaches the
fallback (`DetectHangs`, `pgrepHangs`) while `procStuck` goes there and never
leaves. `PgrepMayHang` says whether the guest may have such a process.
Actions, one per step of the code:

* `DetectGUIInfo`: gui_linux 50-62.
* `EnsureSpiceAgent`: its detection and early returns.
* `InstallSpiceAgent`: one loop iteration.
* `StartSpiceService`: enable and start.
* `VerifySpiceRunning`: the check after the settle delay.
* `RedetectAfterEnsure`: gui_linux 63-72.

The guest has five actions of its own: `PortAppears`, `AgentExits`,
`AgentStartsByItself`, `PackageRemoved` (apt-get remove or purge; the
package's prerm stops the daemon) and `GuestConditionsChange` (the network
or repository comes and goes, the unit becomes startable or not). When the
daemon cannot stay up, `systemctl start` either fails or succeeds with a
daemon that exits at once; both are in `StartSpiceService`. A detection is one atomic snapshot, and each probe
returns the truth of what it probes, because a missing tool gives false, not
an error. The error message is modelled as the sequence of its reasons.

The `~status.vport` early return of `EnsureSpiceAgent` cannot be reached from
`DetectGUIInfo`: that caller only calls after seeing a port, and a port never
disappears. It is kept for fidelity. `AfterInstall`'s branch to "Redetect"
cannot be reached for the same kind of reason.

| Run | cfg | Expect | Shows |
|---|---|---|---|
| spice_supervisor | `SpiceService.cfg` | pass (228,688 states) | `ReportContract`: the reported status keeps ready = port ∧ installed ∧ running and "message empty iff ready", although it mixes two detections. `CrashedAgentRestarted`: (port ∧ installed ∧ ¬running) leads to a start, a running daemon or a removed package. `PollCycleCompletes`: without a hanging pgrep, every started cycle returns; a verify step that retries start instead of returning breaks it. `ClipboardEventuallyReady`: if the guest eventually settles (port present, a manager on PATH, repository reachable, daemon startable, no dpkg residue) and stops changing, a later cycle reports the clipboard ready. It needs detect, ensure, install, start, verify and re-detect over one or more cycles; a start that only runs `systemctl enable` breaks it. |
| spice_install_fallback | `SpiceService_install.cfg` | violation | with apt-get and dnf available and apt-get failing, dnf's install runs too (spec 4.4 says the first manager only). |
| spice_reason_order | `SpiceService_reason.cfg` | violation | no package means the daemon is never probed, so the message omits "not running" (spec 3, 8.9). |
| spice_probe_hang | `SpiceService_hang.cfg` | violation | every detection that finds the package listed and the daemon not active falls back to `pgrep`, which has no timeout. TLC's trace is the shortest: a guest with the port, a package removed without purge (dpkg still lists it) and a process that blocks `/proc` reads; the cycle's first `DetectSpiceStatus` never returns (spec 4.4 and 5 ask for a short timeout on every probe). `VerifySpiceRunning` after a failed start reaches the same fallback. `CHECK_DEADLOCK FALSE`: the hung cycle is the point. |
| spice_stale_dpkg | `SpiceService_residue.cfg` | violation | after `apt-get remove`, `dpkg -l` still lists the package, so every cycle goes Ensure, Start, fail and never installs again (spec 4.3 counts only a package reported present). |

Bounds: the real five-entry package-manager table. Every subset of it may be
on PATH, and every initial guest state is possible. No counter is unbounded,
because the loop index is bounded by the table.

Fairness: weak fairness on the cycle's own steps (`Agent`). The guest agent
polls forever and every subprocess it runs has a timeout, except `pgrep`,
whose hang is a state with no successor, not an unfair step. The guest's own actions are not fair.
`ClipboardEventuallyReady` does not ask for fairness of the guest. It
assumes that the guest settles, `<>[]GuestSettled /\ <>[][~Environment]_vars`,
because no agent can install a package while the repository stays
unreachable, or keep up a daemon that keeps being killed.

### `GuestDisplay.tla` (used by `SpiceService`)

Operators, one per function of `gui_linux.go` 78-349, over a guest display
environment: the agent's `DISPLAY`, `WAYLAND_DISPLAY` and
`XDG_SESSION_TYPE`, the entries of `/tmp/.X11-unix`, the X displays whose
server accepts the agent, whether the compositor answers `wlr-randr`, and
the tools installed. `DetectDisplay` is `DetectGUIInfo` 22-48: Wayland
before X11, and resolution and idle time only for an active session. Each
tool chain (xrandr then xdpyinfo, wlr-randr then swaymsg, xprintidle then
xssstate) gives the first answer; a tool's output parsing is abstracted to
"answers or not", and swaymsg never answers because its parser returns "".
`SpiceService` keeps the environment in `guestEnv`, chosen at Init from
`DisplayEnvs` and never changed, and `DetectGUIInfo` sets `display` from it.
The pass runs use two environments (a system-service agent that sees X0
only through the socket directory, and a guest with no GUI). The display
run uses all 384 environments of one X server and one Wayland socket.

| Run | cfg | Expect | Shows |
|---|---|---|---|
| guest_display_resolution | `SpiceService_display.cfg` | violation | With `DISPLAY` unset, `X0` in `/tmp/.X11-unix` and xrandr installed, the info says X11, `:0`, active, and an empty resolution: every X tool gets the agent's own empty `DISPLAY`, never the display that was found. |

### `DisplaySession.tla` (MC: `MC_DisplaySession.tla`)

The variables are:

* the instance configuration, chosen at Init: `vmType`, `enabled`,
  `canRunGUI`, `exists`;
* `vmStatus`;
* `window`, the controller of the current run (spec 4.5);
* `graphicStarts`, the number of StartGraphicApplication calls in this run;
* `viewer`;
* `cmd`, `snap` and `result` of `show-gui`.

`StartVM`, `RunGUIAtStart`, `StopVM`, `ShowWindow`, `MinimizeWindow` and
`CloseWindow` are modelled from the spec, because the host agent and the vz
library are not in this repository. `RunGUI` follows `part_002` 362-376.
`ShowGUIInspect`, `ShowGUICheck` and `ShowGUIRun` follow `part_000`.
`MaxGraphicStarts = 2` leaves room for exactly the second call that
`AtMostOneGraphicStartPerRun` forbids.

| Run | cfg | Expect | Shows |
|---|---|---|---|
| display_session | `DisplaySession.cfg` | pass (273 states) | `AtMostOneGraphicStartPerRun` holds. The mutant that drops show-gui's VZ special case, which is the obvious way to implement spec 6, breaks it: show-gui sees the VM Running, the user closes the window, and RunGUI then calls StartGraphicApplication a second time. |
| showgui_foreground | `DisplaySession_showgui.cfg` | violation | show-gui returns "cannot be reopened" for a VZ instance whose window is open. |

Fairness: none. Only safety is checked in this module.

### `SpiceClient.tla` (MC: `MC_SpiceClient.tla`)

The package keeps no state, so the module is a set of operators, one per Go
function, and a single action, `RunGUIQemu`. That action is the QEMU driver's
`RunGUI`, which is not in this repository: it parses the instance's display
string, sets `Audio` from the configuration and calls `LaunchViewer`. The
variables are the inputs, chosen at Init, and `outcome`, which records what
the call returned and how far it got.

Strings are abstracted to tokens:

* A display string is a head and up to `MaxOpts` options. The head is the
  first comma-separated token, or the unix form with its remainder.
* An option is `[key, val]`. `NoEq` marks an option without "=".
* `UnixPath` is the sequence of raw parts after the prefix, because the Go code
  keeps everything after "spice+unix://", commas included.
* A path is `[dir, name]`, as `exec.LookPath` returns it. `Markers` gives the
  substrings each token contains, which models `strings.Contains` on the
  lowercased path.
* The URI and the argument vector are records of the values they carry.

`SpecConnection`, `ViewerFamily`, `Expressible` and `SpecArgs` are
reference definitions written from spec 4.1 and 4.2. They take the last
occurrence of a key with `SelectLastInSeq`, where the code folds over the
parts.

| Run | cfg | Expect | Shows |
|---|---|---|---|
| spice_client | `SpiceClient.cfg` | pass (29,386 states) | Over 285 display strings, both audio settings and every PATH content of darwin, linux, windows and an unsupported OS: `ParseMatchesSpec` (the parser gives spec 4.1's Connection; "vnc" is a FormatError), `LaunchArgsMatchConnection` (the started viewer gets spec 4.2's arguments for its family, and spicy is never started for a unix socket). |
| spice_viewer_dir | `SpiceClient_viewerdir.cfg` | violation | With remote-viewer absent and spicy in `/opt/virt-viewer/bin`, `buildViewerArgs` finds "virt-viewer" in the lowercased full path and starts spicy with a `spice://` URI and `--full-screen`; spec 4.1 chooses the argument shape from the binary's name. |

Bounds: the options are both values of each recognised key (empty included),
an unknown key and a bare word. Two options are enough for a key to override
another and for an unknown key to sit between them. The tokens are those of
`spice_test.go`. The pass run installs viewers in `/usr/bin` only; the
violation run adds `/opt/virt-viewer/bin`, a directory whose name contains a
viewer marker.

### `GUIInfo.tla` (MC: `MC_GUIInfo.tla`)

The variables are:

* `cfg`, the instance configuration. A Go pointer is a sequence of length 0
  or 1.
* `driverCan`, the driver's CanRunGUI, or `<<>>` when creating the driver
  fails.
* `spiceLib`, whether the host's vz library supports the SPICE agent.
* `vmStatus`.
* `vm`, the running machine's scanout, sound streams and clipboard port.
* `window`, the size the VZ window was created at, `<<>>` before `RunGUI`
  and after stop.

`StartVM` builds `vm` with `attachDisplay`, `attachAudio` and
`attachSpiceAgent`, and fails on an error of the first two. `StopVM` clears
it. `RunGUI` is the proposal's sizing (part_002 160-176): with canRunGUI,
`StartGraphicApplication` at the configured width and height, each with its
own default. Both `StartVM` and `StopVM` are modelled from the driver's lifecycle, which is not in this
repository. `populateGUIInfo` is an operator of the state, because
`store.Inspect` recomputes it on every command. `CHECK_DEADLOCK FALSE`: an
instance whose configuration VZ rejects never starts, and then nothing is left
to do.

| Run | cfg | Expect | Shows |
|---|---|---|---|
| gui_info | `GUIInfo.cfg` | pass (40,824 states) | `DisplayEnabledMeansScanout`: the status and attachDisplay agree on which display values give a window. `WindowOpensAtScanoutSize`: the proposal's RunGUI opens the window at the scanout's size, although it repeats attachDisplay's defaults for an unset width or height instead of reading them; a default height of 1080 breaks it. |
| gui_info_resolution | `GUIInfo_resolution.cfg` | violation | With only `height` set, the status says 1920x1200 and the scanout is 1920 by the configured height. |

Bounds: every combination of four display values, one non-default size,
unset or set width and height, a tri-state clipboard setting, four audio
devices and tri-state stream switches.

## 4. Not modelled, and why

* The output parsing of xrandr, xdpyinfo, wlr-randr, xprintidle and xssstate
  is abstracted to "answers or not". A tool's output format is not a
  property of this code.
* The non-Linux stub (`gui_linux.go` 351-382) returns one constant status
  and a no-op `EnsureSpiceAgent`. Its only caller, `DetectGUIInfo`, is built
for Linux only, so nothing drives it. Nothing changes state, and the constant
  satisfies `ReportContract` by inspection.
* `QuerySPICEPort` is an unimplemented stub that nothing calls.
* `spice-app` and other `spice`-prefixed display values are accepted by
  `GetConnectionInfo`. The repository documents `spice-app,gl=on` as a
  supported display (part_003, `spiceclient/README.md`), so this is not
  treated as a divergence.
* The host and the guest are not composed. `attachSpiceAgent`'s port
  decision reaches the guest only as the virtio-serial device, which is
  `SpiceService`'s `vport`, set by `PortAppears`. The guest reads nothing
  else from the host, so a composed module would only join two state
  spaces.
* Bash completion and cobra wiring are out of scope (spec 1).
* Time: the settle delay and the timeouts are not modelled. A probe with a
  timeout returns; the one without (`pgrep`) is modelled as a hang.
* Four divergences were seen while modelling but have no run. The project is
  kept to twelve runs, and these are the least likely to matter in practice:
  * The implicit `ClipboardShared` default does not look at the driver, so a
    QEMU instance with display `default` is reported as sharing (spec 4.6
    says VZ only).
  * `disableClipboard: false` with display none is reported as shared, but
    `attachSpiceAgent` attaches no port (spec 4.6 lets the explicit setting
    win, so this is a weak disagreement).
  * `spice,port=` with only spicy installed starts spicy with an empty port,
    and `spice+unix://` starts it with an empty host and port, although spec
    3 asks for exactly one meaningful transport. The parse itself follows
    spec 4.1, so this is a gap between two parts of the spec.
  * `populateGUIInfo` reports audio for `outputEnabled: false` (no input)
    and for `device: ""`, where `attachAudio` gives the machine no sound
    stream.
* Concurrent `EnsureSpiceAgent` calls: the spec leaves serialization to the
  caller, and the caller loop is not in this repository.
