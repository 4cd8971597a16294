--------------------------- MODULE SpiceService ---------------------------
(***************************************************************************)
(* The guest-side SPICE clipboard readiness detector and self-healing     *)
(* supervisor (pkg/guestagent/spiceservice, Linux build), driven by one   *)
(* status-poll cycle of DetectGUIInfo (pkg/guestagent/gui).               *)
(*                                                                         *)
(* The guest's real condition (virtio port present, package installed,    *)
(* daemon running) is shared state that changes out-of-band: the port     *)
(* node can appear late (udev) and the daemon can exit at any time.  The  *)
(* poll cycle reads it in several separate detections and acts on what    *)
(* it read, one subprocess per step.                                      *)
(***************************************************************************)
EXTENDS Naturals, Sequences, FiniteSets, GuestDisplay

CONSTANTS
  PackageManagers,  \* the ordered packageManagers table of installSpiceAgent
  PgrepMayHang,     \* the guest can have a process that blocks pgrep
  DisplayEnvs       \* the guest display environments (see GuestDisplay)

ASSUME PackageManagers \in Seq(STRING) /\ Len(PackageManagers) > 0
ASSUME PgrepMayHang \in BOOLEAN

VARIABLES
  vport,        \* the guest has /dev/vport* or /sys/class/virtio-ports/*
  installed,    \* the spice-vdagent package is installed
  dpkgResidue,  \* dpkg still lists the removed package ("rc": config kept)
  running,      \* spice-vdagentd is running
  procStuck,    \* a process whose /proc entry blocks the reader (D state)
  repoReachable,\* package installs can download (network, repository)
  startWorks,   \* systemctl start brings the daemon up and it stays up
  available,    \* package managers whose executable exec.LookPath finds
  guestEnv,     \* the guest's display environment, in DisplayEnvs
  pc,           \* where the poll cycle is; "Hung" is blocked in a probe
  status,       \* EnsureSpiceAgent's local status
  info,         \* DetectGUIInfo's info.Spice being assembled
  display,      \* the display fields of DetectGUIInfo's info
  report,       \* info.Spice of the last completed DetectGUIInfo
  pmIdx,        \* loop index into PackageManagers in installSpiceAgent
  installRuns   \* install commands run in the current EnsureSpiceAgent

vars == <<vport, installed, dpkgResidue, running, procStuck, repoReachable,
          startWorks, available, guestEnv, pc, status, info, display, report, pmIdx, installRuns>>

envVars == <<vport, installed, dpkgResidue, running, procStuck, repoReachable,
             startWorks, available, guestEnv>>

Reasons == {"NoPort", "NotInstalled", "NotRunning"}

\* SpiceStatus; the ErrorMessage string is the sequence of reasons it joins.
Status == [vport : BOOLEAN, installed : BOOLEAN, running : BOOLEAN,
           ready : BOOLEAN, reason : Seq(Reasons)]

NoReport == [none |-> TRUE]   \* no DetectGUIInfo has returned yet

(***************************************************************************)
(* Probes.  Each returns false instead of an error when its tool is       *)
(* absent or times out.                                                   *)
(***************************************************************************)
checkVirtioPort == vport

\* The binary on PATH, else "dpkg -l spice-vdagent", else "rpm -q".  dpkg -l
\* exits 0 for every package its database knows, a removed one included.
checkSpiceInstalled == installed \/ dpkgResidue

\* systemctl is-active (2 s timeout), else pgrep -x on the caller's context
\* with no timeout of its own.  pgrep reads every /proc/<pid>/cmdline and
\* blocks on a stuck process; it is reached only when systemd does not say
\* active.
checkSpiceRunning == running

pgrepHangs == procStuck /\ ~running

\* DetectSpiceStatus probes the daemon only when the package is found.
DetectHangs == checkSpiceInstalled /\ pgrepHangs

\* buildErrorMessage: the reasons, in the fixed order port, install, run.
buildErrorMessage(s) ==
  (IF ~s.vport THEN <<"NoPort">> ELSE <<>>)
  \o (IF ~s.installed THEN <<"NotInstalled">> ELSE <<>>)
  \o (IF s.installed /\ ~s.running THEN <<"NotRunning">> ELSE <<>>)

\* DetectSpiceStatus, when it returns.
DetectSpiceStatus ==
  LET inst  == checkSpiceInstalled
      run   == inst /\ checkSpiceRunning
      ready == checkVirtioPort /\ inst /\ run
      s     == [vport |-> checkVirtioPort, installed |-> inst,
                running |-> run, ready |-> ready, reason |-> <<>>]
  IN  IF ready THEN s ELSE [s EXCEPT !.reason = buildErrorMessage(s)]

\* DetectGUIInfo returns info: the cycle ends and its info is published.
Return == /\ report' = info'
          /\ pc' = "Idle"

\* The cycle blocks inside a probe and never comes back.
Hang == pc' = "Hung" /\ UNCHANGED report

(***************************************************************************)
(* One DetectGUIInfo cycle.                                               *)
(***************************************************************************)
\* DetectGUIInfo's first detection; EnsureSpiceAgent is called when it
\* found the port and the status field named flag false.
DetectThenEnsureIf(flag) ==
  /\ pc = "Idle"
  /\ display' = DetectDisplay(guestEnv)
  /\ info' = DetectSpiceStatus
  /\ CASE DetectHangs                   -> Hang
       [] info'.vport /\ ~info'[flag] -> pc' = "Ensure" /\ UNCHANGED report
       [] OTHER                         -> Return
  /\ UNCHANGED <<envVars, status, pmIdx, installRuns>>

\* Mutant: auto-enable only when the package is missing.
DetectGUIInfoOnlyWhenMissing == DetectThenEnsureIf("installed")

\* Call EnsureSpiceAgent only if the port exists and the agent is not ready.
DetectGUIInfo == DetectThenEnsureIf("ready")

\* EnsureSpiceAgent's own detection and its early returns: install when
\* the package is missing, from package manager firstIdx.  A returned
\* error is logged by DetectGUIInfo, which keeps the first detection.
EnsureWith(firstIdx) ==
  /\ pc = "Ensure"
  /\ status' = DetectSpiceStatus
  /\ installRuns' = 0
  /\ UNCHANGED <<envVars, info, display>>
  /\ CASE DetectHangs           -> Hang /\ UNCHANGED pmIdx
       [] status'.ready         -> pc' = "Redetect" /\ UNCHANGED <<report, pmIdx>>
       [] ~status'.vport        -> Return /\ UNCHANGED pmIdx
       [] ~status'.installed    -> pc' = "Install" /\ pmIdx' = firstIdx
                                   /\ UNCHANGED report
       [] OTHER                 -> pc' = "Start" /\ UNCHANGED <<report, pmIdx>>

\* Mutant: the package-manager loop index starts one too low.
EnsureSpiceAgentIndexFromZero == EnsureWith(0)

EnsureSpiceAgent == EnsureWith(1)

\* After a successful install, start the service unless status says running.
AfterInstall == IF status'.running THEN "Redetect" ELSE "Start"

\* One iteration of installSpiceAgent's loop over the package managers:
\* skip a manager that is not on PATH, run its install command otherwise
\* (it succeeds when the repository is reachable), and on failure go on to
\* the next one.
InstallSpiceAgent ==
  /\ pc = "Install"
  /\ UNCHANGED <<info, display>>
  /\ \/ /\ pmIdx > Len(PackageManagers)
        /\ Return
        /\ UNCHANGED <<envVars, status, pmIdx, installRuns>>
     \/ /\ pmIdx <= Len(PackageManagers)
        /\ PackageManagers[pmIdx] \notin available
        /\ pmIdx' = pmIdx + 1
        /\ UNCHANGED <<envVars, pc, status, report, installRuns>>
     \/ /\ pmIdx <= Len(PackageManagers)
        /\ PackageManagers[pmIdx] \in available
        /\ installRuns' = installRuns + 1
        /\ IF ~repoReachable
             THEN /\ pmIdx' = pmIdx + 1
                  /\ UNCHANGED <<envVars, pc, status, report>>
             ELSE /\ installed' = TRUE
                  /\ dpkgResidue' = FALSE
                  \* a package's post-install script may start the daemon
                  /\ running' \in {FALSE, startWorks}
                  /\ status' = [status EXCEPT !.installed = TRUE]
                  /\ pc' = AfterInstall
                  /\ UNCHANGED <<vport, procStuck, repoReachable, startWorks,
                                 available, guestEnv, report, pmIdx>>

StartUnchanged == UNCHANGED <<vport, installed, dpkgResidue, procStuck,
                               repoReachable, startWorks, available, guestEnv,
                               status, info, display, pmIdx, installRuns>>

\* Mutant: only systemctl enable is run; the daemon waits for the next boot.
StartSpiceServiceEnableOnly ==
  /\ pc = "Start" /\ StartUnchanged
  /\ pc' = "Verify" /\ UNCHANGED <<running, report>>

\* startSpiceService: systemctl enable (its failure is only logged), then
\* systemctl start; a failed start is returned.  The start fails when the
\* package and its unit are gone.  When the daemon cannot stay up, the
\* start command fails or succeeds with a daemon that exits at once.
StartSpiceService ==
  /\ pc = "Start" /\ StartUnchanged
  /\ \/ /\ ~(installed /\ startWorks)
        /\ Return /\ UNCHANGED running
     \/ /\ installed
        /\ running' = startWorks
        /\ pc' = "Verify"
        /\ UNCHANGED report

\* Mutant: a daemon not seen running is started again, with no bound.
VerifySpiceRunningRetries ==
  /\ pc = "Verify"
  /\ UNCHANGED <<envVars, status, info, display, pmIdx, installRuns>>
  /\ CASE pgrepHangs        -> Hang
       [] checkSpiceRunning -> pc' = "Redetect" /\ UNCHANGED report
       [] OTHER             -> pc' = "Start" /\ UNCHANGED report

\* After the settle delay: "service started but not running" unless the
\* daemon is seen running.
VerifySpiceRunning ==
  /\ pc = "Verify"
  /\ UNCHANGED <<envVars, status, info, display, pmIdx, installRuns>>
  /\ CASE pgrepHangs        -> Hang
       [] checkSpiceRunning -> pc' = "Redetect" /\ UNCHANGED report
       [] OTHER             -> Return

\* EnsureSpiceAgent returned nil: detect again and copy every field but
\* VportExists (and ErrorMessage only when copyReason) into info.Spice.
RedetectWith(copyReason) ==
  /\ pc = "Redetect"
  /\ UNCHANGED display
  /\ IF DetectHangs
       THEN Hang /\ UNCHANGED info
       ELSE LET s == DetectSpiceStatus
            IN  /\ info' = [info EXCEPT !.installed = s.installed,
                                        !.running   = s.running,
                                        !.ready     = s.ready,
                                        !.reason    = IF copyReason THEN s.reason
                                                                    ELSE @]
                /\ Return
  /\ UNCHANGED <<envVars, status, pmIdx, installRuns>>

\* Mutant: the re-detection does not copy ErrorMessage.
RedetectKeepsOldMessage == RedetectWith(FALSE)

RedetectAfterEnsure == RedetectWith(TRUE)

(***************************************************************************)
(* The guest, out-of-band.                                                *)
(***************************************************************************)
PortAppears == /\ ~vport
               /\ vport' = TRUE
               /\ UNCHANGED <<installed, dpkgResidue, running, repoReachable,
                              startWorks>>

AgentExits == /\ running
              /\ running' = FALSE
              /\ UNCHANGED <<vport, installed, dpkgResidue, repoReachable,
                             startWorks>>

\* systemd starts the daemon by itself (the package's udev rule or the
\* enabled unit) once the package and the port are both there.
AgentStartsByItself == /\ installed /\ vport /\ ~running /\ startWorks
                       /\ running' = TRUE
                       /\ UNCHANGED <<vport, installed, dpkgResidue,
                                      repoReachable, startWorks>>

\* The network or the repository comes and goes; the unit becomes startable
\* or not (masked, a missing dependency, a broken configuration).
GuestConditionsChange ==
  /\ \/ repoReachable' = ~repoReachable /\ UNCHANGED startWorks
     \/ startWorks' = ~startWorks /\ UNCHANGED repoReachable
  /\ UNCHANGED <<vport, installed, dpkgResidue, running>>

\* An administrator removes the package (apt-get remove keeps its dpkg
\* entry, purge or rpm -e do not); its prerm script stops the daemon.
PackageRemoved == /\ installed
                  /\ installed' = FALSE
                  /\ dpkgResidue' \in BOOLEAN
                  /\ running' = FALSE
                  /\ UNCHANGED <<vport, repoReachable, startWorks>>

Environment == (PortAppears \/ AgentExits \/ AgentStartsByItself \/ PackageRemoved
                \/ GuestConditionsChange)
               /\ UNCHANGED <<procStuck, available, guestEnv, pc, status, info,
                              display, report, pmIdx, installRuns>>

Init ==
  /\ vport \in BOOLEAN
  /\ installed \in BOOLEAN
  /\ dpkgResidue \in IF installed THEN {FALSE} ELSE BOOLEAN
  /\ procStuck \in IF PgrepMayHang THEN BOOLEAN ELSE {FALSE}
  /\ repoReachable \in BOOLEAN
  /\ startWorks \in BOOLEAN
  /\ running \in IF installed /\ startWorks THEN BOOLEAN ELSE {FALSE}
  /\ guestEnv \in DisplayEnvs
  /\ available \in SUBSET {PackageManagers[i] : i \in 1..Len(PackageManagers)}
  /\ pc = "Idle"
  /\ status = [vport |-> FALSE, installed |-> FALSE, running |-> FALSE,
               ready |-> FALSE, reason |-> <<>>]
  /\ info = status
  /\ display = NoReport
  /\ report = NoReport
  /\ pmIdx = 1
  /\ installRuns = 0

Agent == \/ DetectGUIInfo \/ EnsureSpiceAgent \/ InstallSpiceAgent
         \/ StartSpiceService \/ VerifySpiceRunning \/ RedetectAfterEnsure

Next == Agent \/ Environment

\* The guest agent polls forever and every step but pgrep has a timeout, so
\* the cycle's own steps are weakly fair; the guest is not.
Spec == Init /\ [][Next]_vars /\ WF_vars(Agent)

(***************************************************************************)
(* Properties                                                             *)
(***************************************************************************)
TypeOK ==
  /\ vport \in BOOLEAN /\ installed \in BOOLEAN /\ running \in BOOLEAN
  /\ dpkgResidue \in BOOLEAN /\ procStuck \in BOOLEAN
  /\ repoReachable \in BOOLEAN /\ startWorks \in BOOLEAN
  /\ available \subseteq {PackageManagers[i] : i \in 1..Len(PackageManagers)}
  /\ pc \in {"Idle", "Ensure", "Install", "Start", "Verify", "Redetect",
         "Hung"}
  /\ status \in Status /\ info \in Status
  /\ report \in Status \cup {NoReport}
  /\ guestEnv \in DisplayEnvs
  /\ display \in {DetectDisplay(guestEnv), NoReport}
  /\ pmIdx \in 1..Len(PackageManagers) + 1
  /\ installRuns \in 0..Len(PackageManagers)

\* The status reported to the host (SpiceAgentInfo) keeps its contract:
\* ClipboardReady is exactly VportExists /\ AgentInstalled /\ AgentRunning
\* and ErrorMessage is empty exactly when ClipboardReady, although
\* DetectGUIInfo assembles it from two detections and copies only some
\* fields of the second one.
ReportContract ==
  report # NoReport =>
    /\ report.ready = (report.vport /\ report.installed /\ report.running)
    /\ (report.reason = <<>>) = report.ready

\* A daemon that exits while the port exists and the package is installed
\* is started again by a later poll cycle (DetectGUIInfo's auto-enable),
\* unless the package is removed first.
CrashedAgentRestarted ==
  (vport /\ installed /\ ~running) ~> (running \/ ~installed \/ pc = "Start")

\* Spec 4.4 and 5: every probe has its own short timeout, so a poll cycle
\* that DetectGUIInfo has started always returns its info to the caller,
\* through every install, start and verify step of EnsureSpiceAgent.
PollCycleCompletes == pc # "Idle" ~> pc = "Idle"

\* Spec 4.4, self-healing: once the guest settles with the port present, a
\* package manager on PATH, its repository reachable, the daemon startable
\* and no removed package left in dpkg, and nothing in the guest changes any
\* more, a later poll cycle reports the clipboard ready.  It takes detect,
\* ensure, install, start, verify and re-detect, over one or more cycles.
GuestSettled ==
  vport /\ available # {} /\ repoReachable /\ startWorks /\ ~dpkgResidue

ClipboardEventuallyReady ==
  (<>[]GuestSettled /\ <>[][~Environment]_vars)
    => <>(report # NoReport /\ report.ready)

\* Spec 4.3 and 4.4: "installed" means a package database reports the
\* package present, and a guest with a port whose agent package is
\* missing gets an install attempt from a later poll cycle.
RemovedAgentReinstalled == (vport /\ ~installed) ~> (installed \/ pc = "Install")

\* The X11 tools are asked about the session DetectGUIInfo found
\* (getResolution "gets the current display resolution"): a returned info
\* that lists an X11 display whose server accepts the agent, on a guest
\* with xrandr, carries that display's resolution.
ActiveX11SessionHasResolution ==
  /\ pc = "Idle" /\ report # NoReport
  /\ display.DisplayServer = "X11" /\ "xrandr" \in guestEnv.tools
  /\ \E i \in DOMAIN display.Displays : display.Displays[i] \in guestEnv.liveX
  => display.Resolution # ""

\* Spec 4.4: the first package manager found on PATH is used exclusively;
\* if its install fails the error is surfaced, no other is tried.
InstallUsesFirstManagerOnly == installRuns <= 1

\* Spec 3 and 8.9: the reason enumerates every failing sub-condition of
\* the status, in the order port, installed, running.
FailingChecks(r) ==
  (IF ~r.vport THEN <<"NoPort">> ELSE <<>>)
  \o (IF ~r.installed THEN <<"NotInstalled">> ELSE <<>>)
  \o (IF ~r.running THEN <<"NotRunning">> ELSE <<>>)

ReasonListsEveryFailure == report # NoReport => report.reason = FailingChecks(report)

=============================================================================
