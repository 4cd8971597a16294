CONSTANT PackageManagers <- MC_PackageManagers
CONSTANT PgrepMayHang = FALSE
CONSTANT DisplayEnvs <- MC_DisplayEnvs
SPECIFICATION Spec
INVARIANT TypeOK
INVARIANT ReportContract
PROPERTY CrashedAgentRestarted
PROPERTY PollCycleCompletes
PROPERTY ClipboardEventuallyReady
