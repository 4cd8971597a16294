CONSTANT PackageManagers <- MC_PackageManagers
CONSTANT PgrepMayHang = TRUE
CONSTANT DisplayEnvs <- MC_DisplayEnvs
SPECIFICATION Spec
\* A cycle blocked in pgrep takes no further step; the property, not the
\* deadlock, is what is checked.
CHECK_DEADLOCK FALSE
PROPERTY PollCycleCompletes
