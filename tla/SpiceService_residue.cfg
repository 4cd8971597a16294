CONSTANT PackageManagers <- MC_PackageManagers
CONSTANT PgrepMayHang = FALSE
CONSTANT DisplayEnvs <- MC_DisplayEnvs
SPECIFICATION Spec
PROPERTY RemovedAgentReinstalled
