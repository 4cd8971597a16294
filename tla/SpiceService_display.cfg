CONSTANT PackageManagers <- MC_PackageManagers
CONSTANT PgrepMayHang = FALSE
CONSTANT DisplayEnvs <- MC_AllDisplayEnvs
SPECIFICATION Spec
INVARIANT ActiveX11SessionHasResolution
