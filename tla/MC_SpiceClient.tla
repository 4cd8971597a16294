--------------------------- MODULE MC_SpiceClient ---------------------------
EXTENDS SpiceClient

\* First tokens: the protocol token, two other "spice"-prefixed QEMU display
\* values, a foreign protocol, and the unix form with and without a path.
MC_Heads ==
  {[unix |-> FALSE, tok |-> t] : t \in {"spice", "spice-app", "vnc"}} \cup
  {[unix |-> TRUE, tok |-> t] : t \in {"/tmp/spice.sock", ""}}

\* Options: both values of each recognised key, empty ones included, an
\* unrecognised key and an option without "=".
MC_Options ==
  {[key |-> "port", val |-> v] : v \in {"5931", ""}} \cup
  {[key |-> "addr", val |-> v] : v \in {"0.0.0.0", ""}} \cup
  {[key |-> "password", val |-> "secret123"],
   [key |-> "disable-ticketing", val |-> "on"],
   [key |-> "gl", val |-> NoEq]}

MC_GOOSes == {"darwin", "linux", "windows", "freebsd"}

MC_Dirs == {"/usr/bin"}

\* A second install directory whose name contains another viewer's name,
\* as a bundle or a source build of virt-viewer installs under.
MC_ViewerDirs == {"/usr/bin", "/opt/virt-viewer/bin"}

====
