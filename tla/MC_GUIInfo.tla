----------------------------- MODULE MC_GUIInfo -----------------------------
EXTENDS GUIInfo

\* The VZ values, none, and a QEMU-only value that VZ rejects.
MC_Displays == {"vz", "default", "none", "cocoa"}

\* One size other than either default.
MC_Sizes == {1280}

\* A VZ value, none, the empty string and a value VZ rejects.
MC_AudioDevices == {"vz", "none", "", "coreaudio"}
====
