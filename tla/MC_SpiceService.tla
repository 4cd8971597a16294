-------------------------- MODULE MC_SpiceService --------------------------
EXTENDS SpiceService

\* The packageManagers table of installSpiceAgent, in its order.
MC_PackageManagers == <<"apt-get", "dnf", "yum", "zypper", "pacman">>

DisplayEnv(d, w, xdg, dir, live, wl, tools) ==
  [DISPLAY |-> d, WAYLAND_DISPLAY |-> w, XDG_SESSION_TYPE |-> xdg,
   x11Dir |-> dir, liveX |-> live, wlroots |-> wl, tools |-> tools]

XTools == {"xrandr", "xdpyinfo", "xprintidle", "xssstate"}

\* Two guests: one whose agent, a system service, sees an X server on :0
\* only through /tmp/.X11-unix, and one without a GUI.
MC_DisplayEnvs ==
  { DisplayEnv("", "", "", <<<<"X0">>>>, {":0"}, FALSE, XTools),
    DisplayEnv("", "", "", <<>>, {}, FALSE, {}) }

\* Every guest display environment over one X server and one Wayland
\* socket, with one X tool and wlr-randr present or not.
MC_AllDisplayEnvs ==
  { DisplayEnv(d, w, xdg, dir, live, wl, tools) :
      d \in {"", ":0"}, w \in {"", "wayland-0"}, xdg \in {"", "wayland"},
      dir \in {<<>>, <<<<>>>>, <<<<"X0">>>>}, live \in {{}, {":0"}},
      wl \in BOOLEAN, tools \in SUBSET {"xrandr", "wlr-randr"} }
====
