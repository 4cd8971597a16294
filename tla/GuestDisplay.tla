--------------------------- MODULE GuestDisplay ---------------------------
(***************************************************************************)
(* The display half of DetectGUIInfo (pkg/guestagent/gui, Linux build):   *)
(* which display server the guest runs, its displays, and the resolution  *)
(* and idle time the X11 and Wayland tools report.  Every probe reads the *)
(* guest agent's own environment and filesystem, and runs a tool that     *)
(* answers or fails within its timeout.                                   *)
(*                                                                         *)
(* A guest display environment e is a record:                             *)
(*   DISPLAY, WAYLAND_DISPLAY, XDG_SESSION_TYPE: the agent's variables,   *)
(*     "" when unset;                                                     *)
(*   x11Dir: the entries of /tmp/.X11-unix, <<>> when it does not exist;  *)
(*   liveX: the X displays whose server accepts the agent's connection;   *)
(*   wlroots: the Wayland compositor answers wlr-randr;                   *)
(*   tools: the tool executables installed.                               *)
(* Resolutions and idle times are the tokens "WxH" and "ms" ("0": none); *)
(* the tools of one server report the same screen.                        *)
(***************************************************************************)
EXTENDS Naturals, Sequences

\* detectX11: /tmp/.X11-unix exists, or DISPLAY is set.
detectX11(e) == e.x11Dir # <<>> \/ e.DISPLAY # ""

\* detectWayland: WAYLAND_DISPLAY is set, or XDG_SESSION_TYPE is "wayland".
detectWayland(e) == e.WAYLAND_DISPLAY # "" \/ e.XDG_SESSION_TYPE = "wayland"

\* getX11Displays: DISPLAY alone when set, else ":n" for each entry "Xn".
XEntryDisplay == [X0 |-> ":0", X1 |-> ":1"]

getX11Displays(e) ==
  IF e.DISPLAY # "" THEN <<e.DISPLAY>>
  ELSE IF e.x11Dir = <<>> THEN <<>>
  ELSE LET names == e.x11Dir[1] IN
       [i \in 1..Len(names) |-> XEntryDisplay[names[i]]]

getWaylandDisplays(e) ==
  IF e.WAYLAND_DISPLAY # "" THEN <<e.WAYLAND_DISPLAY>> ELSE <<>>

\* An X client (xrandr, xdpyinfo, xprintidle, xssstate) is run with the
\* agent's environment, whose DISPLAY is re-appended unchanged: it reaches
\* a server only through the agent's own DISPLAY.
XToolAnswers(e, tool) == tool \in e.tools /\ e.DISPLAY \in e.liveX

\* getX11Resolution: xrandr, else xdpyinfo, else "".
getX11Resolution(e) ==
  IF XToolAnswers(e, "xrandr") \/ XToolAnswers(e, "xdpyinfo") THEN "WxH" ELSE ""

\* getWaylandResolution: wlr-randr, else swaymsg, whose parser always
\* gives "".
getWaylandResolution(e) ==
  IF "wlr-randr" \in e.tools /\ e.wlroots /\ e.WAYLAND_DISPLAY # ""
    THEN "WxH" ELSE ""

getResolution(e, server) ==
  CASE server = "X11"     -> getX11Resolution(e)
    [] server = "Wayland" -> getWaylandResolution(e)
    [] OTHER              -> ""

\* getIdleTime: xprintidle, else xssstate -i, for X11; 0 otherwise.
getIdleTime(e, server) ==
  IF server = "X11" /\ (XToolAnswers(e, "xprintidle") \/ XToolAnswers(e, "xssstate"))
    THEN "ms" ELSE "0"

\* The display fields of DetectGUIInfo: Wayland is tested before X11, and
\* resolution and idle time are asked only when a display was found.
DetectDisplay(e) ==
  LET server   == IF detectWayland(e) THEN "Wayland"
                  ELSE IF detectX11(e) THEN "X11" ELSE "none"
      displays == CASE server = "Wayland" -> getWaylandDisplays(e)
                    [] server = "X11"     -> getX11Displays(e)
                    [] OTHER              -> <<>>
      active   == displays # <<>>
  IN [DisplayServer |-> server, Displays |-> displays, SessionActive |-> active,
      Resolution |-> IF active THEN getResolution(e, server) ELSE "",
      IdleTimeMs |-> IF active THEN getIdleTime(e, server) ELSE "0"]

====
