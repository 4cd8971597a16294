---------------------------- MODULE SpiceClient ----------------------------
(***************************************************************************)
(* The host-side SPICE client of the QEMU driver (package spiceclient):   *)
(* GetConnectionInfo parses a QEMU display string into a Connection,      *)
(* FindViewer resolves a viewer binary on PATH, buildViewerArgs and       *)
(* buildSpiceURI turn the Connection into the viewer's argument vector,   *)
(* and LaunchViewer starts the viewer and returns without waiting.        *)
(*                                                                         *)
(* Strings are abstracted to tokens.  A display string is its first       *)
(* comma-separated token (head) and the rest (opts), each an option       *)
(* [key, val]; val = NoEq is an option without "=".  A path is a          *)
(* [dir, name] pair, as exec.LookPath returns dir/name.  A substring test  *)
(* is the set of markers a token contains (Markers).                      *)
(***************************************************************************)
EXTENDS Naturals, SequencesExt

CONSTANTS
  Heads,        \* first tokens of display strings
  Options,      \* the options a display string may carry after its head
  MaxOpts,      \* bound on the number of options after the head
  Dirs,         \* PATH directories a viewer may be installed in
  GOOSes        \* values of runtime.GOOS

VARIABLES
  display,      \* the instance's display string
  audio,        \* the caller's audio setting, copied into Connection.Audio
  goos,         \* runtime.GOOS of the host
  installedAt,  \* candidate name -> directory it is found in, or NotFound
  outcome       \* what the QEMU driver's RunGUI returned

vars == <<display, audio, goos, installedAt, outcome>>

NoEq == "<no =>"
NotFound == "<not on PATH>"
Loopback == "127.0.0.1"
DefaultPort == "5900"

(***************************************************************************)
(* Token-level string operations.  A head is [unix, tok]: with unix, the  *)
(* string starts with "spice+unix://" and tok is the rest of the head;    *)
(* otherwise tok is the whole first token.                                *)
(***************************************************************************)
IsUnixHead(h) == h.unix

\* strings.HasPrefix(displayString, "spice"), on the tokens of the model.
SpicePrefixed == {"spice", "spice-app", "spicevmc"}
HasSpicePrefix(h) == h.unix \/ h.tok \in SpicePrefixed

\* Markers(t): which of the viewer-name markers the token t contains after
\* strings.ToLower.
Markers(t) ==
  {m \in {"remote-viewer", "virt-viewer", "spicy"} :
     \/ t \in {m, m \o ".exe"}
     \/ t = "/opt/" \o m \o "/bin"}

HasMarker(path, m) == m \in Markers(path.dir) \cup Markers(path.name)

\* The Connection record.  UnixPath is the sequence of the comma-separated
\* parts that make up the path, <<>> when the field is "".
Conn(host, port, pw, unixPath, aud) ==
  [Host |-> host, Port |-> port, Password |-> pw, UnixPath |-> unixPath,
   Audio |-> aud]

PathEmpty(p) == p \in {<<>>, <<[key |-> "", val |-> NoEq]>>}

\* The error results of the call chain, and the "no error" value.
Errors == {"FormatError", "UnsupportedPlatform", "NoViewer", "NeedHostPort",
           "UnsupportedTransport", "UnknownViewer", "StartFailed"}
NoErr == "none"
NoPath == [dir |-> NotFound, name |-> NotFound]

(***************************************************************************)
(* GetConnectionInfo.  The loop walks every comma-separated part of the   *)
(* string, the head included; a later key overrides an earlier one.       *)
(* The result is [err, conn].                                              *)
(***************************************************************************)
ParseStep(c, part) ==
  IF part.key = "spice" /\ part.val = NoEq THEN c
  ELSE IF part.val = NoEq THEN c
  ELSE CASE part.key = "port"     -> [c EXCEPT !.Port = part.val]
         [] part.key = "addr"     -> [c EXCEPT !.Host = part.val]
         [] part.key = "password" -> [c EXCEPT !.Password = part.val]
         [] OTHER                 -> c

\* Mutant: the defaults are applied after the loop and overwrite it.
GetConnectionInfoDefaultsLast(d) ==
  IF IsUnixHead(d.head)
    THEN [err |-> NoErr,
          conn |-> Conn("", "", "", <<[key |-> d.head.tok, val |-> NoEq]>> \o d.opts, FALSE)]
  ELSE IF ~HasSpicePrefix(d.head)
    THEN [err |-> "FormatError", conn |-> Conn("", "", "", <<>>, FALSE)]
  ELSE LET c == FoldLeft(ParseStep, Conn("", "", "", <<>>, FALSE),
                         <<[key |-> d.head.tok, val |-> NoEq]>> \o d.opts)
       IN [err |-> NoErr, conn |-> [c EXCEPT !.Host = Loopback,
                                             !.Port = DefaultPort]]

GetConnectionInfo(d) ==
  IF IsUnixHead(d.head)
    THEN [err |-> NoErr,
          conn |-> Conn("", "", "", <<[key |-> d.head.tok, val |-> NoEq]>> \o d.opts, FALSE)]
  ELSE IF ~HasSpicePrefix(d.head)
    THEN [err |-> "FormatError", conn |-> Conn("", "", "", <<>>, FALSE)]
  ELSE [err |-> NoErr,
        conn |-> FoldLeft(ParseStep,
                          Conn(Loopback, DefaultPort, "", <<>>, FALSE),
                          <<[key |-> d.head.tok, val |-> NoEq]>> \o d.opts)]

(***************************************************************************)
(* FindViewer: the candidate list of runtime.GOOS, first one on PATH.      *)
(***************************************************************************)
Candidates(os) ==
  CASE os = "darwin"  -> <<"remote-viewer", "spicy">>
    [] os = "linux"   -> <<"remote-viewer", "spicy", "virt-viewer">>
    [] os = "windows" -> <<"remote-viewer.exe", "spicy.exe",
                           "virt-viewer.exe">>
    [] OTHER          -> <<>>

FindViewer(os, at) ==
  LET cs == Candidates(os)
      i  == SelectInSeq(cs, LAMBDA n : at[n] # NotFound)
  IN CASE cs = <<>> -> [err |-> "UnsupportedPlatform", path |-> NoPath]
       [] i = 0     -> [err |-> "NoViewer", path |-> NoPath]
       [] OTHER     -> [err |-> NoErr, path |-> [dir |-> at[cs[i]],
                                                 name |-> cs[i]]]

(***************************************************************************)
(* buildSpiceURI and buildViewerArgs.  A URI is a record; the argument    *)
(* vector is a record of its style and the values it carries ("" for a    *)
(* flag that is left out).                                                 *)
(***************************************************************************)
NoURI == [scheme |-> "", host |-> "", port |-> "", password |-> "",
          path |-> <<>>]

buildSpiceURI(c) ==
  CASE ~PathEmpty(c.UnixPath)
         -> [err |-> NoErr, uri |-> [NoURI EXCEPT !.scheme = "spice+unix",
                                                  !.path = c.UnixPath]]
    [] c.Host = "" \/ c.Port = ""
         -> [err |-> "NeedHostPort", uri |-> NoURI]
    [] OTHER
         -> [err |-> NoErr, uri |-> [NoURI EXCEPT !.scheme = "spice",
                                       !.host = c.Host, !.port = c.Port,
                                       !.password = c.Password]]

NoArgs == [style |-> "none", uri |-> NoURI, fullScreen |-> FALSE,
           disableAudio |-> FALSE, h |-> "", p |-> "", w |-> ""]

\* Mutant: the audio flag is added when audio is on.
buildViewerArgsAudioInverted(viewer, c) ==
  CASE HasMarker(viewer, "remote-viewer") \/ HasMarker(viewer, "virt-viewer")
         -> LET u == buildSpiceURI(c) IN
            IF u.err # NoErr THEN [err |-> u.err, args |-> NoArgs]
            ELSE [err |-> NoErr,
                  args |-> [NoArgs EXCEPT !.style = "uri", !.uri = u.uri,
                              !.fullScreen = TRUE, !.disableAudio = c.Audio]]
    [] HasMarker(viewer, "spicy")
         -> IF ~PathEmpty(c.UnixPath)
              THEN [err |-> "UnsupportedTransport", args |-> NoArgs]
              ELSE [err |-> NoErr,
                    args |-> [NoArgs EXCEPT !.style = "flags", !.h = c.Host,
                                !.p = c.Port, !.w = c.Password]]
    [] OTHER -> [err |-> "UnknownViewer", args |-> NoArgs]

buildViewerArgs(viewer, c) ==
  CASE HasMarker(viewer, "remote-viewer") \/ HasMarker(viewer, "virt-viewer")
         -> LET u == buildSpiceURI(c) IN
            IF u.err # NoErr THEN [err |-> u.err, args |-> NoArgs]
            ELSE [err |-> NoErr,
                  args |-> [NoArgs EXCEPT !.style = "uri", !.uri = u.uri,
                              !.fullScreen = TRUE, !.disableAudio = ~c.Audio]]
    [] HasMarker(viewer, "spicy")
         -> IF ~PathEmpty(c.UnixPath)
              THEN [err |-> "UnsupportedTransport", args |-> NoArgs]
              ELSE [err |-> NoErr,
                    args |-> [NoArgs EXCEPT !.style = "flags", !.h = c.Host,
                                !.p = c.Port, !.w = c.Password]]
    [] OTHER -> [err |-> "UnknownViewer", args |-> NoArgs]

(***************************************************************************)
(* LaunchViewer and its caller.                                           *)
(***************************************************************************)
NoConn == Conn("", "", "", <<>>, FALSE)

NotRun == [done |-> FALSE, err |-> NoErr, conn |-> NoConn, viewer |-> NoPath,
           args |-> NoArgs]

\* Returned(e, c, v, a): the call chain returned error e (NoErr on success)
\* having got as far as Connection c, viewer v and arguments a.
Returned(e, c, v, a) ==
  outcome' = [done |-> TRUE, err |-> e, conn |-> c, viewer |-> v, args |-> a]

\* spiceclient.LaunchViewer: FindViewer, buildViewerArgs, then cmd.Start,
\* which can fail (the file is not executable, fork fails).  A started
\* viewer is not waited for: its exit is only logged.
LaunchViewer(c) ==
  LET f == FindViewer(goos, installedAt)
      b == buildViewerArgs(f.path, c)
  IN CASE f.err # NoErr -> Returned(f.err, c, NoPath, NoArgs)
       [] b.err # NoErr -> Returned(b.err, c, f.path, NoArgs)
       [] OTHER         -> \E started \in BOOLEAN :
                             Returned(IF started THEN NoErr ELSE "StartFailed",
                                      c, f.path, b.args)

\* The QEMU driver's RunGUI: parse the instance's display string, set the
\* audio flag from the instance configuration, and launch the viewer.
RunGUIQemu ==
  /\ ~outcome.done
  /\ LET p == GetConnectionInfo(display)
     IN IF p.err # NoErr
          THEN Returned(p.err, NoConn, NoPath, NoArgs)
          ELSE LaunchViewer([p.conn EXCEPT !.Audio = audio])
  /\ UNCHANGED <<display, audio, goos, installedAt>>

DisplayStrings == [head : Heads, opts : BoundedSeq(Options, MaxOpts)]

Init ==
  /\ display \in DisplayStrings
  /\ audio \in BOOLEAN
  /\ goos \in GOOSes
  /\ installedAt \in [ToSet(Candidates(goos)) -> Dirs \cup {NotFound}]
  /\ outcome = NotRun

Next == RunGUIQemu

\* One call; nothing forces it, and once it has returned the model stops.
Spec == Init /\ [][Next]_vars

(***************************************************************************)
(* Reference definitions, from spec 4.1 and 4.2.                          *)
(***************************************************************************)
\* The value of the last option with key k, or dflt when there is none.
OptionValue(d, k, dflt) ==
  LET i == SelectLastInSeq(d.opts, LAMBDA o : o.key = k /\ o.val # NoEq)
  IN IF i = 0 THEN dflt ELSE d.opts[i].val

\* Spec 4.1: the unix form keeps the remainder as the path; the key=value
\* form recognises port, addr and password, with the loopback address and
\* the well-known port as defaults.
SpecConnection(d) ==
  IF d.head.unix
    THEN Conn("", "", "", <<[key |-> d.head.tok, val |-> NoEq]>> \o d.opts,
              FALSE)
    ELSE Conn(OptionValue(d, "addr", Loopback),
              OptionValue(d, "port", DefaultPort),
              OptionValue(d, "password", ""), <<>>, FALSE)

\* Spec 4.2: the URI-style viewers (remote-viewer, virt-viewer) take the
\* URI, fullscreen and, without audio, audio suppression; spicy takes
\* host, port and password flags and cannot express a unix socket.
ViewerFamily(name) ==
  CASE name \in {"remote-viewer", "remote-viewer.exe", "virt-viewer",
                 "virt-viewer.exe"}             -> "uri"
    [] name \in {"spicy", "spicy.exe"}         -> "flags"
    [] OTHER                                   -> "none"

Expressible(family, c) ==
  IF family = "uri"
    THEN ~PathEmpty(c.UnixPath) \/ (c.Host # "" /\ c.Port # "")
    ELSE PathEmpty(c.UnixPath)

SpecArgs(family, c) ==
  IF family = "uri"
    THEN [NoArgs EXCEPT
            !.style = "uri", !.fullScreen = TRUE, !.disableAudio = ~c.Audio,
            !.uri = IF PathEmpty(c.UnixPath)
                      THEN [NoURI EXCEPT !.scheme = "spice", !.host = c.Host,
                              !.port = c.Port, !.password = c.Password]
                      ELSE [NoURI EXCEPT !.scheme = "spice+unix",
                              !.path = c.UnixPath]]
    ELSE [NoArgs EXCEPT !.style = "flags", !.h = c.Host, !.p = c.Port,
            !.w = c.Password]

(***************************************************************************)
(* Properties                                                             *)
(***************************************************************************)
\* GetConnectionInfo gives the Connection of spec 4.1 for every display
\* string it accepts (defaults, the three recognised keys, later options
\* overriding earlier ones, unknown keys ignored, the unix remainder kept
\* whole), rejects "vnc"-like tokens with a FormatError, and the Connection
\* that reaches the viewer is that one with the caller's audio flag.
ParseMatchesSpec ==
  outcome.done =>
    IF HasSpicePrefix(display.head)
      THEN outcome.err # "FormatError" =>
             outcome.conn = [SpecConnection(display) EXCEPT !.Audio = audio]
      ELSE outcome.err = "FormatError"

\* A viewer is started only with the argument vector spec 4.2 gives its
\* family for this Connection, and only when the family can express the
\* Connection's transport (spicy and a unix socket: UnsupportedTransport,
\* never a silent -h/-p launch).
LaunchArgsMatchConnection ==
  outcome.err = NoErr /\ outcome.done =>
    LET fam == ViewerFamily(outcome.viewer.name)
    IN /\ Expressible(fam, outcome.conn)
       /\ outcome.args = SpecArgs(fam, outcome.conn)

====
