--------------------------- MODULE MCDesktopDaemon ---------------------------
(***************************************************************************)
(* Small instances of DesktopDaemon: formats that fit, and formats that    *)
(* render to nothing or to more than the buffer holds.                     *)
(***************************************************************************)
EXTENDS DesktopDaemon

MCTexts == {{24}, {0, 1}, 187 .. 192, {500}}
=============================================================================
