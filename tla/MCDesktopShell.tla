--------------------------- MODULE MCDesktopShell ---------------------------
(* Small instances of DesktopShell. *)
EXTENDS DesktopShell
=============================================================================
