------------------------------- MODULE MCLogs -------------------------------
(***************************************************************************)
(* Small instances of LogsViewer for TLC.  Raw, the lines a caller may     *)
(* hand to the buffer, is the set of lines the pane builds.                *)
(***************************************************************************)
EXTENDS LogsViewer
=============================================================================
