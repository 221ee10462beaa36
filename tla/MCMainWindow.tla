---------------------------- MODULE MCMainWindow ----------------------------
(***************************************************************************)
(* Small instances of MainWindow for TLC.                                  *)
(***************************************************************************)
EXTENDS MainWindow

MCContents == {"unreadable", "object", "image", "panics"}

=============================================================================
