-------------------------- MODULE MCDirectorySync --------------------------
(* Model checking instance of DirectorySync: one root a capture script writes *)
(* and one that is only re-added.                                             *)
EXTENDS DirectorySync

CONSTANTS vscode, home

=============================================================================
