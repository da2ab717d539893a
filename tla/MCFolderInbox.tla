--------------------------- MODULE MCFolderInbox ---------------------------
(***************************************************************************)
(* Two windows on one folder.  Name 1 is a text file and name 2 a JSON     *)
(* file, so that a text comes under another name in the same capture or    *)
(* under its own in a later one; the suffix of name 3 is not supported.    *)
(* object parses under either name, text only under the first, broken      *)
(* under none.                                                             *)
(***************************************************************************)
EXTENDS FolderInbox, TLC

CONSTANTS w1, w2, text, object, broken

MCWindows == {w1, w2}
MCPayloads == {text, object, broken}
MCNotUtf8 == {broken}
MCNotObject == {text, broken}
WindowSymmetry == Permutations(MCWindows)

=============================================================================
