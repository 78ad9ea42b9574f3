----------------------------- MODULE MCLibrary ------------------------------
(***************************************************************************)
(* The parts of the library that no thread shares: the lists, the bits and *)
(* the command line.  A behaviour exercises one of them, and what is not   *)
(* used stays as it was made.                                              *)
(***************************************************************************)
EXTENDS ListRings, BitOps, Console

VARIABLE use

libraryVars == <<use, vars, word, consoleVars>>

\* The commands "a" and "ab", on a line of at most CMD_LINE_SIZE - 1 characters.
MCCommands == {<<"a">>, <<"a", "b">>}

LibraryInit ==
  /\ use \in {"lists", "bits", "console"}
  /\ Init /\ BitInit /\ ConsoleInit
  /\ use # "bits" => word = {}

LibraryNext ==
  /\ UNCHANGED use
  /\ \/ use = "lists"   /\ Next        /\ UNCHANGED <<word, consoleVars>>
     \/ use = "bits"    /\ BitNext     /\ UNCHANGED <<vars, consoleVars>>
     \/ use = "console" /\ ConsoleNext /\ UNCHANGED <<vars, word>>

LibrarySpec == LibraryInit /\ [][LibraryNext]_libraryVars
=============================================================================
