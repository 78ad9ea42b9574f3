------------------------------ MODULE Console ------------------------------
(***************************************************************************)
(* The command line (library/console/console.c): the editor that collects  *)
(* a line in aCmdBuffer, key by key, and service(), which cuts the line    *)
(* into a name and an option and calls the command of that name.  The      *)
(* buffer is never cleared between two lines.                              *)
(***************************************************************************)
EXTENDS Naturals, Sequences, Functions

CONSTANTS CMD_LINE_SIZE,    \* the bytes of aCmdBuffer; 50 in the code
          Letters,          \* bound: the characters typed, apart from space
          Commands          \* the names of the exported commands

Space == "space"
NUL   == "NUL"
Outside == "outside"
Back  == "backspace"        \* 0x7F or 0x08
Enter == "enter"
Char  == Letters \cup {Space}

ASSUME ConsoleAssumption ==
  /\ CMD_LINE_SIZE \in Nat /\ CMD_LINE_SIZE > 1
  /\ Letters \cap {Space, NUL, Outside, Back, Enter} = {}

VARIABLES aCmdBuffer, CharCounter,
          called            \* the last call: the line, the name and the option passed

consoleVars == <<aCmdBuffer, CharCounter, called>>

LastByte    == CMD_LINE_SIZE - 1
Nothing == [line |-> << >>, name |-> << >>, option |-> << >>]

ConsoleInit ==
  /\ aCmdBuffer = [i \in 0..LastByte |-> NUL]
  /\ CharCounter = 0
  /\ called = Nothing

\* The string that starts at i, up to the first NUL; behind the buffer lies memory
\* of something else.
String(buffer, i) ==
  LET ends == {j \in i..LastByte : buffer[j] = NUL}
      end  == IF ends = {} THEN CMD_LINE_SIZE ELSE CHOOSE j \in ends : \A k \in ends : j <= k
      text == [k \in 1 .. end - i |-> buffer[(i + k) - 1]]
  IN  IF ends = {} THEN text \o <<Outside>> ELSE text

-----------------------------------------------------------------------------
\* service(): the name ends at the first space, which becomes its NUL, or with
\* the line; the option starts behind that NUL.
CmdSize(line) ==
  LET stops == {i \in DOMAIN line : line[i] = Space}
  IN  IF stops = {} THEN Len(line) ELSE (CHOOSE i \in stops : \A j \in stops : i <= j) - 1

OptionAt_Name(size) == size
OptionAt(size)      == size + 1

service(buffer) ==
  LET line == String(buffer, 0)
      size == CmdSize(line)
      name == SubSeq(line, 1, size)
      cut  == [buffer EXCEPT ![size] = NUL]
  IN  /\ aCmdBuffer' = cut
      /\ called' = IF name \in Commands
                   THEN [line |-> line, name |-> name, option |-> String(cut, OptionAt(size))]
                   ELSE Nothing

\* The line is complete: by the enter key, or because the buffer is full.
Complete(buffer, count) ==
  /\ service([buffer EXCEPT ![count] = NUL])
  /\ CharCounter' = 0

\* The line goes on.
More(buffer, count) ==
  /\ aCmdBuffer' = buffer
  /\ CharCounter' = count
  /\ UNCHANGED called

\* The keys that leave the line as it is.
Skipped_First(key) == key \in {Back, Space} /\ CharCounter = 0

Skipped(key) ==
  IF CharCounter = 0 THEN key \in {Back, Space}
  ELSE key = Space /\ aCmdBuffer[CharCounter - 1] = Space

Erase ==
  /\ CharCounter > 0
  /\ More(aCmdBuffer, CharCounter - 1)

Skip(key) ==
  /\ Skipped(key)
  /\ UNCHANGED consoleVars

Limit_Off == CMD_LINE_SIZE
Limit     == LastByte

Store(key) ==
  /\ key \in Char /\ ~Skipped(key)
  /\ LET buffer == [aCmdBuffer EXCEPT ![CharCounter] = key]
     IN  IF CharCounter + 1 < Limit
         THEN More(buffer, CharCounter + 1)
         ELSE Complete(buffer, CharCounter + 1)

Return ==
  \/ CharCounter > 0 /\ Complete(aCmdBuffer, CharCounter)
  \/ CharCounter = 0 /\ UNCHANGED consoleVars

ConsoleNext == \/ \E key \in Char : Store(key) \/ Skip(key)
               \/ Erase \/ Skip(Back) \/ Return

ConsoleSpec == ConsoleInit /\ [][ConsoleNext]_consoleVars

-----------------------------------------------------------------------------
\* The line fits: between two keys there is room for one more character and the
\* NUL, and the buffer is a string whatever earlier lines left in it.
ConsoleTypeOK ==
  /\ aCmdBuffer \in [0..LastByte -> Char \cup {NUL}]
  /\ CharCounter \in 0 .. LastByte - 1
  /\ aCmdBuffer[LastByte] = NUL

\* However the line was edited, it starts with a letter and has no two spaces in
\* a row: what the cutting into words takes for granted (console.c:219-229).
SingleSpaced ==
  \A i \in 0 .. CharCounter - 1 :
    /\ aCmdBuffer[i] # NUL
    /\ aCmdBuffer[i] = Space => i > 0 /\ aCmdBuffer[i - 1] # Space

\* A line with a space is cut at the first one: the command is called that has
\* the name of the first word, with all that follows for its option, and no
\* character of an earlier line (console.c:106-141).
CutRight ==
  Space \in Range(called.line) =>
    /\ called.line = called.name \o <<Space>> \o called.option
    /\ Space \notin Range(called.name)
=============================================================================
