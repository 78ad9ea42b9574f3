SPECIFICATION LibrarySpec
CONSTANTS
  Heads = {h1, h2}
  Entries = {e1, e2, e3}
  Near = 3
  CMD_LINE_SIZE = 6
  Letters = {"a", "b"}
  Commands <- MCCommands
INVARIANTS
  Represents
  EveryRingIsAList
  BitsRight
  TreeIndexRight
  ConsoleTypeOK
  SingleSpaced
  CutRight
