CONSTANTS
  Size = 3
  LineSize = 3
  Keys = {a}
  Letters = {a}
  ModKeys = {"shift", "ctrl"}
  Backspace = Backspace
  Newline = Newline
  NoChar = NoChar
SPECIFICATION Spec
INVARIANTS TypeOK ReadIsStable 
PROPERTIES QueueSpec KeyIsRead
