SPECIFICATION Spec
CONSTANTS
  width = 3
  height = 2
  tab_size = 2
  a = a
  Tab = Tab
  wide = wide
  byte = byte
  Typed = {a, Tab}
  Wide = {wide}
  Invalid = {byte}
  OpenFiles <- MCOpenFiles
  NoFile = NoFile
  MaxSize = 4
INVARIANTS ScreenMatchesText UnsavedTextKept
PROPERTY KeysDoWhatTheySay
CHECK_DEADLOCK FALSE
