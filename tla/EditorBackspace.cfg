SPECIFICATION WorkbenchSpec
CONSTANTS
  Authorities = {local, ssh}
  Local = local
  MaxLaunches = 3
  Screens <- SomeScreens
  Drags = {14}
  Alphabet = {"emoji", "accent", "tab", "newline"}
  MaxText = 3
  Windows <- SomeWindows
  Restored = {0, 2, 12}
  Docs = {code, notes}
  Plain = {notes}
  Sources <- SomeSources
  MaxRevision = 2
PROPERTIES BackspaceDeletesOne
CHECK_DEADLOCK FALSE
