SPECIFICATION Spec
CONSTANTS
  N = 3
  Scancodes = {"X", "Enter", "Back", "Shift", "RelX"}
  Released = {"RelX"}
  kbd_us <- Table
  NoChar = "none"
  Counts = {1, 2, 5}
  Width = 3
  Height = 2
  LineMax = 3
  Cwd <- Slash
  Sign <- Dollar
  Outputs <- Texts
  Dumped = {"/", "enter"}
  Wheel = {"-"}
  Glyphs = {"x", "enter", "back", "clear", " ", "/", "$", "-"}
VIEW LiveState
INVARIANTS ScreenShowsLine
PROPERTIES IsQueue TypedIsRead EnterRuns
