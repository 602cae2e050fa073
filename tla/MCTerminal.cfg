SPECIFICATION TerminalSpec
CONSTANTS
  TermCols = 2
  TermRows = 3
  EscValues = 2
  EscMax = 9995
  OscBytes = 2
  FbDims <- Screens
  FbChar = {"blank", "a"}
  FbGeometry <- Framebuffers
  FbManual = FALSE
  SgrValues <- Sgrs
INVARIANTS TerminalTypeOK TerminalIsSound ScreenIsSound 
