SPECIFICATION ChalkboardSpec
CONSTANTS
  NULL = NULL
  ScreenSize <- Screen
  MenuHeight = 20
  TabStrip = 12
  Forms <- TheForms
  ListLimit = 3
  WindowLimit = 106
INVARIANT VisibilityIsSo TreeIsSound
PROPERTY MarginsKept
CHECK_DEADLOCK FALSE
