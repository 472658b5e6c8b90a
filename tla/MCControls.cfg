SPECIFICATION ControlsSpec
CONSTANTS
  NULL = NULL
  ScreenSize <- Screen
  MenuHeight = 20
  TabStrip = 12
  Forms <- TheForms
  Texts <- TheTexts
  Records <- TheRecords
  Trees <- TheTrees
  ListLimit = 2
INVARIANT ViewMirrorsModel ReadsBack ClickReaches
PROPERTY SelectionFollows
CHECK_DEADLOCK FALSE
