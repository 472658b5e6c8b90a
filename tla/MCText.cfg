SPECIFICATION Spec
CONSTANTS
  Chars = {"&", "amp;", "lt;", "<"}
  Chunks <- MCChunks
  MaxChunks = 3
  MaxText = 4
  ULongModulus = 64
  Bytes = {0, 97, 127, 30, 200}
  MaxBytes = 5
  MaxNeedle = 3
  Base64Line = 1
  MaxSize = 4
  Values <- MCValues
  MaxString = 5
  Leaves <- MCLeaves
  MaxNodes = 4
  Headers <- MCHeaders
  Cells <- MCCells
  MaxRecords = 2
  Separators <- MCSeparators
  Parts <- MCParts
  MaxMagnets = 4
  BlockSizes = {1, 3, 100}
CHECK_DEADLOCK FALSE
INVARIANT IgnoresTheCuts
INVARIANT CodesDecode
INVARIANT HoldsItsText
INVARIANT FilesComeBack
