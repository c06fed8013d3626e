SPECIFICATION Spec
CONSTANTS
  Names <- MCNames
  Chars <- MCChars
  MaxPath = 2
  MaxFiles = 3
  Sectors = 3
  SectorSize = 2
  Disks <- MCDisks
  Args <- MCArgs
  Texts <- MCTexts
  Tests = 2
  MaxText = 2
  Rows = 2
  Glyphs <- MCGlyphs
  Width = 3
  Height = 2
  MaxLine = 4
  Outputs <- MCOutputs
INVARIANTS TypeOK CleanMeansSaved MemoryReturned
PROPERTIES  LineStaysShown
