SPECIFICATION Spec
CONSTANTS
  Texts <- MCTexts
  searchLabel <- MCLabel
  Sections <- MCSections
  indexSectionsWithContent <- MCIndex
  searchData <- MCData
  lower <- MCLower
  hex <- MCHex
  MaxTimers = 1
INVARIANTS DSTypeOK ResultsExact FocusDisplayed SettledAnswersField
PROPERTIES UpUndoesDown
