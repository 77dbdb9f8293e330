SPECIFICATION Spec
CONSTANTS
  Lines <- MCLines
  Settings <- MCSettings
  Strokes <- MCStrokes
  MaxStrokes = 3
INVARIANTS MatchesWhatIsAsked QueryReadsAsTyped PlacesSpellTheTerm FieldsAndRangesAgree
CHECK_DEADLOCK FALSE
