SPECIFICATION Spec
CONSTANTS
  Databases <- AllLanguages
  LowerCase <- LowerClass
  Open = {"SQL", "none"}
INVARIANTS
  TypeOK
  ShowsExactly
  TwiceOnlyByName
  RstPlusIsRight
