SPECIFICATION Spec
CONSTANTS
  a = a
  b = b
  Stop = Stop
  Space = Space
  Letter <- MCLetter
  Inserts <- MCInserts
  MaxText = 9
  MaxWords = 4
INVARIANTS
  LoopsMatchClosedForms
  ParseIsLossless
  CommitIsSplice
  CommitMatchesClosedForm
