SPECIFICATION Spec
INVARIANTS
  NoRewind
  AnswerTellsKey
  Recovers
