CONSTANTS
  MaxChunks = 2
  MaxReads = 2
SPECIFICATION FairSpec
INVARIANTS OneResponse WireIsTrue
PROPERTIES TimedSessionAnswers AnsweredSessionDrains ImplementsContract
