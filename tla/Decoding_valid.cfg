SPECIFICATION EnginesSpec
CONSTANTS
  Token <- MCToken
  Context <- MCContext
  ContextOf <- MCContextOf
  TextOf <- MCTextOf
  Alphabet <- MCAlphabet
  Digits <- MCDigits
  Letters <- MCLetters
  Spaces <- MCSpaces
  Jobs <- MCJobs
  IdleJob <- MCIdleJob
  Calls <- MCCalls
  IdleCall <- MCIdleCall
  NoToken = NoToken
  NoGrammar = NoGrammar
INVARIANT MaskedAnswerIsValid
CHECK_DEADLOCK FALSE
