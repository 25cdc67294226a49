SPECIFICATION Spec
CONSTANTS
  stream = stream
  move = move
  rest = rest
  janggi = janggi
  casual = casual
  Nobody = Nobody
  Callers <- MCCallers
  Streams <- MCStreams
  Infinite <- MCStreams
  Timed <- MCTimed
  MayBeOver <- MCMayBeOver
  Variants <- MCVariants
  Own = janggi
  WantVariant <- MCWantVariant
  WantPv <- MCWantPv
  ReaderKeepsUp = TRUE
  MaxTimeOuts = 1
  MaxCrashes = 1
INVARIANTS
  RunsAsAsked
  CallsEnd
CHECK_DEADLOCK FALSE
PROPERTIES
  AnswersOwnCall
