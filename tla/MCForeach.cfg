\* Three elements under each of the configurations of MCSpecs.
SPECIFICATION FairSpec
CONSTANTS
  N = 3
  Specs <- MCSpecs
  SubPipeline <- CallEmit
INVARIANTS
  TypeOK
  ConcurrencyBound
  NoWorkerOutlivesCall
  AnswerIsFaithful
PROPERTIES
  FirstErrorWins
  ImplementsAbs
  AlwaysReturns
