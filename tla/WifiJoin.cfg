SPECIFICATION JoinFairSpec
CONSTANTS
  JOIN_TRY = 3
  JOIN_RETRY = 2
  MaxWaiting = 3
INVARIANTS OffBetweenAttempts
PROPERTIES RetriesAreSpaced AttemptsGoOn
