SPECIFICATION JoinFairSpec
CONSTANTS
  JOIN_TRY = 2
  JOIN_RETRY = 2
  MaxWaiting = 2
PROPERTY LostLinkIsRejoined
