CONSTANTS
  Readings <- MCReadings
  MaxAge = 0
  Grace = 0
  ReleaseIdle = 1
  EmissionIdleOff = 1
  MaxDisturbances = 2
SPECIFICATION FairSpec
PROPERTIES GivenBackOff EmGoesFirst ForgottenIsReleased
