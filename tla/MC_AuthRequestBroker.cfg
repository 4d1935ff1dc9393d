SPECIFICATION Spec
CONSTANTS
  Schemes <- ChallengeSchemes
  DgKinds = {"none", "user", "keychain"}
  MaxRequests = 4
  Builds = {"posix", "windows"}
INVARIANT TypeOK
INVARIANT AttemptsCountCalls
INVARIANT KeychainSafe
INVARIANT KeychainBounded
INVARIANT NegotiateContinuesOwnScheme
CHECK_DEADLOCK FALSE
