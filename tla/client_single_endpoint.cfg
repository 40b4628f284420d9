CONSTANTS
    NumEndpoints = 1
    MaxExpiries = 1
SPECIFICATION Spec
INVARIANT RetriesWithFreshToken
