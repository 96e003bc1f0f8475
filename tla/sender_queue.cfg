CONSTANTS
    Messages = {m1}
    Claims = {k1, k2}
    Nobody = Nobody
    MaxExits = 1
SPECIFICATION Spec
INVARIANTS TypeOK CodeSentOncePerClaim MessageAgainOnlyInDoubt
PROPERTIES OneStoryPerClaim ClaimsAreAcknowledged
CHECK_DEADLOCK FALSE
