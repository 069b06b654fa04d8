\* Two tokens, two scopes, and a clock that passes the expiry of two grants in a row.
SPECIFICATION Spec
CONSTANTS
    Tokens = {t1, t2}
    Scopes = {s1, s2}
    NoGrant = NoGrant
    NoToken = NoToken
    TTL = 2
    MaxTime = 4
INVARIANTS
    UsedOnce
    UsedAsIssued
PROPERTIES
    LiveGrantKept
    ImplementsOneTimeGrant
