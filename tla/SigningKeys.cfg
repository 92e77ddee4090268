\* Two threads verify tokens during a rotation of the keys, with a fetch that fails.
CONSTANTS
    Threads = {t1, t2}
    Documents <- Rotation
    Tokens <- SomeTokens
    TTL = 2
    FetchTime = 1
    Fallback = TRUE
    Secret = "secret"
    MaxFaults = 1
    None = "none"
SPECIFICATION Spec
INVARIANT KeyOfKid
PROPERTY WithdrawnKeysExpire
INVARIANT OneRefresh
PROPERTY PublishedKeysAccepted
PROPERTY CachedKeysDontWait
