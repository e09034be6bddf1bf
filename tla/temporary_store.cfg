SPECIFICATION MCSpec
CONSTANTS
  x1 = x1
  x2 = x2
  x3 = x3
  challenges = challenges
  CacheKeys = {x1, x2, x3}
  CacheValues = {one, two}
  NsOf <- MCNsOf
  Namespaces = {challenges}
  NoNs = NoNs
  Quota <- MCQuota
  StoreLimit = 2
  NoValue = NoValue
  TTLs = {1, 2}
  CacheMaxTime = 3
  RedisTTLs = {1, 2}
  RedisMaxTime = 3
  Codes = {k1, k2}
  MaxAttempts = 2
  MaxIssues = 2
  Senders = {s1, s2}
  Verifiers = {v1, v2}
  Purpose = "passwordReset"
INVARIANTS StoresConsistent AcceptedOnce GuessesBounded
PROPERTIES MemoryImplementsCache RedisImplementsCache ImplementsAtomic Answered
