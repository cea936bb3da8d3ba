SPECIFICATION Spec
CONSTANTS
  w1 = w1
  w2 = w2
  r1 = r1
  r2 = r2
  x = x
  y = y
  z = z
  NoAddress = NoAddress
  Bootstrap = {"addr/"}
  normalize_address <- TwoForms
  Workers = {w1, w2}
  Remotes = {r1, r2}
  address <- SharedAddress
  Listed = {x, y, z}
  Nonces = {"n1"}
  max_size = 1
  replay_cache_size = 1
  max_peers = 1
  MaxChallenges = 2
  MaxRequests = 3
  MaxRestarts = 1
CHECK_DEADLOCK FALSE
SYMMETRY Alike
CONSTRAINT Apart
INVARIANTS StoreBounded UntrustedWithinCap TrustedIsKnown AcceptedOncePerThread SingleUse
