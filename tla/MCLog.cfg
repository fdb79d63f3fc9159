SPECIFICATION Safety
CONSTANTS
  Services = {siren, mqtt}
  Threaded = {siren, mqtt}
  Depth = 3
  MaxKills = 1
INVARIANTS
  EveryMessageComesOut
  BackendHasReason
