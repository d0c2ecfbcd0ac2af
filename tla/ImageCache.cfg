\* Three requests - one that fetches, one that starts the next flight, one that
\* waits - and a change of the images.
SPECIFICATION CacheFairSpec
CONSTANTS
  Request = {r1, r2, r3}
  Changer = {c1}
  NoChan = NoChan
  NoData = NoData
INVARIANTS NoDoubleClose NoLostWaiter StaleOnlyByRacedFill
PROPERTY EveryRequestAnswered
