CONSTANTS
  t1 = t1
  t2 = t2
  i1 = i1
  i2 = i2
  Tokens = {t1, t2}
  Instances = {i1, i2}
  ScoutOf <- OneScout
  Shared = {t1}
  MaxRegistrations <- Two
  Workers = {w1, w2}
  NoToken = NoToken
  NoRow = NoRow
  Deletable = {i1}
  Revocable = {t1}
SPECIFICATION FairSpec
INVARIANT LimitKept
PROPERTY LiveKept
PROPERTY RevokedStaysUnbound
PROPERTY RequestsAnswered
PROPERTY ImplementsRegistry
CHECK_DEADLOCK FALSE
