SPECIFICATION Spec
CONSTANTS
  BudgetMax = 48
  Alpha = 3072
  HalfLife = 192
  ShortSleep = 256
  RateLimit = 16
  HystSleep = 32
  LongSleep = 960
  SleepClamp = 512
  AgingPeriod = 64
  CntMod = 10
  GpuMax = 1
  Bands <- MCBands
  Preds = {0, 4, 30}
  Sleeps = {0, 40, 300, 961}
  Waits = {0, 64}
  Bursts = {0, 8, 32}
  Policies = {TRUE, FALSE}
INVARIANT HogSinks
PROPERTIES TransitionsEarned BoostHonoured
