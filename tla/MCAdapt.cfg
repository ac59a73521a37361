SPECIFICATION Spec
CONSTANTS
  NCpus = 2
  Interval = 2
  RateWindowMax = 4
  Waits = {20, 400}
  RateMax = 2
  RateGateHigh = 120
  MaxStep = 70
  Bases <- MCBases
  MaxClock = 4
  MaxWaits = 1
  MaxArrivals = 1
INVARIANTS BandsOrdered WidenOnly ArrivalsConserved QuietKeepsBands
PROPERTIES StepsSpaced EdgesSlewed
