SPECIFICATION QualitySpec
CONSTANTS
  Losses = {0, 450, 1000}
  Pps = {300}
  Second = 2
  Span = 1
  MinRto = 0
  Periods = {2}
  Wrap = 3
  MaxThreshold = 650
  RmvThreshold = 400
INVARIANT LossRemembered
PROPERTY Settles
CHECK_DEADLOCK FALSE
