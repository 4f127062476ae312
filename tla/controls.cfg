SPECIFICATION Spec
CONSTANTS
  Values <- MCValues
  Percents <- MCPercents
INVARIANTS TypeOK SentInRange ReadBack
