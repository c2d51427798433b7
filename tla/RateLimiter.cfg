\* Two buckets, windows of two seconds, a clock of half seconds, three windows
\* of time, pruning at every second check.
SPECIFICATION Spec
CONSTANTS
  b1 = b1
  b2 = b2
  Buckets = {b1, b2}
  Limit <- MCLimit
  Window = 4
  Ticks = 2
  PruneEvery = 2
  MaxTime = 10
INVARIANTS TwiceLimit RetryAfterHonest
PROPERTY WindowKept
CHECK_DEADLOCK FALSE
