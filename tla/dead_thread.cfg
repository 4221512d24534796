SPECIFICATION FairSpec
CONSTANTS
  w0 = w0 w1 = w1 w9 = w9
  Workers = {w0}
  Strangers = {w9}
  Feeds = {"pool"}
  Statuses = {"degraded", "unresponsive"}
  Concurrencies = {1, 2}
  Timeout = 1
  Window = 2
  MaxRestarts = 2
  MaxWorkerRestarts = 1
  MaxTransit = 2
PROPERTIES DeathIsDetected
