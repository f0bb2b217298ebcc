SPECIFICATION Spec
CONSTANTS
  Callers = {c1, c2}
  Loops = {l1, l2}
  Services = {ctl, wrk, new}
  Offers = {{}, {ctl, wrk}, {ctl, new}}
  HasWorker = TRUE
CHECK_DEADLOCK FALSE
PROPERTIES NoUpdateAfterStop
