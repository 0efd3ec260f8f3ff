SPECIFICATION Spec
CONSTANTS
  user = user
  folder = folder
  good = good
  bad = bad
  NoEvent = NoEvent
  Service = {user, folder}
  Event = {good, bad}
  Producer <- MCProducer
  Poison = {bad}
  Consumer = {1, 2}
  MaxRestarts = 2
INVARIANT
  ConfirmedNotLost
CHECK_DEADLOCK FALSE
