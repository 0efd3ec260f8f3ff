SPECIFICATION Spec
CONSTANTS
  alice = alice
  hi = hi
  Nobody = Nobody
  NoEvent = NoEvent
  Entity = {alice, hi}
  MapOf <- MCMapOf
  Last <- MCLast
  Consumer = {1, 2}
  Reader = {3, 4}
  MaxLosses = 1
INVARIANTS
  TypeOK
  CompleteWhenSettled
PROPERTIES
  AnswerIsASnapshot
  StatsAnswered
