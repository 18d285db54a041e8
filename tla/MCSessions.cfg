SPECIFICATION Spec
CONSTANTS
  u1 = u1
  g0 = g0
  g1 = g1
  g2 = g2
  k1 = k1
  NoUser = NoUser
  NoSession = NoSession
  Requests <- MCRequests
  Users <- MCUsers
  Passwords <- MCPasswords
  FirstPassword = "old"
  Given <- MCGiven
  GivenOpen <- MCGivenOpen
  GivenLinks <- MCGivenLinks
  Owner <- MCOwner
  KeyOrder <- MCKeyOrder
  Calls <- MCCalls
  MaxAttempts = 2
  Lockout = 1
  Life = 1
  LinkLife = 0
  Horizon = 1
INVARIANTS
  CounterHasCauses
  LogAgrees
  RefusalIsRecorded
  HeirsAreSound
  EarlierSessionsEnd
  OnceInTurn
  NoLockCycle
PROPERTIES
  RegisterSpec
