SPECIFICATION FairSpec
CONSTANTS
  ana = ana
  bia = bia
  pa = pa
  pb = pb
  NoAccount = NoAccount
  Account = {ana, bia}
  Trying = {ana}
  Phone = {pa, pb}
  PhoneOf <- MCPhoneOf
  Registered <- MCRegistered
  Allowed = {pa, pb}
  MaxAttempts = 1
  Request = {1, 2}
  MaxFaults = 3
INVARIANTS
  TypeOK
  SessionsMatchCodes
  AttemptsBounded
  UsesBounded
  ActiveCodesBounded
PROPERTIES
  LoggedOutStaysOut
  PeopleComeIn
