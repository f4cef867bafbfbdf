SPECIFICATION FairSpec
CONSTANTS
  Accounts <- MCAccounts
  Logins = {"l1", "l2", "l3"}
  Subject <- MCSubject
  Tabs = {t1}
  Replayers = {r1}
  NoTicket = NoTicket
  Capacity = 2
CHECK_DEADLOCK FALSE
INVARIANTS
  TypeOK
  OnlyOwnSessions
  OneSocketPerTicket
PROPERTIES
  NoSocketAfterUnmount
  SubscriptionReleased
  AlertSpec
