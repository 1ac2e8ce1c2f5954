SPECIFICATION FairSpec
CONSTANTS
  Users = {ann, bob}
  Approved = {ann}
  Requests = {r1, r2}
  Limit = 2
  MaxCards = 4
  Nobody = Nobody
INVARIANTS
  TypeOK
  LimitOvershoot
PROPERTIES
  OwnCardsOnly
  NeverLosesPreferred
  EveryRequestAnswered
