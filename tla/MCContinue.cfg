SPECIFICATION FairSpec
CONSTANTS
  Pages = {"dashboard", "orders"}
  Links <- AllLinks
  Refused = "refused"
INVARIANTS
  TypeOK
  ReturnToKept
PROPERTIES
  EveryNavigationEnds
  VerifiedGetsThrough
