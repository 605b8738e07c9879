\* The callbacks of three ads of one user, two workers; up to two faults in
\* the callbacks of two of the ads.
CONSTANTS
  a1 = a1
  a2 = a2
  a3 = a3
  u1 = u1
  w1 = w1
  w2 = w2
  Workers = {w1, w2}
  Ads = {a1, a2, a3}
  Users = {u1}
  UserOf <- MCUserOf
  PaidOn <- MCPaidOn
  Life = 2
  Window = 1
  ShowCap = 2
  ShowBill = 1
  ClickCap = 1
  ClickBill = 1
  Fre <- MCFre
  MaxFaults = 2
  None = None
SPECIFICATION Spec
SYMMETRY Symmetry
CONSTRAINT FaultsOnTwo
INVARIANTS
  CountedOnce
  ClickFollowsShow
  ChargedExactly
  EveryKeyExpires
  LimitTags
