\* The main window and renewal in an iframe, whose flows overlap, under
\* fairness of the clock and the timers.
CONSTANTS
  t1 = t1
  t2 = t2
  t3 = t3
  Never = Never
  Tasks = {t1, t2}
  MaxRequests = 3
  MaxTime = 2
  Lifetimes = {2}
  MaxDelay = 1
  UsesRenewal = TRUE
SPECIFICATION FairSpec
CHECK_DEADLOCK FALSE
INVARIANTS ExpiryTimerArmed LogoutIsFinal OwnVerifier
PROPERTIES CodeSentOnce SilentLoginRestores FollowsGrants ExpiredSessionEnds
