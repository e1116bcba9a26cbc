SPECIFICATION FairSpec
CONSTANTS
  e1 = e1  e2 = e2  d1 = d1  d2 = d2  d3 = d3  d4 = d4  x1 = x1  w1 = w1  t1 = t1  u1 = u1
  Events <- MCEvents
  Topic <- MCTopic
  Key <- MCKey
  Subject <- MCSubject
  UserOf <- MCUserOf
  Offers <- MCOffers
  Requests = {h1, h2}
  TopUpMaxPerToken = 1
  MaxFaults = 2
INVARIANTS   ErasedIsForgotten
PROPERTIES EveryRequestIsAnswered
