\* Two replicas of the ingestion, an aggregator, and the gateway with two requests at
\* a time, with any two faults.
CONSTANTS
  gw = gw
  tel = tel
  sim = sim
  ing1 = ing1
  ing2 = ing2
  agg = agg
  ntf = ntf
  Processes = {gw, ing1, ing2, agg}
  Program <- TheProgram
  Requests = {1, 2}
  MaxFaults = 2
SPECIFICATION FairSpec
INVARIANTS TypeOK TopicsReady
PROPERTIES CleanExit EndsWhenTold Boots
