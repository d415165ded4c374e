\* Two workers add while a scrape loads; scrapes share nothing with each other,
\* so one is enough.
CONSTANTS
  Worker = {w1, w2}
  Scraper = {s1}
  Cost <- MCCost
  MaxRequests = 3
SPECIFICATION Spec
INVARIANTS NothingLost ErrorsWithinRequests SnapshotBracketed
SYMMETRY Symmetry
