CONSTANTS
  b1 = b1
  b2 = b2
  b3 = b3
  x = x
  y = y
  owner = owner
  wallet = wallet
  NoBatch = NoBatch
  Batch = {b1, b2, b3}
  Block = {1, 2, 3, 4}
  Body = {x, y}
  Entity = {owner, wallet}
  Tasks <- MCTasks
  Bodies <- MCBodies
  Version <- MCVersion
  StoredBefore = {3}
  MaxFailures = 1
SPECIFICATION FairSpec
INVARIANTS WaitsForward LatestIsNewest BodiesAccounted
PROPERTIES EventuallyInserted
