SPECIFICATION FairSpec
CONSTANTS
  Probers = {p1, p2}
  States = {"Up", "Down"}
  None = none
  NoThread = free
  VerMod = 3
  MaxEpoch = 3
PROPERTIES NeverBack KeepsSnapshotPromise Settles
