SPECIFICATION FairSpec
CONSTANTS
  Plaintexts <- MCPlaintexts
  MaxConnections = 2
  MaxFrames = 2
INVARIANTS RelayResultStable
