CONSTANTS
  w1 = w1
  w2 = w2
  w3 = w3
  seed = seed
  record = record
  Workers <- ThreeWorkers
  Seed = seed
  Stores = {"Postgres", "PostgresEra", "Sqlite", "Heki"}
  Kinds <- LoneReaders
  LockKeys <- SameKey
  Keys = {record}
  Bars <- OneBars
  Retries = 2
  Alongside = FALSE
  MaxCrashes = 1
  MaxBoots = 1
SPECIFICATION LiveSpec
INVARIANTS JournalAgrees CheckpointCovers
PROPERTIES CommitsOnWhatItRead Linearizable Answered
CHECK_DEADLOCK FALSE
