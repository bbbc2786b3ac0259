SPECIFICATION BenchSpec
CONSTANTS
  MaxStarts = 3
  Lengths = {4096, 8192}
  Used <- AllConfigs
  Benched <- TwoConfigs
  Prompts = 2
  Warmups = 1
  Repeats = 2
  Layers = {1, 2}
  Heads = {1, 3}
  Dims = {2}
  Scalars = {1, 2}
  Contexts = {1, 2, 5}
  Concurrent = {1, 2, 3}
  Extras = {0, 1}
  Overheads = {0, 33, 50}
  Bytes = {7, 40, 96, 120, 143, 144, 145}
INVARIANTS RunsLatestEngine BenchHonest
PROPERTIES KeepsPromise
