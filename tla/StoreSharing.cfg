CONSTANTS
  Stores = {server, cli, second}
  MaxChunks = 3
SPECIFICATION SharingSpec
INVARIANT OnlyBlindWritesLose
