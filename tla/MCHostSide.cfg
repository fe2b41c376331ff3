SPECIFICATION MCSpec
CONSTANTS
  Paths <- MCPaths
  Domains = {"d"}
  Hosts <- MCHosts
  Bases <- MCBases
  Proposals <- MCProposals
  MaxTightenings = 1
  MaxSwaps = 1
  MaxMoves = 1
  MaxApiFaults = 2
  MaxSaid = 3
  MaxAsked = 3
  MaxLapses = 1
  Checks = 2
  Limit = 1
  MaxOutput = 2
  MaxFaults = 2
  MaxWrites = 2
INVARIANTS CommandConfined SandboxSound PipeExact VerificationSound WalkExact
PROPERTIES TightenNarrows
CHECK_DEADLOCK FALSE
