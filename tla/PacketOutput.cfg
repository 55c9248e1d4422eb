SPECIFICATION Spec
CONSTANTS
  Lengths  <- MCLengths
  Snaplens <- MCSnaplens
  Nibbles  <- MCNibbles
  Bytes    <- MCBytes
  Words    <- MCWords
  Ports    <- MCPorts
  MaxBlanks = 2
  MaxLine = 3
INVARIANTS OutputReadsBack
