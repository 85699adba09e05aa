SPECIFICATION FairFabricSpec
CONSTANTS
  a = a
  b = b
  cpu = cpu
  Rtl = {a, b}
  Cpu = {cpu}
  CycleBudget = 2
  Opcodes = {17, 254}
  MaxCommands = 3
  Streams <- MCStreams
CHECK_DEADLOCK FALSE
INVARIANTS ExactlyOnce TokenWait NeverStuck GlobalCapLoose
PROPERTIES FabricEnds
