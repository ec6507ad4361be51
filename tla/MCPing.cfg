SPECIFICATION Spec
CONSTANTS
  NHosts = 2
  Local <- MCLocal
  Tries = 2
  SeqSpace = 6
  Late = 2
  Timeout = 2
  MaxClockSets = 1
INVARIANT SuccessIsOwn
PROPERTIES Terminates
