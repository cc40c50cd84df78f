SPECIFICATION Spec
CONSTANTS
  TTY_BUFFLEN = 2
  TxEnabled = {FALSE, TRUE}
  MaxKeys = 4
  MaxPuts = 3
INVARIANTS KeysKept NeverMore OutputKept KeysReadOnce
CHECK_DEADLOCK FALSE
