SPECIFICATION Spec
CONSTANTS
  None = None
  Companion = {c1}
  Executor = {e1}
  Limits = {1}
PROPERTY RetryIsHeard
