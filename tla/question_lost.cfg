CONSTANTS
  Command = {"k1", "k2"}
  Question = {"k2"}
  Server = {s1, s2}
  MaxUpsets = 2
SPECIFICATION ControlSpec
INVARIANT AnswerIsDelivered
CHECK_DEADLOCK FALSE
