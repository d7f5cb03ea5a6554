\* Two senders and two listeners, and one purge that unlinks the pipe.
SPECIFICATION Spec
CONSTANTS
  Sender = {s1, s2}
  Listener = {l1, l2}
  Pieces = 2
  MaxPurges = 1
INVARIANT TypeOK
PROPERTIES DeliveredAtMostOnce SendersReturn LoneCommandRuns
CHECK_DEADLOCK FALSE
