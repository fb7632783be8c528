SPECIFICATION Spec
CONSTANTS
  Terminal = {k1, k2}
  MaxOpens = 3
  MaxMessages = 2
  MaxFaults = 2
INVARIANT NoDaemonBesideTui
PROPERTIES
  TopicComesBack
  MessagesFlow
