\* Small instances of the components below the commands.
SPECIFICATION Spec
CONSTANTS
  Pids = {p1, p2}
  Sessions = {s1, s2}
SYMMETRY SupportSymmetry
CHECK_DEADLOCK FALSE
INVARIANTS ListenerRight OpenRight ConfigFollowed ServerSound ChecksumSound ConversionsExact StatisticsSound
