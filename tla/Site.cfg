\* Small instances of the components behind the commands.
SPECIFICATION Spec
CONSTANTS
  Nothing = Nothing
  Operators = {o1, o2}
  Nukers = {n1, n2}
CHECK_DEADLOCK FALSE
INVARIANTS GroupsSound ChangesKept NukesReturn IndexSound WithinRights DecisionRight MailKept ScriptsObeyed ReadsAsWritten
PROPERTIES StepsKeep
