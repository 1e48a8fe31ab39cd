SPECIFICATION Spec
CONSTANTS
  SkipModes = {TRUE, FALSE}
  Programs = {"any", "careful", "monitor"}
  SilentModes = {TRUE, FALSE}
  Nodes = {"sda", "sdb"}
  AutoPaths = {"auto", "auto2"}
INVARIANTS NodeKnown
PROPERTIES  EjectUnmounts MonitorMounts
