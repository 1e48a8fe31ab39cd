SPECIFICATION Spec
CONSTANTS
  SkipModes <- Never
  Programs <- OnlyCareful
  SilentModes <- Never
  Nodes = {"sda"}
  AutoPaths = {"auto"}
PROPERTIES ReturnedPathIsMounted
