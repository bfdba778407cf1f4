SPECIFICATION Spec
CONSTANTS
  Home = "home"
  Others = {"other"}
  Dirs = {"A"}
  Docs = {"d1"}
  DirOf <- MCDirOf
  HomeDir = "A"
  Jobs = {1}
  MaxVersion = 2
  MaxOps <- MCMaxOps
  MaxKeys = 2
  MaxRestarts = 1
  None = None
CHECK_DEADLOCK FALSE
PROPERTIES
  WipeSparesOthers
