SPECIFICATION Spec
CONSTANTS
  None = None
  DirNames = {a, b}
  FileName = c
  Names <- MCNames
  Paths <- MCPaths
  Dirs <- MCDirs
  Writes = 1
PROPERTY NotFoundIsNotThere
