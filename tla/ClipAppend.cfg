SPECIFICATION Spec
CONSTANTS
  Files <- Short
  NULL = NULL
PROPERTY AppendAddsAtEnd
