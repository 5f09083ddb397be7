SPECIFICATION Spec
CONSTANTS
  point = point
  rect = rect
  char = char
  float = float
  string = string
  Structs <- MCStructs
  BaseTypes <- MCBaseTypes
  Indirection <- MCIndirection
  BaseSize <- MCBaseSize
  BaseAlignment <- MCBaseAlignment
  Pointer = 8
  MaxFields = 3
  Kind <- MCKind
  MaxGpr = 2
  MaxSse = 2
  Void = Void
  NoStruct = NoStruct
INVARIANTS
  ExactlyAsC
  ReadsBack
  LayoutsAgree
  WordsAreClassified
  ClosureFindsArguments
  ArgumentsHaveRoom
