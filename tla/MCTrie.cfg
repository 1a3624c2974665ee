SPECIFICATION Spec
CONSTANTS
  a = a
  b = b
  c = c
  f1 = f1
  f2 = f2
  NoLine = NoLine
  Words <- FiveWords
  Files <- TwoFiles
  Lines <- SomeLines
  Queries <- SomeQueries
  MaxLines = 2
  MaxQueries = 2
INVARIANTS
  TrieTypeOK
  TreeShape
  AnswersTheQuery
PROPERTY ImplementsIndex
