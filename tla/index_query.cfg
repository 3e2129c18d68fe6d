CONSTANTS
  z = z
  a1 = a1
  a2 = a2
  a3 = a3
  l4 = l4
  r4 = r4
  l5 = l5
  l6 = l6
  m7 = m7
  McBlock = McBlock
  Block = {a1, a2, a3, l4, r4, l5, l6, m7}
  ZeroState = {z}
  Prev <- MCPrev
  Ref <- MCRef
  Tops <- MCTops
  MaxErrors = 1
SPECIFICATION FairSpec
INVARIANTS AnswerIsExact
PROPERTIES EventuallyAnswered
