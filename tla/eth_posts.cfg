SPECIFICATION FairSpec
CONSTANTS
  Client = {c1, c2}
  t1 = t1
  t2 = t2
  Tx <- MCTx
  Unparsed = Unparsed
  Unsigned = Unsigned
  NoRaw = NoRaw
  Quoted = Quoted
  NoPost = NoPost
  Bodies <- MCBodies
  MaxPosts = 3
CHECK_DEADLOCK FALSE
INVARIANTS TypeOK WrittenAsAsked ReadsAreCurrent
PROPERTIES PostAnswered
