SPECIFICATION FairSpec
CONSTANTS
  Masters = {m1, m2}
  Workers = {w1, w2, w3}
  total_items = 5
  max_buf_size = 2
INVARIANTS ExactlyOnce WaitersJustified NobodyStuck
PROPERTY Termination
