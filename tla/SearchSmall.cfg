\* Two kinds of row, memory that may run out, a maximum no doubling hits.
CONSTANTS
  Row = {r1, r2}
  Unset = Unset
  Lengths = {0, 1, 2, 3, 4, 5, 6}
  ListLimit = 3
  INITIAL_SEARCH_CAPACITY = 1
  MAX_SEARCH_RESULTS = 5
SPECIFICATION Spec
INVARIANTS TypeOK AnswerWhole RefusedForLength Proportionate NoLeak
