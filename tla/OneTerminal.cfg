\* One terminal, killed at any moment, with a reader outside.
CONSTANTS
  i0 = i0
  i1 = i1
  e1 = e1
  e2 = e2
  p1 = p1
  NO_ISBN = i0
  Isbn = {i0, i1}
  Email = {e1}
  Phone = {p1}
  MaxBookId = 2
  MaxMemberId = 2
  MaxLoanId = 1
  MAX_BOOKS_PER_MEMBER = 2
  MAX_RENEWAL_COUNT = 2
  DEFAULT_LOAN_DAYS = 14
  LastDay = 21000
  Today <- Opening
  Terminal = {t1}
  Calls <- AllCalls
  Copies = {1}
  BackupPaths = {f1}
  Stock <- OneCopyOneMember
  Outside = TRUE
  Noted = {}
SPECIFICATION FairSpec
PROPERTIES ActsAlone LendsAsPromised CallsEnd
