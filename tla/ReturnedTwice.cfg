\* Two terminals take the same loan back.
CONSTANTS
  i0 = i0
  i1 = i1
  e1 = e1
  e2 = e2
  p1 = p1
  NO_ISBN = i0
  Isbn = {i0, i1}
  Email = {e1, e2}
  Phone = {p1}
  MaxBookId = 1
  MaxMemberId = 2
  MaxLoanId = 2
  MAX_BOOKS_PER_MEMBER = 2
  MAX_RENEWAL_COUNT = 2
  DEFAULT_LOAN_DAYS = 14
  LastDay = 21000
  Today <- Opening
  Terminal = {t1, t2}
  Calls <- LoansAndReturns
  Copies = {1}
  BackupPaths = {}
  Stock <- OneCopyTwoMembers
  Outside = FALSE
  Noted = {}
SPECIFICATION Spec
INVARIANT CopiesWithinTotal
