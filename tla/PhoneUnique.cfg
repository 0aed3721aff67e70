\* Two members with one telephone.
CONSTANTS
  i0 = i0
  i1 = i1
  NO_ISBN = i0
  Isbn <- TwoIsbns
  Email = {e1, e2}
  Phone = {p1}
  MaxBookId = 1
  MaxMemberId = 2
  MaxLoanId = 1
  MAX_BOOKS_PER_MEMBER = 1
  MAX_RENEWAL_COUNT = 2
  DEFAULT_LOAN_DAYS = 14
  Copies = {1}
  LoanDays = {0}
  FirstDay <- Opening
  MaxDay = 20000
  LastDay = 21000
  BackupPaths = {}
SPECIFICATION Spec
INVARIANT PhoneUnique
