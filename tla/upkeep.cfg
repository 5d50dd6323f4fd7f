SPECIFICATION MCSpec
CONSTANTS
  None = None
  j1 = j1
  j2 = j2
  u1 = u1
  u2 = u2
  f1 = f1
  f2 = f2
  f3 = f3
  r1 = r1
  Files = {f1, f2, f3}
  Requests = {r1}
  Urls = {u1, u2}
  Jobs = {j1, j2}
  RowsOf <- RowsFn
  MaxPages = 2
  RefreshEvery = 2
  Budgets <- TwoBudgets
INVARIANTS NeverOverstated RecrawlEarned FileKept
PROPERTIES CountersSettle
CHECK_DEADLOCK FALSE
