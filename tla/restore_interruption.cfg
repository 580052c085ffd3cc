SPECIFICATION FairSpec
CONSTANTS
  orders = orders
  payments = payments
  Topics = {orders, payments}
  Originals = {payments}
  MaxAttempts = 2
  MaxUpsets = 2
INVARIANTS WriterGone OneJobAtWork RemovedIsTrue
PROPERTIES HonestSpec CancelSettles CleanupSettles
CHECK_DEADLOCK FALSE
