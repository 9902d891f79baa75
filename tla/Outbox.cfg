CONSTANTS
  paid = paid
  scheduled = scheduled
  customer = customer
  technician = technician
  Events = {paid, scheduled}
  Users = {customer, technician}
  Recipients <- RecipientsOf
  Workers = {w1, w2}
  BatchSize = 2
  MaxAttempts = 2
  MaxCrashes = 1
SPECIFICATION FairSpec
PROPERTY KeepsPromise
CHECK_DEADLOCK FALSE
