CONSTANTS
  customer = customer
  Notices = {n1}
  Users = {customer, other}
  Recipient <- RecipientOf
  Devices = {d1}
  Workers = {w1, w2}
  Nothing = Nothing
  BatchSize = 1
  MaxAttempts = 2
  MaxCrashes = 1
  MaxSessions = 3
  MaxRetries = 1
SPECIFICATION FairSpec
 
PROPERTY PushesSettle
CHECK_DEADLOCK FALSE
