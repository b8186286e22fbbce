SPECIFICATION WebhooksFairSpec
CONSTANTS
  e1 = e1  e2 = e2  w1 = w1  w2 = w2
  Events = {e1, e2}
  Workers = {w1, w2}
  maxAttempts = 2
  limit = 2
  MsPerSec = 10
  toleranceSec = 3
  sentAt = 100
  MaxRetries = 1
  Absent = Absent
PROPERTIES DeliveredStays EventSettles DeadIsAlerted
