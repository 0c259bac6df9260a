SPECIFICATION FairSpec
CONSTANTS
  m1 = m1  m2 = m2  u1 = u1
  a = a  b = b
  t1 = t1  t2 = t2
  i1 = i1  i2 = i2
  q1 = q1  q2 = q2  q3 = q3  q4 = q4
  Messages = {m1, m2}
  Uploads = {u1}
  Digests = {a, b}
  Tenants = {t1}
  Ids = {i1, i2}
  Requests = {q1, q2, q3, q4}
  Job <- CrossedJob
  Attachments <- CrossedAttachments
  Tenant <- SameTenant
  MessageId <- OwnIds
  MaxFailures = 1
INVARIANTS AckedIsRecorded RecordedOnce UploadIsRecordedAndArchived
PROPERTIES ImplementsInbox EveryDeliverySettles
CHECK_DEADLOCK FALSE
