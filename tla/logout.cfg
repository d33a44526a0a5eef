SPECIFICATION Spec
CONSTANTS
  ann = ann
  bob = bob
  a1 = a1
  a2 = a2
  p = p
  q = q
  NoPin = NoPin
  Request = {r1, r2}
  User = {ann, bob}
  Account = {a1, a2}
  Holder <- MCHolder
  Pin = {p, q}
  Workload <- LogoutJobs
  Together = {}
  Fault = {}
  InitialUser <- MCUser
  InitialWallet <- MCWallet
  SingleLimit <- MCSingle
  MonthlyLimit <- MCMonthly
  InitialSubmission <- MCSubmission
  InitialPin <- MCPin
PROPERTIES LogoutEndsSession
