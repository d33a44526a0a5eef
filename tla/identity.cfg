SPECIFICATION FairSpec
CONSTANTS
  ann = ann
  bob = bob
  a1 = a1
  a2 = a2
  p = p
  q = q
  NoPin = NoPin
  Request = {r1, r2, r3}
  User = {ann, bob}
  Account = {a1, a2}
  Holder <- MCHolder
  Pin = {p, q}
  Workload <- MCWorkload
  Together <- Devices
  Fault = {"crash", "fail"}
  InitialUser <- MCUser
  InitialWallet <- MCWallet
  SingleLimit <- MCSingle
  MonthlyLimit <- MCMonthly
  InitialSubmission <- MCSubmission
  InitialPin <- MCPin
INVARIANTS IdentityTypeOK OneUserPerEmail VerifiedIsApproved AuditedApproval MissesBounded OneBeneficiaryPerNumber
PROPERTIES ApprovedForGood WithinMonthlyLimit AuditSettles
