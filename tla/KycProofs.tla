----------------------------- MODULE KycProofs -----------------------------
(***************************************************************************)
(* KYC reviews, as part of Identity: what a customer's user row,           *)
(* submission and audit entries say of each other, if submissions and      *)
(* reviews wait their turn.                                                *)
(***************************************************************************)
EXTENDS IdentityProofs

-----------------------------------------------------------------------------
(* Reviews.                                                                *)

\* The kinds of request that write a submission.
KycKind == {"submit", "approve", "reject"}

\* The statements at which a request counts on the rows it has read.
Places == {"submitFind", "submitInsert", "submitSave", "reviewSave", "userUpdate", "accountsFind",
           "nextFind", "nextSave", "activeSave"}

\* The two rows agree that the customer is known.
Verified(u) == submission[u] = "approved" /\ user[u].kycStatus = "verified"

\* Submissions are those of registered users; a verified one has been approved.
CustomerInv(u) ==
    /\ submission[u] # "none" => user[u].registered
    /\ user[u].kycStatus = "verified" => submission[u] = "approved"

\* What r counts on is still so, and an approval that logged has been completed.
PlaceInv(r) ==
    /\ pc[r] \in {"submitFind", "submitInsert", "submitSave", "activeSave"}
        => user[Whom(r)].registered
    /\ pc[r] = "activeSave" => entity[r].kycStatus = user[Whom(r)].kycStatus
    /\ pc[r] = "submitSave" => submission[Whom(r)] = "rejected"
    /\ pc[r] = "reviewSave" => submission[Whom(r)] \in {"submitted", "rejected"}
    /\ pc[r] = "userUpdate" =>
        submission[Whom(r)] = IF Approving(r) THEN "approved" ELSE "rejected"
    /\ pc[r] \in {"accountsFind", "nextFind", "nextSave"} => Verified(Whom(r))
    /\ Approving(r) /\ entry[r].state # "none" => Verified(Whom(r))

KycInv ==
    /\ \A u \in User : CustomerInv(u)
    /\ \A r \in Request : PlaceInv(r)

LEMMA KycInvInit == IdentityInit => KycInv
<1> SUFFICES ASSUME IdentityInit PROVE KycInv
  OBVIOUS
<1>1. ASSUME NEW u \in User PROVE CustomerInv(u)
  BY InitialSubmissionAssumption DEF IdentityInit, UsersInit, KycInit, CustomerInv
<1>2. ASSUME NEW r \in Request PROVE PlaceInv(r)
  BY DEF IdentityInit, RequestsInit, AuditInit, NoEntry, PlaceInv
<1> QED BY <1>1, <1>2 DEF KycInv

\* A request on whose rows nothing changes keeps what it counts on.
LEMMA PlaceKept ==
    ASSUME NEW r \in Request, PlaceInv(r), job' = job,
           pc'[r] \in Places => pc'[r] = pc[r] /\ entity'[r] = entity[r],
           entry[r].state = "none" => entry'[r].state = "none",
           submission'[Whom(r)] = submission[Whom(r)],
           user'[Whom(r)].kycStatus = user[Whom(r)].kycStatus,
           user[Whom(r)].registered => user'[Whom(r)].registered
    PROVE  PlaceInv(r)'
<1>1. Whom(r)' = Whom(r) /\ (Approving(r)' <=> Approving(r))
  BY DEF Whom, Approving
<1>2. Verified(Whom(r)) => Verified(Whom(r))'
  BY <1>1 DEF Verified
<1>3. CASE pc'[r] \in Places
  <2>1. pc'[r] = pc[r] /\ entity'[r] = entity[r]
    BY <1>3
  <2> QED BY <1>1, <1>2, <2>1 DEF PlaceInv
<1>4. CASE pc'[r] \notin Places
  BY <1>1, <1>2, <1>4 DEF PlaceInv, Places
<1> QED BY <1>3, <1>4

\* One that awaits none of these statements counts on an approval alone.
LEMMA PlaceLeft ==
    ASSUME NEW r \in Request, PlaceInv(r), job' = job, pc'[r] \notin Places,
           entry[r].state = "none" => entry'[r].state = "none",
           Verified(Whom(r)) => Verified(Whom(r))'
    PROVE  PlaceInv(r)'
<1>1. Whom(r)' = Whom(r) /\ (Approving(r)' <=> Approving(r))
  BY DEF Whom, Approving
<1> QED BY <1>1 DEF PlaceInv, Places

\* Steps that change no row as far as reviews are concerned.
LEMMA KycQuiet ==
    ASSUME KycInv, job' = job, submission' = submission, \A s \in Request : Whom(s) \in User,
           \A u \in User : /\ user'[u].kycStatus = user[u].kycStatus
                           /\ user[u].registered => user'[u].registered,
           \A s \in Request :
            \/ PlaceInv(s)'
            \/ /\ pc'[s] \in Places => pc'[s] = pc[s] /\ entity'[s] = entity[s]
               /\ entry[s].state = "none" => entry'[s].state = "none"
    PROVE  KycInv'
<1>1. ASSUME NEW u \in User PROVE CustomerInv(u)'
  BY DEF KycInv, CustomerInv
<1>2. ASSUME NEW s \in Request PROVE PlaceInv(s)'
  BY PlaceKept DEF KycInv
<1> QED BY <1>1, <1>2 DEF KycInv

\* A queued request changes the rows of its customer, about whom no other one is
\* in flight.
LEMMA KycChange ==
    ASSUME Queued(KycKind), CoreInv, KycInv, NEW r \in Request, InFlight(r), job[r].kind \in KycKind,
           OnlyMoves(r), entity' = entity,
           \A u \in User : u # Whom(r) => user'[u] = user[u] /\ submission'[u] = submission[u],
           \A s \in Request : s # r => entry'[s] = entry[s],
           CustomerInv(Whom(r))', PlaceInv(r)', Verified(Whom(r)) => Verified(Whom(r))'
    PROVE  KycInv'
<1>j. \A s \in Request : Whom(s) \in User
  BY JobFields DEF CoreInv, BaseInv, ControlInv
<1>0. job' = job /\ Whom(r)' = Whom(r)
  BY DEF OnlyMoves, Whom
<1>1. ASSUME NEW u \in User PROVE CustomerInv(u)'
  <2>1. CASE u = Whom(r)
    BY <1>0, <2>1 DEF CustomerInv
  <2>2. CASE u # Whom(r)
    BY <2>2 DEF KycInv, CustomerInv
  <2> QED BY <2>1, <2>2
<1>2. ASSUME NEW s \in Request, s # r PROVE PlaceInv(s)'
  <2>1. PlaceInv(s) /\ pc'[s] = pc[s] /\ entity'[s] = entity[s] /\ entry'[s] = entry[s]
    BY <1>2 DEF KycInv, OnlyMoves
  <2>2. CASE Whom(s) # Whom(r)
    BY <1>0, <1>j, <2>1, <2>2, PlaceKept
  <2>3. CASE Whom(s) = Whom(r)
    <3>1. ~InFlight(s)
      BY <1>2, <2>3, QueuedAlone DEF CoreInv
    <3>2. pc'[s] \notin Places
      BY <2>1, <3>1 DEF InFlight, Answered, Places
    <3>3. Verified(Whom(s)) => Verified(Whom(s))'
      BY <1>0, <2>3, <1>j DEF Verified, Whom
    <3> QED BY <1>0, <2>1, <3>2, <3>3, PlaceLeft
  <2> QED BY <2>2, <2>3
<1> QED BY <1>1, <1>2 DEF KycInv

LEMMA KycUsers ==
    ASSUME CoreInv, RegisteredInv, KycInv, NEW r \in Request, UsersStep(r),
           UNCHANGED <<submission, entry>>
    PROVE  KycInv'
<1>0. ControlInv /\ Located /\ UsersTypeOK
  BY DEF CoreInv, BaseInv, ControlInv
<1>j. \A s \in Request : Whom(s) \in User
  BY <1>0, JobFields
<1>r. OnlyMoves(r) /\ job' = job /\ Whom(r)' = Whom(r) /\ Whom(r) \in User
  BY <1>0, <1>j, UsersActor DEF OnlyMoves, Whom
<1>i. PlaceInv(r) /\ CustomerInv(Whom(r)) /\ Whom(r) \in User
  BY <1>j DEF KycInv
<1>q. ASSUME user' = user, \A s \in Request : s # r => entity'[s] = entity[s],
             PlaceInv(r)' \/ pc'[r] \notin Places
      PROVE KycInv'
  BY <1>j, <1>q, <1>r, KycQuiet DEF OnlyMoves
<1> USE DEF At, Goto
<1>1. CASE Authenticate(r)
  <2>1. pc'[r] = FirstStep[job[r].kind] \/ pc'[r] = "refused"
    BY <1>0, <1>1 DEF Authenticate, Located
  <2>2. FirstStep[job[r].kind] \notin Places \ {"submitFind"}
    <3>1. job[r].kind \in Kind
      BY <1>0, JobFields
    <3> QED BY <3>1 DEF FirstStep, Kind, CustomerKind, OtherKind, Places
  <2>3. user' = user /\ entity' = entity /\ (pc'[r] = "submitFind" => user[Whom(r)].registered)
    BY <1>0, <1>1 DEF Authenticate, users, Located
  <2>4. CASE pc'[r] = "submitFind"
    <3>1. Verified(Whom(r)) => Verified(Whom(r))'
      BY <1>r, <2>3 DEF Verified
    <3>2. PlaceInv(r)'
      BY <1>i, <1>r, <2>3, <2>4, <3>1 DEF PlaceInv, Approving
    <3> QED BY <1>q, <2>3, <3>2
  <2>5. CASE pc'[r] # "submitFind"
    <3>1. pc'[r] \notin Places
      BY <2>1, <2>2, <2>5 DEF Places
    <3> QED BY <1>q, <2>3, <3>1
  <2> QED BY <2>4, <2>5
<1>2. CASE RegisterFind(r) \/ LoginFind(r) \/ RefreshFind(r) \/ Logout(r)
  <2>1. users' = users /\ pc'[r] \in {"refused", "create", "tokenUpdate", "ok"}
    BY <1>0, <1>2 DEF RegisterFind, LoginFind, RefreshFind, Logout, Located
  <2>2. pc'[r] \notin Places
    BY <2>1 DEF Places
  <2> QED BY <1>q, <2>1, <2>2 DEF users
<1>3. CASE CreateUser(r)
  <2>0. pc'[r] \in {"error", "tokenUpdate"} /\ entity' = entity
    BY <1>0, <1>3 DEF CreateUser, Located
  <2>1. pc'[r] \notin Places
    BY <2>0 DEF Places
  <2>2. CASE user[Whom(r)].registered
    BY <1>3, <1>q, <2>0, <2>1, <2>2 DEF CreateUser
  <2>3. CASE ~user[Whom(r)].registered
    <3>1. /\ user'[Whom(r)].registered /\ user'[Whom(r)].kycStatus = "pending"
          /\ \A u \in User : u # Whom(r) => user'[u] = user[u]
      BY <1>0, <1>3, <1>r, <2>3 DEF CreateUser, UsersTypeOK, NoUser
    <3>2. submission[Whom(r)] = "none"
      BY <1>i, <2>3 DEF CustomerInv
    <3>3. ASSUME NEW u \in User PROVE CustomerInv(u)'
      <4>1. CASE u = Whom(r)
        BY <3>1, <4>1 DEF CustomerInv
      <4>2. CASE u # Whom(r)
        BY <3>1, <4>2 DEF CustomerInv, KycInv
      <4> QED BY <4>1, <4>2
    <3>4. ASSUME NEW s \in Request PROVE PlaceInv(s)'
      <4>0. PlaceInv(s) /\ Whom(s) \in User /\ Whom(s)' = Whom(s)
        BY <1>j, <1>r DEF KycInv, Whom
      <4>1. CASE Whom(s) = Whom(r)
        <5>1. pc'[s] \notin Places
          BY <1>r, <2>1, <2>3, <3>2, <4>0, <4>1 DEF PlaceInv, Places, Verified, OnlyMoves
        <5>2. ~Verified(Whom(s))
          BY <3>2, <4>1 DEF Verified
        <5> QED BY <1>r, <4>0, <5>1, <5>2, PlaceLeft
      <4>2. CASE Whom(s) # Whom(r)
        BY <1>r, <2>0, <3>1, <4>0, <4>2, PlaceKept DEF OnlyMoves
      <4> QED BY <4>1, <4>2
    <3> QED BY <3>3, <3>4 DEF KycInv
  <2> QED BY <2>2, <2>3
<1>4. CASE TokenUpdate(r)
  <2>1. pc'[r] = "ok" /\ entity' = entity
    BY <1>0, <1>4 DEF TokenUpdate, Located
  <2>2. \A u \in User : /\ user'[u].kycStatus = user[u].kycStatus
                        /\ user[u].registered => user'[u].registered
    BY <1>0, <1>4, <1>r DEF TokenUpdate, SetUser, UsersTypeOK, UserRow
  <2>3. pc'[r] \notin Places
    BY <2>1 DEF Places
  <2> QED BY <1>j, <1>r, <2>1, <2>2, <2>3, KycQuiet DEF OnlyMoves
<1>5. CASE ActiveFind(r)
  <2>1. user' = user /\ \A s \in Request : s # r => entity'[s] = entity[s]
    BY <1>0, <1>5 DEF ActiveFind, UsersTypeOK
  <2>2. CASE user[Whom(r)].registered
    <3>1. /\ pc'[r] = "activeSave" /\ entity'[r].kycStatus = user[Whom(r)].kycStatus
      BY <1>0, <1>5, <1>r, <2>2 DEF ActiveFind, UsersTypeOK, UserRow, Located
    <3>2. Verified(Whom(r)) => Verified(Whom(r))'
      BY <1>r, <2>1 DEF Verified
    <3>3. PlaceInv(r)'
      BY <1>i, <1>r, <2>1, <2>2, <3>1, <3>2 DEF PlaceInv, Approving
    <3> QED BY <1>q, <2>1, <3>3
  <2>3. CASE ~user[Whom(r)].registered
    <3>1. pc'[r] = "refused"
      BY <1>0, <1>5, <2>3 DEF ActiveFind, Located
    <3>2. pc'[r] \notin Places
      BY <3>1 DEF Places
    <3> QED BY <1>q, <2>1, <3>2
  <2> QED BY <2>2, <2>3
<1>6. CASE ActiveSave(r)
  <2>1. /\ pc'[r] \in {"ok", "error"} /\ pc[r] = "activeSave"
        /\ \A s \in Request : s # r => entity'[s] = entity[s]
    BY <1>0, <1>6 DEF ActiveSave, UsersTypeOK, Located
  <2>2. \A u \in User : user'[u] = user[u] \/ (u = Whom(r) /\ user'[u] = entity[r])
    BY <1>0, <1>6 DEF ActiveSave, UsersTypeOK
  <2>3. entity[r].registered /\ entity[r].kycStatus = user[Whom(r)].kycStatus
    BY <1>i, <2>1 DEF RegisteredInv, PlaceInv
  <2>4. \A u \in User : /\ user'[u].kycStatus = user[u].kycStatus
                        /\ user[u].registered => user'[u].registered
    BY <2>2, <2>3
  <2>5. pc'[r] \notin Places
    BY <2>1 DEF Places
  <2> QED BY <1>j, <1>r, <2>1, <2>4, <2>5, KycQuiet DEF OnlyMoves
<1> QED BY <1>1, <1>2, <1>3, <1>4, <1>5, <1>6 DEF UsersStep

LEMMA KycReviews ==
    ASSUME Queued(KycKind), CoreInv, RegisteredInv, KycInv, NEW r \in Request, KycStep(r)
    PROVE  KycInv'
<1>0. ControlInv /\ Located /\ UsersTypeOK /\ KycTypeOK /\ AuditTypeOK
  BY DEF CoreInv, BaseInv, ControlInv, AuditInv
<1>j. \A s \in Request : Whom(s) \in User
  BY <1>0, JobFields
<1>r. /\ OnlyMoves(r) /\ job' = job /\ InFlight(r) /\ job[r].kind \in KycKind
      /\ Whom(r)' = Whom(r) /\ Whom(r) \in User /\ (Approving(r)' <=> Approving(r))
  BY <1>0, <1>j, KycActor DEF OnlyMoves, Whom, KycKind, Approving
<1>i. PlaceInv(r) /\ CustomerInv(Whom(r))
  BY <1>j DEF KycInv
<1>v. user' = user /\ submission' = submission => (Verified(Whom(r)) => Verified(Whom(r))')
  BY <1>r DEF Verified
<1>l. Log(r) => \A s \in Request : s # r => entry'[s] = entry[s]
  BY <1>0 DEF Log, AuditTypeOK
<1>s. ASSUME NEW status, SetSubmission(r, status)
      PROVE  /\ submission'[Whom(r)] = status
             /\ \A u \in User : u # Whom(r) => submission'[u] = submission[u]
  BY <1>0, <1>r, <1>s DEF SetSubmission, KycTypeOK
<1>q. ASSUME UNCHANGED <<users, submission>>, \A s \in Request : s # r => entry'[s] = entry[s],
             PlaceInv(r)'
      PROVE KycInv'
  BY <1>j, <1>q, <1>r, KycQuiet DEF OnlyMoves, users
<1>c. ASSUME entity' = entity, \A s \in Request : s # r => entry'[s] = entry[s],
             \A u \in User : u # Whom(r) => user'[u] = user[u] /\ submission'[u] = submission[u],
             CustomerInv(Whom(r))', PlaceInv(r)', Verified(Whom(r)) => Verified(Whom(r))'
      PROVE KycInv'
  BY <1>c, <1>r, KycChange
<1> USE DEF At, Goto
<1>1. CASE SubmitFind(r)
  <2>1. UNCHANGED <<users, submission, entry>>
    BY <1>1 DEF SubmitFind
  <2>2. /\ pc[r] = "submitFind" /\ pc'[r] \in {"refused", "submitInsert", "submitSave"}
        /\ pc'[r] = "submitSave" => submission[Whom(r)] = "rejected"
    BY <1>0, <1>1 DEF SubmitFind, MaySubmit, Located
  <2>3. PlaceInv(r)'
    BY <1>i, <1>r, <1>v, <2>1, <2>2 DEF PlaceInv, users
  <2> QED BY <1>q, <2>1, <2>3
<1>2. CASE SubmitInsert(r) \/ SubmitSave(r)
  <2>1. pc[r] \in {"submitInsert", "submitSave"} /\ users' = users /\ pc'[r] \in {"ok", "error"}
    BY <1>0, <1>2 DEF SubmitInsert, SubmitSave, Located
  <2>2. CASE submission' = submission /\ entry' = entry
    <3>1. PlaceInv(r)'
      BY <1>i, <1>r, <1>v, <2>1, <2>2 DEF PlaceInv, users
    <3> QED BY <1>q, <2>1, <2>2, <3>1
  <2>3. CASE SetSubmission(r, "submitted") /\ Log(r) /\ submission[Whom(r)] # "approved"
    <3>1. submission'[Whom(r)] = "submitted" /\ ~Verified(Whom(r))
      BY <1>s, <2>3 DEF Verified
    <3>2. user' = user /\ user[Whom(r)].registered /\ user[Whom(r)].kycStatus # "verified"
      BY <1>i, <2>1, <2>3 DEF PlaceInv, users, CustomerInv
    <3>3. CustomerInv(Whom(r))'
      BY <1>r, <3>1, <3>2 DEF CustomerInv
    <3>4. ~Approving(r)
      BY <1>0, <2>1 DEF ControlInv, Fits, Approving
    <3>5. PlaceInv(r)'
      BY <1>r, <2>1, <3>4 DEF PlaceInv
    <3> QED BY <1>c, <1>l, <1>s, <2>1, <2>3, <3>1, <3>2, <3>3, <3>5 DEF users
  <2>4. submission[Whom(r)] = "approved" => submission' = submission /\ entry' = entry
    BY <1>2, <1>i DEF SubmitInsert, SubmitSave, PlaceInv
  <2>5. \/ submission' = submission /\ entry' = entry
        \/ SetSubmission(r, "submitted") /\ Log(r)
    BY <1>2 DEF SubmitInsert, SubmitSave
  <2> QED BY <2>2, <2>3, <2>4, <2>5
<1>3. CASE ReviewFind(r)
  <2>1. UNCHANGED <<users, submission, entry>>
    BY <1>3 DEF ReviewFind
  <2>2. /\ pc[r] = "reviewFind" /\ pc'[r] \in {"refused", "reviewSave"}
        /\ pc'[r] = "reviewSave" => submission[Whom(r)] \in {"submitted", "rejected"}
    BY <1>0, <1>3, <1>r DEF ReviewFind, Located, KycTypeOK, SubmissionStatus
  <2>3. PlaceInv(r)'
    BY <1>i, <1>r, <1>v, <2>1, <2>2 DEF PlaceInv, users
  <2> QED BY <1>q, <2>1, <2>3
<1>4. CASE ReviewSave(r)
  <2>1. /\ submission[Whom(r)] \in {"submitted", "rejected"} /\ ~Verified(Whom(r))
        /\ user[Whom(r)].kycStatus # "verified" /\ user[Whom(r)].registered
    BY <1>4, <1>i DEF ReviewSave, PlaceInv, Verified, CustomerInv
  <2>2. /\ user' = user /\ entity' = entity /\ entry' = entry /\ pc'[r] = "userUpdate"
        /\ submission'[Whom(r)] = IF Approving(r) THEN "approved" ELSE "rejected"
        /\ \A u \in User : u # Whom(r) => submission'[u] = submission[u]
    BY <1>0, <1>4, <1>s DEF ReviewSave, users, Located
  <2>3. CustomerInv(Whom(r))'
    BY <1>r, <2>1, <2>2 DEF CustomerInv
  <2>4. PlaceInv(r)'
    BY <1>i, <1>r, <2>1, <2>2 DEF PlaceInv
  <2> QED BY <1>c, <2>1, <2>2, <2>3, <2>4
<1>5. CASE UserUpdate(r)
  <2>1. submission[Whom(r)] = IF Approving(r) THEN "approved" ELSE "rejected"
    BY <1>5, <1>i DEF UserUpdate, PlaceInv
  <2>2. /\ submission' = submission /\ entity' = entity
        /\ \A s \in Request : s # r => entry'[s] = entry[s]
        /\ Approving(r) => pc'[r] = "accountsFind" /\ entry' = entry
        /\ ~Approving(r) => pc'[r] = "ok"
    BY <1>0, <1>5, <1>l DEF UserUpdate, Located
  <2>3. /\ user'[Whom(r)].kycStatus = IF Approving(r) THEN "verified" ELSE "rejected"
        /\ user'[Whom(r)].registered = user[Whom(r)].registered
        /\ \A u \in User : u # Whom(r) => user'[u] = user[u]
    BY <1>0, <1>5, <1>r DEF UserUpdate, SetUser, UsersTypeOK, UserRow
  <2>4. CustomerInv(Whom(r))'
    BY <1>i, <1>r, <2>1, <2>2, <2>3 DEF CustomerInv
  <2>5. Approving(r) => Verified(Whom(r))'
    BY <1>r, <2>1, <2>2, <2>3 DEF Verified
  <2>6. ~Approving(r) => ~Verified(Whom(r))
    BY <2>1 DEF Verified
  <2>7. PlaceInv(r)'
    BY <1>r, <2>2, <2>5 DEF PlaceInv
  <2> QED BY <1>c, <2>2, <2>3, <2>4, <2>5, <2>6, <2>7
<1>6. CASE AccountsFind(r) \/ NextFind(r) \/ NextSave(r) \/ UpgradeFails(r)
  <2>1. Verified(Whom(r))
    <3>1. pc[r] \in {"accountsFind", "nextFind", "nextSave"}
      BY <1>6 DEF AccountsFind, NextFind, NextSave, UpgradeFails
    <3> QED BY <1>i, <3>1 DEF PlaceInv
  <2>2. /\ UNCHANGED <<users, submission>> /\ (Log(r) \/ entry' = entry)
        /\ pc'[r] \in {"nextFind", "nextSave", "ok"}
    BY <1>0, <1>6 DEF AccountsFind, NextFind, NextSave, UpgradeFails, Proceed, TierFind, Located
  <2>3. PlaceInv(r)'
    BY <1>r, <1>v, <2>1, <2>2 DEF PlaceInv, users
  <2> QED BY <1>l, <1>q, <2>2, <2>3
<1> QED BY <1>1, <1>2, <1>3, <1>4, <1>5, <1>6 DEF KycStep

LEMMA KycNext ==
    ASSUME Queued(KycKind), CoreInv, RegisteredInv, KycInv, [Next]_identity
    PROVE  KycInv'
<1>0. ControlInv /\ Located
  BY DEF CoreInv, BaseInv, ControlInv
<1>j. \A s \in Request : Whom(s) \in User
  BY <1>0, JobFields
<1>e. ASSUME UNCHANGED <<user, submission>>, NoneEnters(Places), entry' = entry,
             \A s \in Request : pc'[s] \in Places => entity'[s] = entity[s]
      PROVE KycInv'
  BY <1>e, <1>j, KycQuiet DEF NoneEnters
<1>1. ASSUME NEW r \in Request, UsersStep(r), UNCHANGED <<submission, entry>> PROVE KycInv'
  BY <1>1, KycUsers
<1>2. ASSUME NEW r \in Request, KycStep(r) PROVE KycInv'
  BY <1>2, KycReviews
<1>p. Places \subseteq (Inner \cup {"submitFind"}) \ (WalletInner \cup PinInner \cup SavedInner)
  BY DEF Places, Inner, UserInner, KycInner, WalletInner, PinInner, SavedInner
<1>n. ASSUME NEW r \in Request, OnlyMoves(r), pc'[r] # "submitFind",
             \/ NoneEnters(Inner) \/ NoneEnters(Inner \ WalletInner)
             \/ NoneEnters(Inner \ PinInner) \/ NoneEnters(Inner \ SavedInner)
      PROVE NoneEnters(Places)
  BY <1>n, <1>p DEF NoneEnters, OnlyMoves
<1>3. ASSUME NEW r \in Request,
             WalletsStep(r) \/ PinStep(r) \/ BeneficiariesStep(r) \/ TryAgain(r) \/ Arrive(r),
             UNCHANGED <<users, submission, entry>>
      PROVE  KycInv'
  <2>1. pc'[r] # "submitFind"
    <3>1. CASE Arrive(r)
      <4>1. pc'[r] = IF job[r].kind \in CustomerKind THEN "authenticate" ELSE FirstStep[job[r].kind]
        BY <1>0, <3>1 DEF Arrive, Goto, Located
      <4>2. job[r].kind \in Kind
        BY <1>0, JobFields
      <4> QED BY <4>1, <4>2 DEF Kind, CustomerKind, OtherKind, FirstStep
    <3>2. CASE TryAgain(r)
      BY <1>0, <3>2, OtherActor
    <3>3. CASE WalletsStep(r) \/ PinStep(r) \/ BeneficiariesStep(r)
      <4>1. job[r].kind # "submit" /\ job' = job /\ ControlInv'
        BY <1>0, <3>3, WalletsActor, PinActor, BeneficiariesActor, ControlNext DEF OnlyMoves
      <4> QED BY <4>1 DEF ControlInv, Fits
    <3> QED BY <1>3, <3>1, <3>2, <3>3
  <2>2. NoneEnters(Places)
    BY <1>0, <1>3, <1>n, <2>1, WalletsActor, PinActor, BeneficiariesActor, OtherActor
  <2> QED BY <1>3, <1>e, <2>2 DEF users
<1>4. ASSUME NEW r \in Request, FailRequest(r) PROVE KycInv'
  <2>1. OnlyMoves(r) /\ pc'[r] = "error" /\ NoneEnters(Inner)
    BY <1>0, <1>4, OtherActor
  <2>2. /\ UNCHANGED <<user, submission>> /\ entry' = entry
        /\ \A s \in Request : s # r => entity'[s] = entity[s]
    BY <1>4 DEF FailRequest, DropMemory
  <2>3. NoneEnters(Places)
    BY <1>n, <2>1
  <2>4. \A s \in Request : pc'[s] \in Places => entity'[s] = entity[s]
    BY <2>1, <2>2 DEF Places
  <2> QED BY <1>e, <2>2, <2>3, <2>4
<1>5. ASSUME Restart PROVE KycInv'
  <2>1. \A s \in Request : pc'[s] = IF InFlight(s) THEN "lost" ELSE pc[s]
    BY <1>0, <1>5, NoActor
  <2>2. \A s \in Request : pc'[s] \notin Places
    BY <2>1 DEF InFlight, Answered, Places
  <2>3. /\ job' = job /\ user' = user /\ submission' = submission
        /\ \A s \in Request : entry[s].state = "none" => entry'[s].state = "none"
    BY <1>5 DEF Restart, Crash, DropMemory, AuditLost, AuditPending
  <2> QED BY <1>j, <2>2, <2>3, KycQuiet
<1>6. ASSUME UNCHANGED <<requests, users, submission>>,
             \A s \in Request : entry[s].state = "none" => entry'[s].state = "none"
      PROVE KycInv'
  BY <1>6, <1>j, KycQuiet DEF requests, users
<1>7. ASSUME NEW r \in Request, AuditStep(r), UNCHANGED <<requests, users, submission>>
      PROVE KycInv'
  <2>1. AuditTypeOK
    BY DEF CoreInv, AuditInv
  <2>2. entry[r].state # "none" /\ \A s \in Request : s # r => entry'[s] = entry[s]
    BY <1>7, <2>1 DEF AuditStep, AuditStored, AuditRejected, AuditRetry, Settle, AuditTypeOK
  <2> QED BY <1>6, <1>7, <2>2
<1>8. ASSUME PurgeOldAuditLogs, UNCHANGED <<requests, users, submission>> PROVE KycInv'
  BY <1>6, <1>8 DEF PurgeOldAuditLogs
<1>9. \/ \E r \in Request :
           \/ UsersStep(r) /\ UNCHANGED <<submission, entry>>
           \/ KycStep(r) \/ FailRequest(r)
           \/ AuditStep(r) /\ UNCHANGED <<requests, users, submission>>
           \/ /\ WalletsStep(r) \/ PinStep(r) \/ BeneficiariesStep(r) \/ TryAgain(r) \/ Arrive(r)
              /\ UNCHANGED <<users, submission, entry>>
      \/ Restart
      \/ PurgeOldAuditLogs /\ UNCHANGED <<requests, users, submission>>
      \/ UNCHANGED <<requests, users, submission>> /\ entry' = entry
  BY Cases DEF MonthPasses, LockExpires, identity
<1> QED BY <1>1, <1>2, <1>3, <1>4, <1>5, <1>6, <1>7, <1>8, <1>9

LEMMA Registered == Spec => [](CoreInv /\ RegisteredInv)
<1>1. CoreInv /\ RegisteredInv /\ [Next]_identity => RegisteredInv'
  BY RegisteredNext
<1> QED BY RegisteredInit, Core, <1>1, PTL DEF Spec

LEMMA Reviewed == ASSUME Queued(KycKind) PROVE Spec => [](CoreInv /\ RegisteredInv /\ KycInv)
<1>1. CoreInv /\ RegisteredInv /\ KycInv /\ [Next]_identity => KycInv'
  BY KycNext
<1> QED BY KycInvInit, Registered, <1>1, PTL DEF Spec

\* If submissions and reviews overlap with nothing else of the customer, who is
\* verified has an approved submission: no failure between the writes of a review
\* and nothing that saves the user as a whole sets them apart that way.
THEOREM Verifications == ASSUME Queued(KycKind) PROVE Spec => []VerifiedIsApproved
<1>1. KycInv => VerifiedIsApproved
  BY DEF KycInv, CustomerInv, VerifiedIsApproved
<1> QED BY <1>1, Reviewed, PTL

\* Under the same condition what is audited as an approval is complete.
THEOREM Audits == ASSUME Queued(KycKind) PROVE Spec => []AuditedApproval
<1>1. KycInv => AuditedApproval
  BY DEF KycInv, PlaceInv, Verified, AuditedApproval
<1> QED BY <1>1, Reviewed, PTL

\* Under the same condition no approval is reviewed again or replaced by documents.
THEOREM Approvals == ASSUME Queued(KycKind) PROVE Spec => ApprovedForGood
<1>1. ASSUME CoreInv, KycInv, [Next]_identity, NEW u \in User, submission[u] = "approved"
      PROVE  submission'[u] = "approved"
  <2>0. KycTypeOK /\ \A s \in Request : Whom(s) \in User
    BY <1>1, JobFields DEF CoreInv, BaseInv, ControlInv
  <2>1. CASE submission' = submission
    BY <1>1, <2>1
  <2>2. ASSUME NEW r \in Request, SubmitInsert(r) \/ SubmitSave(r) \/ ReviewSave(r)
        PROVE  submission'[u] = "approved"
    <3>1. PlaceInv(r)
      BY <1>1 DEF KycInv
    <3>2. submission' = submission \/ Whom(r) # u
      BY <1>1, <2>2, <3>1 DEF SubmitInsert, SubmitSave, ReviewSave, PlaceInv, At
    <3> QED BY <1>1, <2>0, <2>2, <3>2
            DEF SubmitInsert, SubmitSave, ReviewSave, SetSubmission, KycTypeOK
  <2>3. ASSUME NEW r \in Request, KycStep(r)
        PROVE  \/ submission' = submission
               \/ SubmitInsert(r) \/ SubmitSave(r) \/ ReviewSave(r)
    BY <2>3 DEF KycStep, SubmitFind, ReviewFind, UserUpdate, AccountsFind, NextFind, NextSave,
       UpgradeFails
  <2>4. (\E r \in Request : KycStep(r)) \/ submission' = submission
    BY <1>1, Cases DEF FailRequest, Restart, DropMemory, MonthPasses, LockExpires,
       PurgeOldAuditLogs, identity
  <2> QED BY <2>1, <2>2, <2>3, <2>4
<1>2. CoreInv /\ KycInv /\ [Next]_identity
        => [\A u \in User : submission[u] = "approved" => submission'[u] = "approved"]_submission
  BY <1>1
<1> QED BY <1>2, Reviewed, PTL DEF Spec, ApprovedForGood
=============================================================================
