-------------------------------- MODULE Kyc --------------------------------
(***************************************************************************)
(* KycService: a customer submits documents, an administrator reviews      *)
(* them.  A review writes the submission, then the user, then the wallet   *)
(* of each account, in separate statements without a transaction.          *)
(***************************************************************************)
EXTENDS Users, Wallets, Audit

CONSTANT InitialSubmission   \* user -> row at start

SubmissionStatus == {"none", "submitted", "approved", "rejected"}

\* A submission refers to a row of users; a user's column follows the review.
ASSUME InitialSubmissionAssumption ==
    /\ InitialSubmission \in [User -> SubmissionStatus]
    /\ \A u \in User :
        /\ InitialSubmission[u] # "none" => InitialUser[u].registered
        /\ InitialUser[u].kycStatus = "verified" => InitialSubmission[u] = "approved"

VARIABLE submission   \* rows of table kyc_submissions: their status

KycInit == submission = InitialSubmission

SetSubmission(r, status) == submission' = [submission EXCEPT ![Whom(r)] = status]

-----------------------------------------------------------------------------
(* submit *)

\* Mutant of MaySubmit: any earlier submission may be replaced.
MaySubmitAlways(status) == TRUE

\* Only after a rejection may documents be submitted again.
MaySubmit(status) == status \in {"none", "rejected"}

SubmitFind(r) ==
    LET existing == submission[Whom(r)] IN
    /\ At(r, "submitFind")
    /\ Goto(r, CASE ~MaySubmit(existing) -> "refused"
                 [] existing = "none"    -> "submitInsert"
                 [] OTHER                -> "submitSave")
    /\ UNCHANGED <<users, wallets, submission, entry>>

\* The first submission; a user has one.
SubmitInsert(r) ==
    /\ At(r, "submitInsert")
    /\ IF submission[Whom(r)] = "none"
       THEN SetSubmission(r, "submitted") /\ Log(r) /\ Goto(r, "ok")
       ELSE Goto(r, "error") /\ UNCHANGED <<submission, entry>>
    /\ UNCHANGED <<users, wallets>>

\* save(existing) writes the status whatever it is by now.
SubmitSave(r) ==
    /\ At(r, "submitSave")
    /\ SetSubmission(r, "submitted") /\ Log(r) /\ Goto(r, "ok")
    /\ UNCHANGED <<users, wallets>>

-----------------------------------------------------------------------------
(* review *)

\* Mutant of ReviewFind: an approved submission may be reviewed again.
ReviewFindAgain(r) ==
    /\ At(r, "reviewFind")
    /\ Goto(r, IF submission[Whom(r)] = "none" THEN "refused" ELSE "reviewSave")
    /\ UNCHANGED <<users, wallets, submission, entry>>

ReviewFind(r) ==
    /\ At(r, "reviewFind")
    /\ Goto(r, IF submission[Whom(r)] \in {"none", "approved"} THEN "refused"
               ELSE "reviewSave")
    /\ UNCHANGED <<users, wallets, submission, entry>>

Approving(r) == job[r].kind = "approve"

\* Mutant of ReviewSave: the entry is logged before the user is updated.
ReviewSaveLogged(r) ==
    /\ At(r, "reviewSave")
    /\ SetSubmission(r, IF Approving(r) THEN "approved" ELSE "rejected")
    /\ Goto(r, "userUpdate")
    /\ Log(r)
    /\ UNCHANGED <<users, wallets>>

ReviewSave(r) ==
    /\ At(r, "reviewSave")
    /\ SetSubmission(r, IF Approving(r) THEN "approved" ELSE "rejected")
    /\ Goto(r, "userUpdate")
    /\ UNCHANGED <<users, wallets, entry>>

\* users.update; a rejection is then done.
UserUpdate(r) ==
    /\ At(r, "userUpdate")
    /\ IF Approving(r)
       THEN SetUser(r, "kycStatus", "verified") /\ Goto(r, "accountsFind") /\ UNCHANGED entry
       ELSE SetUser(r, "kycStatus", "rejected") /\ Goto(r, "ok") /\ Log(r)
    /\ UNCHANGED <<entity, wallets, submission>>

\* The accounts are upgraded in the order of the list.
Current(r) == CHOOSE a \in todo[r] : TRUE

\* On to the next account, or the end of an approval.
Proceed(r, accounts) ==
    /\ todo' = [todo EXCEPT ![r] = accounts]
    /\ IF accounts = {} THEN Goto(r, "ok") /\ Log(r)
       ELSE Goto(r, "nextFind") /\ UNCHANGED entry

\* usersService.findById with its accounts.
AccountsFind(r) ==
    /\ At(r, "accountsFind")
    /\ Proceed(r, {a \in Account : Holder[a] = Whom(r)})
    /\ UNCHANGED <<users, wallet, loaded, inMonth, spent, submission>>

\* upgradeTier(account, STANDARD); an error, the missing wallet included, is
\* swallowed.
NextFind(r) ==
    /\ At(r, "nextFind")
    /\ \/ /\ wallet[Current(r)].tier # "none"
          /\ TierFind(r, Current(r), "standard", "nextSave", "nextSave")
          /\ UNCHANGED <<todo, entry>>
       \/ /\ wallet[Current(r)].tier = "none"
          /\ Proceed(r, todo[r] \ {Current(r)})
          /\ UNCHANGED <<wallet, loaded, inMonth, spent>>
    /\ UNCHANGED <<users, submission>>

NextSave(r) ==
    /\ At(r, "nextSave")
    /\ wallet' = [wallet EXCEPT ![Current(r)] = loaded[r]]
    /\ Hold(r, NoWallet)
    /\ Proceed(r, todo[r] \ {Current(r)})
    /\ UNCHANGED <<users, inMonth, spent, submission>>

UpgradeFails(r) ==
    /\ "fail" \in Fault
    /\ pc[r] \in {"nextFind", "nextSave"}
    /\ Hold(r, NoWallet)
    /\ Proceed(r, todo[r] \ {Current(r)})
    /\ UNCHANGED <<users, wallet, inMonth, spent, submission>>

KycStep(r) ==
    \/ SubmitFind(r) \/ SubmitInsert(r) \/ SubmitSave(r)
    \/ ReviewFind(r) \/ ReviewSave(r) \/ UserUpdate(r) \/ AccountsFind(r)
    \/ NextFind(r) \/ NextSave(r) \/ UpgradeFails(r)
-----------------------------------------------------------------------------
(* Properties, if requests for one customer follow each other. *)

KycTypeOK == submission \in [User -> SubmissionStatus]

\* A verified customer has an approved submission: a review writes the
\* submission first, and nothing that saves the user, fails or crashes in
\* between brings the two out of step that way.
VerifiedIsApproved ==
    \A u \in User : user[u].kycStatus = "verified" => submission[u] = "approved"

\* An approval is final: it is neither reviewed again nor replaced by documents
\* submitted again.
ApprovedForGood ==
    [][\A u \in User : submission[u] = "approved" => submission'[u] = "approved"]_submission

\* An approval is audited only when it is complete: the submission is approved
\* and the user verified.
AuditedApproval ==
    \A r \in Request : Approving(r) /\ entry[r].state # "none" =>
        submission[Whom(r)] = "approved" /\ user[Whom(r)].kycStatus = "verified"
=============================================================================
