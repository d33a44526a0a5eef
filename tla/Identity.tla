------------------------------ MODULE Identity ------------------------------
(***************************************************************************)
(* Customers: registration and sessions, KYC reviews, wallets, the         *)
(* transaction PIN, beneficiaries and the audit log, in one process over   *)
(* one database.  Table users is written by three of the services, wallets *)
(* by two.                                                                 *)
(***************************************************************************)
EXTENDS Kyc, TransactionPin, Beneficiaries

identity == <<requests, users, wallets, submission, entry, pins, beneficiaries>>

IdentityInit ==
    /\ RequestsInit /\ UsersInit /\ WalletsInit /\ KycInit /\ PinInit
    /\ AuditInit /\ BeneficiariesInit

\* What a request held in memory is gone.
DropMemory(gone) ==
    /\ entity' = [r \in Request |-> IF r \in gone THEN NoUser ELSE entity[r]]
    /\ loaded' = [r \in Request |-> IF r \in gone THEN NoWallet ELSE loaded[r]]
    /\ todo' = [r \in Request |-> IF r \in gone THEN {} ELSE todo[r]]
    /\ inMonth' = inMonth \ gone
    /\ target' = [r \in Request |-> IF r \in gone THEN {} ELSE target[r]]
    /\ copy' = [r \in Request |-> IF r \in gone THEN Unsaved(r) ELSE copy[r]]
    /\ UNCHANGED <<user, wallet, spent, submission, beneficiary>>

FailRequest(r) ==
    /\ Fail(r)
    /\ pc[r] \notin {"nextFind", "nextSave"}
    /\ DropMemory({r})
    /\ seen' = [seen EXCEPT ![r] = NoPin]
    /\ UNCHANGED <<pin, count, locked, misses, entry>>

Restart == Crash /\ DropMemory(Request) /\ PinForgotten /\ AuditLost

Next ==
    \/ \E r \in Request :
        \/ Arrive(r) /\ UNCHANGED <<users, wallets, submission, entry, pins, beneficiaries>>
        \/ UsersStep(r) /\ UNCHANGED <<wallets, submission, entry, pins, beneficiaries>>
        \/ WalletsStep(r) /\ UNCHANGED <<users, submission, entry, pins, beneficiaries>>
        \/ KycStep(r) /\ UNCHANGED <<pins, beneficiaries>>
        \/ (PinStep(r) \/ TryAgain(r))
            /\ UNCHANGED <<users, wallets, submission, entry, beneficiaries>>
        \/ BeneficiariesStep(r) /\ UNCHANGED <<users, wallets, submission, entry, pins>>
        \/ AuditStep(r)
            /\ UNCHANGED <<requests, users, wallets, submission, pins, beneficiaries>>
        \/ FailRequest(r)
    \/ MonthPasses /\ UNCHANGED <<users, submission, entry, pins, beneficiaries>>
    \/ LockExpires /\ UNCHANGED <<users, wallets, submission, entry, beneficiaries>>
    \/ PurgeOldAuditLogs
        /\ UNCHANGED <<requests, users, wallets, submission, pins, beneficiaries>>
    \/ Restart
    \/ (\A r \in Request : pc[r] \in Answered) /\ UNCHANGED identity

Spec == IdentityInit /\ [][Next]_identity

\* Timers fire and the database answers them.
FairSpec == Spec /\ \A r \in Request : WF_entry(AuditStep(r))

\* The variables of all parts have their types.
IdentityTypeOK ==
    /\ UsersTypeOK /\ WalletsTypeOK /\ KycTypeOK /\ PinTypeOK /\ AuditTypeOK
    /\ BeneficiariesTypeOK
=============================================================================
