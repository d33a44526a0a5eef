------------------------------ MODULE Backend ------------------------------
(***************************************************************************)
(* The process as a whole: the money paths, the callbacks of the payment   *)
(* gateway and the notifications, over one database and one pool of        *)
(* connections, beside the hourly and the nightly job.                     *)
(***************************************************************************)
EXTENDS Webhooks, Notifications

allVars == <<vars, report, notes>>

BackendInit == Init /\ WebhooksInit /\ NotificationsInit

\* The process dies with everything it was working on.
Die == Crash /\ ForgetReports /\ ForgetNotes

MoneyNext ==
    \/ \E r \in Request : Arrive(r) \/ Serve(r) \/ Disconnect(r)
    \/ DayPasses \/ Terminated

BackendNext ==
    \/ MoneyNext /\ UNCHANGED <<report, notes>>
    \/ WebhooksNext /\ UNCHANGED notes
    \/ NotificationsNext /\ UNCHANGED report
    \/ Die

BackendSpec == BackendInit /\ [][BackendNext]_allVars

\* In addition to what each part assumes the process serves its requests, so
\* that their connections return to the pool.
FairBackendSpec == BackendSpec /\ Fairness /\ WebhooksFairness /\ NotificationsFairness

\* The variables of the three parts have their types.
BackendTypeOK ==
    /\ TypeOK
    /\ report \in [Charge -> ReportState]
    /\ note \in [Request -> NoteState]
    /\ old \subseteq Request
    /\ reader \subseteq Request

\* What the ledger says of a reference.
RecordOf(ref) ==
    IF RecordsWith(ref) = {} THEN "none" ELSE row[CHOOSE r \in RecordsWith(ref) : TRUE]

Payment == INSTANCE IdealPayment WITH record <- [ref \in Reference |-> RecordOf(ref)]

\* Whatever the money paths, the reports and the hourly expiry do, and however
\* they fail, a reference gets one record, whose outcome never changes: also
\* of a deposit that failed, whose reference is thereby used up.
PaymentPromise == Payment!Spec
=============================================================================
