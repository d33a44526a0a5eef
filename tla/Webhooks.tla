------------------------------ MODULE Webhooks ------------------------------
(***************************************************************************)
(* Reports of a payment gateway (Paystack's charge.success, Flutterwave's  *)
(* charge.completed) and the hourly job that expires PENDING transactions, *)
(* over the table of transactions the money paths write.                   *)
(*                                                                         *)
(* JwtAuthGuard guards every route that is not marked @Public(), and the   *)
(* routes of WebhookController are not: a report without an access token   *)
(* is refused with 401.  A gateway has none.  Somebody who has one may     *)
(* repeat a report by hand, with the signature it came with.  Its handler  *)
(* looks the reference up with findByReference, which throws if there is   *)
(* no such transaction; if there is one the handler returns.  So what      *)
(* follows in the code, the verification of the charge and its deposit, is *)
(* never reached, and no report writes anything.  The two handlers do not  *)
(* differ up to there.                                                     *)
(***************************************************************************)
EXTENDS Transactions

CONSTANTS Charge,    \* charges made by customers of the gateway
          ChargeRef, \* charge -> reference
          ByHand     \* charges whose report is also repeated with a token

ASSUME ChargeAssumption == ChargeRef \in [Charge -> Reference]
ASSUME ByHandAssumption == ByHand \subseteq Charge

VARIABLE report      \* charge -> where the report of it is

ReportState == {"unpaid", "due", "lookup", "refused", "acknowledged"}

WebhooksInit == report = [c \in Charge |-> "unpaid"]

\* Committed transactions with a reference, that of a charge.
RecordsWith(ref) == {r \in Request : row[r] # "none" /\ RefOf(r) = ref}

RecordsOf(c) == RecordsWith(ChargeRef[c])

Report(c, from, to) == report[c] = from /\ report' = [report EXCEPT ![c] = to]

\* The customer pays: the gateway will report until it is answered with 200.
Pay(c) == Report(c, "unpaid", "due") /\ UNCHANGED vars

\* JwtAuthGuard: no token, 401.
Refuse(c) == Report(c, "due", "refused") /\ UNCHANGED vars

\* The report was not answered with success: it is sent again.
Repeat(c) == Report(c, "refused", "due") /\ UNCHANGED vars

\* The token is that of a user, the signature right: findByReference is sent.
Receive(c) == c \in ByHand /\ Report(c, "due", "lookup") /\ UNCHANGED vars

\* A known reference is a duplicate, answered with 200; an unknown one is
\* answered with 404.
Respond(c) ==
    /\ FreeConnection
    /\ Report(c, "lookup", IF RecordsOf(c) # {} THEN "acknowledged" ELSE "refused")
    /\ UNCHANGED vars

\* The statement fails, or the answer gets lost.
Unanswered(c) == Report(c, "lookup", "refused") /\ UNCHANGED vars

\* Mutant of Expired: every row that is old enough.
ExpiredAny == {r \in Request : row[r] # "none"}

\* The rows the hourly UPDATE may find: committed and PENDING.
Expired == {r \in Request : row[r] = "pending"}

ExpireStuckTransactions ==
    /\ \E old \in SUBSET Expired :
            row' = [r \in Request |-> IF r \in old THEN "failed" ELSE row[r]]
    /\ UNCHANGED <<job, pc, memory, acct, recent, uncommitted, emitted, report>>

\* Reports that a dying process was working on go unanswered.
ForgetReports ==
    report' = [c \in Charge |-> IF report[c] = "lookup" THEN "refused" ELSE report[c]]

WebhooksNext ==
    \/ \E c \in Charge : \/ Pay(c) \/ Refuse(c) \/ Repeat(c)
                         \/ Receive(c) \/ Respond(c) \/ Unanswered(c)
    \/ ExpireStuckTransactions

\* The gateway repeats its report, and the process answers it.
WebhooksFairness == \A c \in Charge : /\ WF_<<vars, report>>(Repeat(c))
                                      /\ WF_<<vars, report>>(Refuse(c) \/ Receive(c))
                                      /\ WF_<<vars, report>>(Respond(c))
-----------------------------------------------------------------------------
(* Properties. *)

\* What the routes of the callbacks announce: a charge that is paid, and
\* reported until it is answered with success, is at last credited.
PaidIsCredited ==
    \A c \in Charge :
        report[c] # "unpaid" ~> \E r \in RecordsOf(c) : row[r] = "completed"
=============================================================================
