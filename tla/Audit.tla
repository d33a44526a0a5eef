------------------------------- MODULE Audit -------------------------------
(***************************************************************************)
(* AuditService.log: an entry is saved in the background; a save that      *)
(* fails is repeated after 100, 200 and 400 ms, then given up.  Stored      *)
(* entries are purged after a year.                                        *)
(***************************************************************************)
EXTENDS Requests

MAX_RETRIES == 3

AuditState == {"none", "saving", "waiting", "stored", "givenUp", "lost",
               "purged"}

VARIABLE entry   \* request -> the audit entry it logged

Entry == [state : AuditState, attempt : 0 .. MAX_RETRIES]

NoEntry == [state |-> "none", attempt |-> 0]

AuditInit == entry = [r \in Request |-> NoEntry]

\* Called by a handler; the caller does not wait.
Log(r) == entry' = [entry EXCEPT ![r].state = "saving"]

\* The loop of attempts ends.
Settle(r, state) == entry' = [entry EXCEPT ![r] = [NoEntry EXCEPT !.state = state]]

AuditStored(r) == entry[r].state = "saving" /\ Settle(r, "stored")

\* Mutant of AuditRejected: <= MAX_RETRIES.
AuditRejectedLate(r) ==
    /\ entry[r].state = "saving"
    /\ IF entry[r].attempt <= MAX_RETRIES
       THEN entry' = [entry EXCEPT ![r].state = "waiting"]
       ELSE Settle(r, "givenUp")

\* The save is rejected (the row may be there, if only the answer was lost).
AuditRejected(r) ==
    /\ "fail" \in Fault
    /\ entry[r].state = "saving"
    /\ IF entry[r].attempt < MAX_RETRIES
       THEN entry' = [entry EXCEPT ![r].state = "waiting"]
       ELSE Settle(r, "givenUp")

\* Mutant of AuditRetry: attempt instead of attempt + 1.
AuditRetryForever(r) ==
    /\ entry[r].state = "waiting"
    /\ entry' = [entry EXCEPT ![r].state = "saving"]

\* The timer fires.
AuditRetry(r) ==
    /\ entry[r].state = "waiting"
    /\ entry' = [entry EXCEPT ![r].state = "saving", ![r].attempt = @ + 1]

AuditStep(r) == AuditStored(r) \/ AuditRejected(r) \/ AuditRetry(r)

AuditPending(r) == entry[r].state \in {"saving", "waiting"}

\* Timers die with the process.
AuditLost ==
    entry' = [r \in Request |->
                IF AuditPending(r) THEN [NoEntry EXCEPT !.state = "lost"] ELSE entry[r]]

\* A year passes, which no request takes; on Sunday the entries are deleted.
PurgeOldAuditLogs ==
    /\ \A r \in Request : ~InFlight(r) /\ ~AuditPending(r)
    /\ entry' = [r \in Request |->
                    IF entry[r].state = "stored" THEN [NoEntry EXCEPT !.state = "purged"]
                    ELSE entry[r]]
-----------------------------------------------------------------------------
(* Properties. *)

AuditTypeOK == entry \in [Request -> Entry]

\* An entry is at last stored, given up or lost with the process: a database
\* that keeps refusing it is not asked for ever.
AuditSettles ==
    \A r \in Request : AuditPending(r) ~> ~AuditPending(r)
=============================================================================
