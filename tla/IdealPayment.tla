---------------------------- MODULE IdealPayment ----------------------------
(***************************************************************************)
(* What the ledger promises whoever names a payment by its reference, a    *)
(* gateway, an administrator or a customer: the reference is recorded at   *)
(* most once, with the outcome, and that record never changes.  Backend    *)
(* implements this; BackendProofs proves it.                               *)
(***************************************************************************)
CONSTANT Reference

VARIABLE record   \* reference -> what the ledger says of it

Init == record = [ref \in Reference |-> "none"]

Record(ref) ==
    /\ record[ref] = "none"
    /\ \E status \in {"completed", "failed"} : record' = [record EXCEPT ![ref] = status]

Next == \E ref \in Reference : Record(ref)

Spec == Init /\ [][Next]_record
=============================================================================
