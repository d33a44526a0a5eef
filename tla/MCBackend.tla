----------------------------- MODULE MCBackend -----------------------------
(* Small instances of Backend: one charge, whose reference an administrator *)
(* may deposit.                                                             *)
EXTENDS MCTransactions, Backend

\* The charge deposited by hand, twice perhaps; opposite transfers and a
\* withdrawal: one that comes second may find too little.
BackendJobs == {Deposit(a1, 1, g), Transfer(ann, a1, a2, 2), Transfer(bob, a2, a1, 1),
                Withdraw(bob, a2, 2)}

MCChargeRef == [c \in Charge |-> g]
=============================================================================
