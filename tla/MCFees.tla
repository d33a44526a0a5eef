------------------------------- MODULE MCFees -------------------------------
(* Small instances of Fees. *)
EXTENDS Fees, TLC

CONSTANTS r1

\* A rule whose floor is above its cap, for small transfers first.
Odd == [StandardTransfer EXCEPT !.name = "Odd", !.priority = 2, !.feeType = "tiered",
            !.minimum = 2000, !.cap = 1500, !.maxTransactionAmount = 50]

\* A flat fee of the same priority as the standard rule, not a whole number of kobo.
Flat == [StandardTransfer EXCEPT !.name = "Flat", !.feeType = "flat",
            !.value = 1200 * Unit + 5, !.cap = -1, !.minimum = 0]

Ask(kind, amount, rule, by) ==
    [kind |-> kind, type |-> "transfer", amount |-> amount, rule |-> rule, by |-> by]

\* 70050 is charged 1050.75 before rounding, 20 a fraction of a kobo, and
\* 4000000 more than the cap.
Calculate == {Ask("calculate", amount, NoRule, Founder) : amount \in {20, 50, 70050, 4000000}}

Upserts == {Ask("upsert", 0, rule, Founder) : rule \in {Odd, Flat}}

Deactivations(by) == {Ask("deactivate", 0, StandardTransfer, by)}

Seed == Ask("seed", 0, NoRule, Founder)

QuietJobs ==
    Calculate \cup Upserts \cup Deactivations(Founder) \cup Deactivations(r1) \cup {Seed}

\* Amounts whose rules may be read before, between and after changes; each
\* administrative request acts once, calculations repeat.
ConcurrentJobs == Calculate \cup Upserts \cup Deactivations(r1) \cup {Seed}

\* Not seeded yet, or seeded and reduced to one rule.
EmptyOrNot == {{}, {StandardTransfer}}

Empty == {{}}
=============================================================================
