--------------------------- MODULE Beneficiaries ---------------------------
(***************************************************************************)
(* Saved recipients of a customer.  Removing one only marks its row; a     *)
(* unique index allows one row per customer and account number, marked     *)
(* ones included.  Each change loads an entity and saves it.               *)
(*                                                                         *)
(* The declared type of a PATCH body is a Partial, for which the           *)
(* ValidationPipe has no rules, and update assigns the body to the entity: *)
(* it may set any column, userId, isActive and id included.                *)
(*                                                                         *)
(* Nothing calls recordTransfer yet: "use" stands for the transfer that is *)
(* to call it.  transferCount, which only orders a list, is left out.      *)
(***************************************************************************)
EXTENDS Requests

BeneficiaryRow == [saved : BOOLEAN, owner : User, number : Account, isActive : BOOLEAN]

\* What is not in the table.
Unsaved(r) == [saved |-> FALSE, owner |-> Whom(r), number |-> job[r].account,
               isActive |-> TRUE]

VARIABLES
    beneficiary,  \* rows, by the request that created them
    target,       \* request -> requests: the id of the entity it holds, if any
    copy          \* request -> that entity

beneficiaries == <<beneficiary, target, copy>>

BeneficiariesInit ==
    /\ beneficiary = [r \in Request |-> Unsaved(r)]
    /\ target = [r \in Request |-> {}]
    /\ copy = [r \in Request |-> Unsaved(r)]

\* The rows of a user with a number, in use or not.
Namesakes(u, number) ==
    {b \in Request : /\ beneficiary[b].saved
                     /\ beneficiary[b].owner = u
                     /\ beneficiary[b].number = number}

\* create: findOne ...
AddFind(r) ==
    /\ At(r, "addFind")
    /\ Goto(r, IF Namesakes(Whom(r), job[r].account) = {} THEN "addInsert" ELSE "refused")
    /\ UNCHANGED beneficiaries

Insert(r) == beneficiary' = [beneficiary EXCEPT ![r] = [Unsaved(r) EXCEPT !.saved = TRUE]]

\* Mutant of AddInsert: the index is not unique.
AddInsertAgain(r) ==
    /\ At(r, "addInsert")
    /\ Insert(r)
    /\ Goto(r, "ok")
    /\ UNCHANGED <<target, copy>>

\* ... and save: the unique index refuses what was saved meanwhile.
AddInsert(r) ==
    /\ At(r, "addInsert")
    /\ IF Namesakes(Whom(r), job[r].account) = {}
       THEN Insert(r) /\ Goto(r, "ok")
       ELSE Goto(r, "error") /\ UNCHANGED beneficiary
    /\ UNCHANGED <<target, copy>>

\* What update, remove or recordTransfer may make of an entity.
Changed(r, b) ==
    CASE job[r].kind = "update" -> {e \in BeneficiaryRow : e.saved}
      [] job[r].kind = "remove" -> {[b EXCEPT !.isActive = FALSE]}
      [] job[r].kind = "use"    -> {b}

\* The row an entity is saved to: its own; with another id, another or a new one.
Targets(r, b) ==
    IF job[r].kind = "update" THEN {r} \cup {c \in Request : beneficiary[c].saved} ELSE {b}

Take(r, b) ==
    /\ \E c \in Targets(r, b) : target' = [target EXCEPT ![r] = {c}]
    /\ \E e \in Changed(r, beneficiary[b]) : copy' = [copy EXCEPT ![r] = e]
    /\ Goto(r, "changeSave")

\* findOne by id; an unknown one, or somebody else's, is refused.
ChangeFind(r) ==
    /\ At(r, "changeFind")
    /\ \/ \E b \in Request :
            beneficiary[b].saved /\ beneficiary[b].owner = Whom(r) /\ Take(r, b)
       \/ Goto(r, "refused") /\ UNCHANGED <<target, copy>>
    /\ UNCHANGED beneficiary

\* recordTransfer: findOne by number; a recipient that is not saved is none.
UseFind(r) ==
    LET found == Namesakes(Whom(r), job[r].account) IN
    /\ At(r, "useFind")
    /\ \/ \E b \in found : Take(r, b)
       \/ found = {} /\ Goto(r, "ok") /\ UNCHANGED <<target, copy>>
    /\ UNCHANGED beneficiary

\* save; a number its customer has saved already is refused by the index.
ChangeSave(r) ==
    /\ At(r, "changeSave")
    /\ \E b \in target[r] :
        IF Namesakes(copy[r].owner, copy[r].number) \subseteq {b}
        THEN beneficiary' = [beneficiary EXCEPT ![b] = copy[r]] /\ Goto(r, "ok")
        ELSE Goto(r, "error") /\ UNCHANGED beneficiary
    /\ target' = [target EXCEPT ![r] = {}]
    /\ copy' = [copy EXCEPT ![r] = Unsaved(r)]

BeneficiariesStep(r) ==
    AddFind(r) \/ AddInsert(r) \/ ChangeFind(r) \/ UseFind(r) \/ ChangeSave(r)
-----------------------------------------------------------------------------
(* Properties. *)

BeneficiariesTypeOK ==
    /\ beneficiary \in [Request -> BeneficiaryRow]
    /\ target \in [Request -> SUBSET Request]
    /\ copy \in [Request -> BeneficiaryRow]

\* A customer has one row per number, removed ones included, however additions,
\* updates, removals and transfers overlap, whatever an update sets and however
\* old the entity is that is saved.
OneBeneficiaryPerNumber ==
    \A b \in Request :
        beneficiary[b].saved => Namesakes(beneficiary[b].owner, beneficiary[b].number) = {b}
=============================================================================
