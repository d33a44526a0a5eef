------------------------ MODULE BeneficiariesProofs ------------------------
(***************************************************************************)
(* Beneficiaries, as part of Identity: one row per customer and number for *)
(* every discipline, fault model and body of an update.                    *)
(***************************************************************************)
EXTENDS IdentityProofs

\* A step writes one row at most, of whose number its customer has no other.
Writes(b, row) ==
    /\ Namesakes(row.owner, row.number) \subseteq {b}
    /\ beneficiary' = [beneficiary EXCEPT ![b] = row]

LEMMA RowSteps ==
    ASSUME CoreInv, [Next]_identity
    PROVE  \/ \E b \in Request, row \in BeneficiaryRow : Writes(b, row)
           \/ beneficiary' = beneficiary
<1>0. Located /\ BeneficiariesTypeOK
  BY DEF CoreInv, BaseInv, ControlInv
<1>1. ASSUME NEW r \in Request, BeneficiariesStep(r)
      PROVE  \/ \E b \in Request, row \in BeneficiaryRow : Writes(b, row)
             \/ beneficiary' = beneficiary
  <2>1. CASE AddFind(r) \/ ChangeFind(r) \/ UseFind(r)
    BY <2>1 DEF AddFind, ChangeFind, UseFind, beneficiaries
  <2>2. CASE AddInsert(r)
    <3> DEFINE row == [Unsaved(r) EXCEPT !.saved = TRUE]
    <3>1. row \in BeneficiaryRow /\ row.owner = Whom(r) /\ row.number = job[r].account
      BY <1>0, JobFields DEF Unsaved, BeneficiaryRow
    <3>2. CASE Namesakes(Whom(r), job[r].account) = {}
      <4>1. beneficiary' = [beneficiary EXCEPT ![r] = row]
        BY <2>2, <3>2 DEF AddInsert, Insert
      <4>2. Namesakes(row.owner, row.number) \subseteq {r}
        BY <3>1, <3>2
      <4>3. Writes(r, row)
        BY <4>1, <4>2 DEF Writes
      <4> QED BY <3>1, <4>3
    <3>3. CASE Namesakes(Whom(r), job[r].account) # {}
      BY <2>2, <3>3 DEF AddInsert
    <3> QED BY <3>2, <3>3
  <2>3. CASE ChangeSave(r)
    <3>1. PICK b \in target[r] :
            IF Namesakes(copy[r].owner, copy[r].number) \subseteq {b}
            THEN beneficiary' = [beneficiary EXCEPT ![b] = copy[r]] /\ Goto(r, "ok")
            ELSE Goto(r, "error") /\ UNCHANGED beneficiary
      BY <2>3 DEF ChangeSave
    <3>2. b \in Request /\ copy[r] \in BeneficiaryRow
      BY <1>0 DEF BeneficiariesTypeOK
    <3> QED BY <3>1, <3>2 DEF Writes
  <2> QED BY <1>1, <2>1, <2>2, <2>3 DEF BeneficiariesStep
<1>2. ASSUME NEW gone, DropMemory(gone) PROVE beneficiary' = beneficiary
  BY <1>2 DEF DropMemory
<1>3. \/ \E r \in Request : BeneficiariesStep(r)
      \/ \E gone : DropMemory(gone)
      \/ UNCHANGED beneficiaries
  BY Cases DEF FailRequest, Restart, MonthPasses, LockExpires, PurgeOldAuditLogs, identity
<1> QED BY <1>1, <1>2, <1>3 DEF beneficiaries

LEMMA OnePerNumberNext ==
    ASSUME CoreInv, OneBeneficiaryPerNumber, [Next]_identity
    PROVE  OneBeneficiaryPerNumber'
<1>0. BeneficiariesTypeOK
  BY DEF CoreInv
<1>1. ASSUME NEW b \in Request, NEW row \in BeneficiaryRow, Writes(b, row)
      PROVE  OneBeneficiaryPerNumber'
  <2>1. beneficiary'[b] = row /\ \A c \in Request : c # b => beneficiary'[c] = beneficiary[c]
    BY <1>0, <1>1 DEF Writes, BeneficiariesTypeOK
  <2>2. ASSUME NEW c \in Request, NEW d \in Request,
               beneficiary'[c].saved, beneficiary'[d].saved,
               beneficiary'[c].owner = beneficiary'[d].owner,
               beneficiary'[c].number = beneficiary'[d].number
        PROVE  c = d
    <3>1. CASE c = b
      BY <1>1, <2>1, <2>2, <3>1 DEF Writes, Namesakes
    <3>2. CASE d = b
      BY <1>1, <2>1, <2>2, <3>2 DEF Writes, Namesakes
    <3>3. CASE c # b /\ d # b
      BY <2>1, <2>2, <3>3 DEF OneBeneficiaryPerNumber, Namesakes
    <3> QED BY <3>1, <3>2, <3>3
  <2> QED BY <2>2 DEF OneBeneficiaryPerNumber, Namesakes
<1>2. CASE beneficiary' = beneficiary
  BY <1>2 DEF OneBeneficiaryPerNumber, Namesakes
<1> QED BY <1>1, <1>2, RowSteps

\* A customer has one row per number, however additions, updates and removals
\* overlap and fail, whatever an update sets and however old the entity is that is
\* saved: the index refuses what the check before let through.
THEOREM OnePerNumber == Spec => []OneBeneficiaryPerNumber
<1>1. IdentityInit => OneBeneficiaryPerNumber
  BY DEF IdentityInit, BeneficiariesInit, OneBeneficiaryPerNumber, Unsaved
<1>2. CoreInv /\ OneBeneficiaryPerNumber /\ [Next]_identity => OneBeneficiaryPerNumber'
  BY OnePerNumberNext
<1> QED BY <1>1, <1>2, Core, PTL DEF Spec
=============================================================================
