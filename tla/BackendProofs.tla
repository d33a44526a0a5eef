--------------------------- MODULE BackendProofs ---------------------------
(***************************************************************************)
(* The callbacks, the notifications and the jobs in company of the money   *)
(* paths, for every set of requests, charges and references.               *)
(***************************************************************************)
EXTENDS Backend, LedgerProofs

-----------------------------------------------------------------------------
(* The money paths are left alone.                                         *)

\* The hourly expiry finds no row to expire.
LEMMA ExpireNothing ==
    ASSUME TypeOK, ControlInv, ExpireStuckTransactions
    PROVE  UNCHANGED <<vars, report>>
<1>1. Expired = {}
  BY DEF Expired, ControlInv, Final
<1>2. row' = row
  BY <1>1 DEF ExpireStuckTransactions, TypeOK
<1> QED BY <1>2 DEF ExpireStuckTransactions, vars, memory, uncommitted

\* A step of the backend is a step of the money paths, or none of theirs.
LEMMA MoneyPart ==
    ASSUME TypeOK, ControlInv, [BackendNext]_allVars
    PROVE  [Next]_vars
<1>1. CASE MoneyNext
  BY <1>1 DEF MoneyNext, Next
<1>2. CASE WebhooksNext
  BY <1>2, ExpireNothing DEF WebhooksNext, Pay, Refuse, Repeat, Receive, Respond, Unanswered
<1>3. CASE NotificationsNext
  BY <1>3 DEF NotificationsNext, Create, Load, SaveRead, MarkAllAsRead, GrowOld,
              PurgeOldNotifications
<1>4. CASE Die
  BY <1>4 DEF Die, Next
<1>5. CASE UNCHANGED allVars
  BY <1>5 DEF allVars
<1> QED BY <1>1, <1>2, <1>3, <1>4, <1>5 DEF BackendNext

LEMMA MoneyPartInductive ==
    /\ BackendInit => TypeOK /\ Inv
    /\ TypeOK /\ Inv /\ [BackendNext]_allVars => (TypeOK /\ Inv)'
<1>1. BackendInit => Init
  BY DEF BackendInit
<1> QED BY <1>1, InvInductive, MoneyPart DEF Inv

\* The callbacks, the notifications, the hourly expiry and the nightly purge
\* never interfere with the money paths: whatever is proved of these alone
\* holds of the process as a whole.
THEOREM Undisturbed == BackendSpec => Spec
<1>1. BackendInit => Init
  BY DEF BackendInit
<1>2. TypeOK /\ Inv /\ [BackendNext]_allVars => [Next]_vars
  BY MoneyPart DEF Inv
<1> QED BY <1>1, <1>2, MoneyPartInductive, PTL DEF BackendSpec, Spec

-----------------------------------------------------------------------------
(* Types.                                                                  *)

LEMMA BackendTypeInit == BackendInit => BackendTypeOK
BY TypeInit DEF BackendInit, WebhooksInit, NotificationsInit, BackendTypeOK, ReportState, NoteState

LEMMA BackendTypeNext ==
    ASSUME BackendTypeOK, ControlInv, [BackendNext]_allVars
    PROVE  BackendTypeOK'
<1> DEFINE ReportOK == report \in [Charge -> ReportState]
           NotesOK == /\ note \in [Request -> NoteState]
                      /\ old \subseteq Request /\ reader \subseteq Request
<1>t. TypeOK'
  BY MoneyPart, TypeNext DEF BackendTypeOK
<1>1. ASSUME NEW c \in Charge, NEW from, NEW to \in ReportState, Report(c, from, to)
      PROVE  ReportOK'
  BY <1>1 DEF Report, BackendTypeOK
<1>2. ASSUME WebhooksNext PROVE ReportOK'
  <2>1. ASSUME NEW c \in Charge,
               Pay(c) \/ Refuse(c) \/ Repeat(c) \/ Receive(c) \/ Unanswered(c)
        PROVE  ReportOK'
    BY <2>1, <1>1 DEF Pay, Refuse, Repeat, Receive, Unanswered, ReportState
  <2>2. ASSUME NEW c \in Charge, Respond(c) PROVE ReportOK'
    BY <2>2, <1>1 DEF Respond, ReportState
  <2>3. ASSUME ExpireStuckTransactions PROVE ReportOK'
    BY <2>3 DEF ExpireStuckTransactions, BackendTypeOK
  <2> QED BY <1>2, <2>1, <2>2, <2>3 DEF WebhooksNext
<1>3. ASSUME NotificationsNext PROVE NotesOK'
  <2>1. ASSUME NEW r \in Request, Create(r) \/ Load(r) \/ SaveRead(r) PROVE NotesOK'
    BY <2>1 DEF Create, Load, SaveRead, SetNote, BackendTypeOK, NoteState
  <2>2. ASSUME MarkAllAsRead PROVE NotesOK'
    <3>1. PICK read \in SUBSET {r \in Request : note[r] = "unread"} :
                note' = [r \in Request |-> IF r \in read THEN "read" ELSE note[r]]
      BY <2>2 DEF MarkAllAsRead
    <3>2. UNCHANGED <<old, reader>>
      BY <2>2 DEF MarkAllAsRead
    <3> QED BY <3>1, <3>2 DEF BackendTypeOK, NoteState
  <2>3. ASSUME GrowOld \/ PurgeOldNotifications PROVE NotesOK'
    BY <2>3 DEF GrowOld, PurgeOldNotifications, BackendTypeOK, NoteState
  <2> QED BY <1>3, <2>1, <2>2, <2>3 DEF NotificationsNext
<1>4. ASSUME Die PROVE ReportOK' /\ NotesOK'
  BY <1>4 DEF Die, ForgetReports, ForgetNotes, BackendTypeOK, ReportState, NoteState
<1>5. ASSUME UNCHANGED report PROVE ReportOK'
  BY <1>5 DEF BackendTypeOK
<1>6. ASSUME UNCHANGED notes PROVE NotesOK'
  BY <1>6 DEF BackendTypeOK, notes
<1>7. ReportOK' /\ NotesOK'
  <2> HIDE DEF ReportOK, NotesOK
  <2> QED BY <1>2, <1>3, <1>4, <1>5, <1>6 DEF BackendNext, allVars
<1> QED BY <1>t, <1>7 DEF BackendTypeOK

\* The variables of the three parts stay well typed together.
THEOREM BackendTypeCorrect == BackendSpec => []BackendTypeOK
<1>1. BackendTypeOK /\ ControlInv /\ [BackendNext]_allVars => BackendTypeOK'
  BY BackendTypeNext
<1>2. Inv => ControlInv
  BY DEF Inv
<1> QED BY <1>1, <1>2, BackendTypeInit, MoneyPartInductive, PTL DEF BackendSpec

-----------------------------------------------------------------------------
(* Notifications.                                                          *)

\* An event is not taken back.
LEMMA EmittedStays ==
    ASSUME TypeOK, [Next]_vars
    PROVE  \A r \in Request : emitted[r] # "none" => emitted'[r] # "none"
<1>1. ASSUME NEW s \in Request, Finish(s)
      PROVE  \A r \in Request : emitted[r] # "none" => emitted'[r] # "none"
  BY <1>1 DEF Finish, TypeOK
<1>2. ASSUME NEW s \in Request, FinishFailed(s)
      PROVE  \A r \in Request : emitted[r] # "none" => emitted'[r] # "none"
  BY <1>2 DEF FinishFailed, TypeOK
<1>3. UNCHANGED emitted \/ \E s \in Request : Finish(s) \/ FinishFailed(s)
  BY DEF Next, Serve, vars, Arrive, Guard, Validate, Begin, Insert, DebitRead, CreditRead,
     Reload, Update, Complete, Commit, Rollback, SecondConnection, SaveFailed,
     DeadlockVictim, StatusRead, StatusReload, StatusUpdate, Open, Disconnect, Crash, DayPasses, Terminated
<1> QED BY <1>1, <1>2, <1>3

\* Only an emitted event leads to a notification, also to one that is being
\* marked as read, which save() might insert anew.
NoteInv ==
    /\ \A r \in Request : note[r] # "none" => emitted[r] # "none"
    /\ \A r \in reader : emitted[r] # "none"

LEMMA NoteNext ==
    ASSUME BackendTypeOK, ControlInv, NoteInv, [BackendNext]_allVars
    PROVE  NoteInv'
<1>1. \A r \in Request : emitted[r] # "none" => emitted'[r] # "none"
  BY MoneyPart, EmittedStays DEF BackendTypeOK
<1> DEFINE Caused == /\ \A r \in Request : note'[r] # "none" => emitted[r] # "none"
                     /\ \A r \in reader' : emitted[r] # "none"
<1>2. ASSUME NEW r \in Request, Create(r) \/ Load(r) \/ SaveRead(r) PROVE Caused
  BY <1>2 DEF Create, Creating, Load, SaveRead, SetNote, NoteInv, BackendTypeOK
<1>3. ASSUME MarkAllAsRead PROVE Caused
  <2>1. PICK read \in SUBSET {r \in Request : note[r] = "unread"} :
              note' = [r \in Request |-> IF r \in read THEN "read" ELSE note[r]]
    BY <1>3 DEF MarkAllAsRead
  <2>2. UNCHANGED reader
    BY <1>3 DEF MarkAllAsRead
  <2> QED BY <2>1, <2>2 DEF NoteInv
<1>4. ASSUME GrowOld PROVE Caused
  BY <1>4 DEF GrowOld, NoteInv
<1>5. ASSUME PurgeOldNotifications PROVE Caused
  BY <1>5 DEF PurgeOldNotifications, Purgeable, NoteInv
<1>6. ASSUME Die PROVE Caused
  BY <1>6 DEF Die, ForgetNotes, Creating, NoteInv
<1>7. ASSUME UNCHANGED notes PROVE Caused
  BY <1>7 DEF notes, NoteInv
<1>8. Caused
  <2> HIDE DEF Caused
  <2> QED BY <1>2, <1>3, <1>4, <1>5, <1>6, <1>7 DEF BackendNext, NotificationsNext, allVars
<1>9. BackendTypeOK'
  BY BackendTypeNext
<1> QED BY <1>1, <1>8, <1>9 DEF NoteInv, BackendTypeOK

\* A customer is never told of a success or a failure that the ledger does not
\* hold, nor after the row has changed: no row does.
THEOREM Notified == BackendSpec => []NotifiedAsBooked
<1>1. BackendInit => NoteInv
  BY DEF BackendInit, NotificationsInit, NoteInv
<1>2. BackendTypeOK /\ ControlInv /\ NoteInv /\ [BackendNext]_allVars => (BackendTypeOK /\ NoteInv)'
  BY NoteNext, BackendTypeNext
<1>3. TypeOK /\ ControlInv /\ NoteInv => NotifiedAsBooked
  BY DEF NoteInv, NotifiedAsBooked, ControlInv, TypeOK
<1>4. Inv => ControlInv
  BY DEF Inv
<1> QED BY <1>1, <1>2, <1>3, <1>4, BackendTypeInit, MoneyPartInductive, PTL DEF BackendSpec

-----------------------------------------------------------------------------
(* References.                                                             *)

\* What the ledger says of a reference depends on the records with it.
LEMMA RecordKept ==
    ASSUME NEW ref, RecordsWith(ref)' = RecordsWith(ref),
           \A s \in RecordsWith(ref) : row'[s] = row[s]
    PROVE  RecordOf(ref)' = RecordOf(ref)
<1>1. RecordOf(ref)' = IF RecordsWith(ref) = {} THEN "none"
                       ELSE row'[CHOOSE s \in RecordsWith(ref) : TRUE]
  BY DEF RecordOf
<1>2. CASE RecordsWith(ref) = {}
  BY <1>1, <1>2 DEF RecordOf
<1>3. CASE RecordsWith(ref) # {}
  <2>1. (CHOOSE s \in RecordsWith(ref) : TRUE) \in RecordsWith(ref)
    BY <1>3
  <2> QED BY <1>1, <1>3, <2>1 DEF RecordOf
<1> QED BY <1>2, <1>3

\* The first record with a reference is what the ledger says of it, and what
\* it says of the others stays the same.
LEMMA RecordStep ==
    ASSUME TypeOK, UNCHANGED job, NEW r \in Request, NEW status \in Final,
           NEW ref, ref = RefOf(r), row' = [row EXCEPT ![r] = status],
           \A s \in Request : row[s] # "none" => RefOf(s) # RefOf(r)
    PROVE  /\ RecordOf(ref) = "none"
           /\ RecordOf(ref)' = status
           /\ \A other : other # ref => RecordOf(other)' = RecordOf(other)
<1>1. RecordsWith(ref) = {}
  BY DEF RecordsWith
<1>2. RecordsWith(ref)' = {r} /\ row'[r] = status
  BY RefOfStable DEF RecordsWith, TypeOK, Final
<1>3. ASSUME NEW other, other # ref
      PROVE  /\ RecordsWith(other)' = RecordsWith(other)
             /\ \A s \in RecordsWith(other) : row'[s] = row[s]
  BY <1>3, RefOfStable DEF RecordsWith, TypeOK
<1>4. RecordOf(ref) = "none"
  BY <1>1 DEF RecordOf
<1>5. RecordOf(ref)' = status
  <2>1. (CHOOSE s \in {r} : TRUE) = r
    OBVIOUS
  <2> QED BY <1>2, <2>1 DEF RecordOf
<1> QED BY <1>3, <1>4, <1>5, RecordKept

LEMMA PaymentInit == BackendInit => Payment!Init
BY DEF BackendInit, Init, RecordOf, RecordsWith, Payment!Init

LEMMA PaymentNext ==
    ASSUME TypeOK, Inv, [Next]_vars
    PROVE  [Payment!Next]_[ref \in Reference |-> RecordOf(ref)]
<1> DEFINE record == [ref \in Reference |-> RecordOf(ref)]
<1>t. ControlInv
  BY DEF Inv
<1>j. UNCHANGED job
  BY JobStable
<1>u. ASSUME UNCHANGED row PROVE record' = record
  <2>1. \A ref : RecordsWith(ref)' = RecordsWith(ref)
    BY <1>u, <1>j, RefOfStable DEF RecordsWith
  <2> QED BY <1>u, <2>1, RecordKept
<1>r. ASSUME NEW r \in Request, NEW status \in Final, row' = [row EXCEPT ![r] = status],
             \A s \in Request : row[s] # "none" => RefOf(s) # RefOf(r)
      PROVE  [Payment!Next]_record
  <2>1. PICK ref : ref = RefOf(r)
    OBVIOUS
  <2>2. /\ RecordOf(ref) = "none"
        /\ RecordOf(ref)' = status
        /\ \A other : other # ref => RecordOf(other)' = RecordOf(other)
    BY <1>r, <1>j, <2>1, RecordStep
  <2>3. CASE ref \in Reference
    <3>1. \A other \in Reference :
                RecordOf(other)' = [record EXCEPT ![ref] = status][other]
      BY <2>2
    <3>2. record' = [record EXCEPT ![ref] = status]
      BY <3>1
    <3>3. record[ref] = "none"
      BY <2>2, <2>3
    <3> QED BY <1>r, <2>3, <3>2, <3>3 DEF Payment!Next, Payment!Record, Final
  <2>4. CASE ref \notin Reference
    <3>1. record' = record
      BY <2>2, <2>4
    <3> QED BY <3>1
  <2> QED BY <2>3, <2>4
<1>1. ASSUME NEW r \in Request, Commit(r) PROVE [Payment!Next]_record
  <2>1. row' = [row EXCEPT ![r] = "completed"] /\ draft[r] # "none"
    BY <1>1, <1>t, CommitRow DEF Commit, At, ControlInv
  <2>2. \A s \in Request : row[s] # "none" => RefOf(s) # RefOf(r)
    BY <2>1 DEF Inv, RefInv
  <2> QED BY <1>r, <2>1, <2>2 DEF Final
<1>2. ASSUME NEW r \in Request, SaveFailed(r) PROVE [Payment!Next]_record
  <2>1. CASE RefTaken(r)
    <3>1. UNCHANGED row
      BY <1>2, <2>1 DEF SaveFailed
    <3> QED BY <1>u, <3>1
  <2>2. CASE ~RefTaken(r)
    BY <1>2, <1>r, <2>2 DEF SaveFailed, RefTaken, Final
  <2> QED BY <2>1, <2>2
<1>3. CASE UNCHANGED row
  BY <1>3, <1>u
<1> QED
  <2> HIDE DEF record
  <2> QED BY <1>1, <1>2, <1>3, RowChanges DEF record

\* A reference, whoever supplied it, has one record at most, which never
\* changes, under every interleaving and fault, and although reports come in
\* and PENDING rows are expired meanwhile.
THEOREM Promised == BackendSpec => PaymentPromise
<1>1. BackendTypeOK /\ Inv /\ [BackendNext]_allVars
        => BackendTypeOK' /\ [Payment!Next]_[ref \in Reference |-> RecordOf(ref)]
  <2> SUFFICES ASSUME BackendTypeOK, Inv, [BackendNext]_allVars
               PROVE  BackendTypeOK' /\ [Payment!Next]_[ref \in Reference |-> RecordOf(ref)]
    OBVIOUS
  <2>1. TypeOK /\ ControlInv
    BY DEF BackendTypeOK, Inv
  <2>2. [Next]_vars
    BY <2>1, MoneyPart
  <2> QED BY <2>1, <2>2, BackendTypeNext, PaymentNext
<1> QED BY <1>1, BackendTypeInit, MoneyPartInductive, PaymentInit, PTL
        DEF BackendSpec, PaymentPromise, Payment!Spec
=============================================================================
