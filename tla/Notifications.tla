--------------------------- MODULE Notifications ---------------------------
(***************************************************************************)
(* Notifications of the outcome of a transaction: created by a handler of  *)
(* the domain event, which nobody waits for; marked as read, one or all;   *)
(* purged every night when they are read and older than 90 days.           *)
(*                                                                         *)
(* Of the events NotificationsService subscribes to only those of the      *)
(* money paths are ever emitted.  A request emits one event at most, so    *)
(* its notification is named by the request.                               *)
(***************************************************************************)
EXTENDS Transactions

VARIABLES
    note,    \* request -> its row of table notifications
    old,     \* notifications created more than 90 days ago
    reader   \* notifications markAsRead has loaded and not saved yet

notes == <<note, old, reader>>

\* "purged": deleted; "lost": the INSERT never happened.
NoteState == {"none", "unread", "read", "purged", "lost"}

NotificationsInit ==
    /\ note = [r \in Request |-> "none"]
    /\ old = {}
    /\ reader = {}

\* The event was emitted, so the INSERT has been sent.
Creating(r) == emitted[r] # "none" /\ note[r] = "none"

SetNote(r, state) == note' = [note EXCEPT ![r] = state]

Create(r) ==
    /\ Creating(r)
    /\ \/ FreeConnection /\ SetNote(r, "unread")
       \/ SetNote(r, "lost")   \* the statement fails; the rejection is swallowed
    /\ UNCHANGED <<vars, old, reader>>

\* markAsRead, first statement: findOne.
Load(r) ==
    /\ note[r] \in {"unread", "read"}
    /\ reader' = reader \cup {r}
    /\ UNCHANGED <<vars, note, old>>

\* Second statement: save() updates the row, or inserts it again if the purge
\* has deleted it meanwhile, with the date of creation it had.
SaveRead(r) ==
    /\ r \in reader
    /\ SetNote(r, "read")
    /\ reader' = reader \ {r}
    /\ UNCHANGED <<vars, old>>

\* markAllAsRead by a user: one UPDATE.
MarkAllAsRead ==
    \E read \in SUBSET {r \in Request : note[r] = "unread"} :
        /\ \A r, s \in Request : job[r].user = job[s].user /\ r \in read /\ note[s] = "unread"
                => s \in read
        /\ note' = [r \in Request |-> IF r \in read THEN "read" ELSE note[r]]
        /\ UNCHANGED <<vars, old, reader>>

\* 90 days pass; neither a request nor a notification takes that long.
GrowOld ==
    /\ \A r \in Request : ~InFlight(r) /\ ~Creating(r)
    /\ reader = {}
    /\ old' = {r \in Request : note[r] \in {"unread", "read"}}
    /\ UNCHANGED <<vars, note, reader>>

\* Mutant of Purgeable: the condition on isRead the wrong way round.
PurgeableUnread == {r \in old : note[r] = "unread"}

Purgeable == {r \in old : note[r] = "read"}

\* deleteOld, at two in the morning: one DELETE.
PurgeOldNotifications ==
    /\ note' = [r \in Request |-> IF r \in Purgeable THEN "purged" ELSE note[r]]
    /\ UNCHANGED <<vars, old, reader>>

\* With the process die the INSERTs it had sent and the entities it had loaded.
ForgetNotes ==
    /\ note' = [r \in Request |-> IF Creating(r) THEN "lost" ELSE note[r]]
    /\ reader' = {}
    /\ UNCHANGED old

NotificationsNext ==
    \/ \E r \in Request : Create(r) \/ Load(r) \/ SaveRead(r)
    \/ MarkAllAsRead \/ GrowOld \/ PurgeOldNotifications

\* The nightly job runs.
NotificationsFairness == WF_<<vars, notes>>(PurgeOldNotifications)
-----------------------------------------------------------------------------
(* Properties. *)

\* What a customer is told is what the ledger says: while there is a
\* notification of success or failure, the transaction has that status, no
\* matter what the catch block or the hourly expiry did to the row.
NotifiedAsBooked ==
    \A r \in Request : note[r] \in {"unread", "read"} => row[r] \in Final /\ row[r] = emitted[r]

\* A notification that is read and old is at last deleted, even if it is
\* being marked as read while the purge runs, which brings it back.
OldReadIsPurged ==
    \A r \in Request : r \in old /\ note[r] = "read" ~> note[r] = "purged"
=============================================================================
