--------------------------- MODULE TransactionPin ---------------------------
(***************************************************************************)
(* TransactionPinService: setting, changing and verifying the PIN, and the *)
(* count of wrong attempts, kept in memory, that locks it for 15 minutes.  *)
(*                                                                         *)
(* The lock is looked at before the first await, the attempt is counted    *)
(* after the last: attempts in flight together all get their turn.         *)
(***************************************************************************)
EXTENDS Requests

CONSTANT InitialPin   \* user -> PIN at start

ASSUME InitialPinAssumption == InitialPin \in [User -> Pin \cup {NoPin}]

MAX_ATTEMPTS == 3

VARIABLES
    pin,     \* users.transactionPin, by user
    seen,    \* the PIN a request has read
    count,   \* attempts.count; three stands for more
    locked,  \* users whose lockedUntil has not passed
    misses   \* wrong attempts since the PIN was last unlocked (history)

pins == <<pin, seen, count, locked, misses>>

PinInit ==
    /\ pin = InitialPin
    /\ seen = [r \in Request |-> NoPin]
    /\ count = [u \in User |-> 0]
    /\ locked = {}
    /\ misses = [u \in User |-> 0]

See(r, p) == seen' = [seen EXCEPT ![r] = p]

\* setPin: findOne; a PIN that is there already is no obstacle.
PinFind(r) ==
    /\ At(r, "pinFind")
    /\ Goto(r, "pinUpdate")
    /\ UNCHANGED pins

\* verifyPin: checkLockout.
PinCheck(r) ==
    /\ At(r, "pinCheck")
    /\ Goto(r, IF Whom(r) \in locked THEN "refused" ELSE "pinSelect")
    /\ UNCHANGED pins

PinSelect(r) ==
    /\ At(r, "pinSelect")
    /\ IF pin[Whom(r)] = NoPin
       THEN Goto(r, "refused") /\ UNCHANGED seen
       ELSE Goto(r, "pinCompare") /\ See(r, pin[Whom(r)])
    /\ UNCHANGED <<pin, count, locked, misses>>

Clear(u) ==
    /\ count' = [count EXCEPT ![u] = 0]
    /\ locked' = locked \ {u}
    /\ misses' = [misses EXCEPT ![u] = 0]

Smaller(m, n) == IF m < n THEN m ELSE n

\* Mutant of Miss: one attempt more before the lock.
MissLate(u) ==
    /\ count' = [count EXCEPT ![u] = Smaller(@ + 1, MAX_ATTEMPTS)]
    /\ locked' = IF count[u] >= MAX_ATTEMPTS THEN locked \cup {u} ELSE locked
    /\ misses' = [misses EXCEPT ![u] = @ + 1]

\* recordFailedAttempt.  The count outlives the lock: after 15 minutes one
\* wrong attempt locks again.
Miss(u) ==
    /\ count' = [count EXCEPT ![u] = Smaller(@ + 1, MAX_ATTEMPTS)]
    /\ locked' = IF count'[u] = MAX_ATTEMPTS THEN locked \cup {u} ELSE locked
    /\ misses' = [misses EXCEPT ![u] = @ + 1]

\* bcrypt.compare with the PIN that was read; then, at once, the count.
PinCompare(r) ==
    /\ At(r, "pinCompare")
    /\ IF seen[r] = job[r].pin
       THEN /\ Goto(r, IF job[r].kind = "verifyPin" THEN "ok" ELSE "pinUpdate")
            /\ Clear(Whom(r))
       ELSE /\ Goto(r, "refused")
            /\ Miss(Whom(r))
    /\ See(r, NoPin)
    /\ UNCHANGED pin

\* The new hash is stored; changePin clears the attempts once more.
PinUpdate(r) ==
    /\ At(r, "pinUpdate")
    /\ pin' = [pin EXCEPT ![Whom(r)] = job[r].newPin]
    /\ IF job[r].kind = "changePin" THEN Clear(Whom(r))
       ELSE UNCHANGED <<count, locked, misses>>
    /\ Goto(r, "ok")
    /\ UNCHANGED seen

\* 15 minutes pass.
LockExpires ==
    \E u \in locked :
        /\ locked' = locked \ {u}
        /\ misses' = [misses EXCEPT ![u] = 0]
        /\ UNCHANGED <<requests, pin, seen, count>>

\* A restarted process remembers no attempt.
PinForgotten ==
    /\ seen' = [r \in Request |-> NoPin]
    /\ count' = [u \in User |-> 0]
    /\ locked' = {}
    /\ misses' = [u \in User |-> 0]
    /\ UNCHANGED pin

\* The customer tries again.
TryAgain(r) ==
    /\ job[r].kind = "verifyPin"
    /\ pc[r] \in Answered
    /\ Goto(r, "new")
    /\ UNCHANGED pins

PinStep(r) ==
    PinFind(r) \/ PinCheck(r) \/ PinSelect(r) \/ PinCompare(r) \/ PinUpdate(r)
-----------------------------------------------------------------------------
(* Properties. *)

PinTypeOK ==
    /\ pin \in [User -> Pin \cup {NoPin}]
    /\ seen \in [Request -> Pin \cup {NoPin}]
    /\ count \in [User -> 0 .. MAX_ATTEMPTS]
    /\ locked \subseteq User
    /\ misses \in [User -> Nat]

\* Between two unlockings of a PIN at most MAX_ATTEMPTS wrong attempts are
\* evaluated, and one more for each further request in flight at the moment
\* it locks, however often customers try and however their attempts overlap.
MissesBounded ==
    \A u \in User : misses[u] <= MAX_ATTEMPTS + Cardinality(Request) - 1
=============================================================================
