------------------------------ MODULE Requests ------------------------------
(***************************************************************************)
(* Requests about customers: what they ask for, where they are, and when   *)
(* they arrive.  The modules of the services extend this one; Identity     *)
(* composes them.                                                          *)
(***************************************************************************)
EXTENDS Integers, FiniteSets

CONSTANTS
    Request,   \* one per HTTP request
    User,      \* customers, each with an email address
    Account,   \* their accounts
    Holder,    \* account -> user
    Pin,       \* transaction PINs
    NoPin,
    Workload,  \* what the requests of a run may ask for
    Together,  \* groups of kinds that may overlap: see MayArrive
    Fault      \* which of "crash" and "fail" happen

\* Requests a customer makes with an access token.
CustomerKind == {"logout", "submit", "setPin", "changePin", "verifyPin",
                 "add", "update", "remove"}

\* Public ones, an administrator's, and the calls WalletsService waits for.
OtherKind == {"register", "login", "refresh", "activate", "deactivate",
              "approve", "reject", "upgrade", "createWallet", "spend", "use"}

Kind == CustomerKind \cup OtherKind

Tier == {"basic", "standard", "premium"}

JobType == [kind : Kind, user : User, account : Account, tier : Tier,
            amount : Nat, pin : Pin, newPin : Pin]

ASSUME WorkloadAssumption == Workload \subseteq [Request -> JobType]
ASSUME HolderAssumption == Holder \in [Account -> User]
ASSUME PinAssumption == NoPin \notin Pin
ASSUME TogetherAssumption == Together \subseteq SUBSET Kind
ASSUME FaultsAssumption == Fault \subseteq {"crash", "fail"}

VARIABLES
    job,   \* what each request asks for; never changes
    pc     \* the statement each request awaits

requests == <<job, pc>>

Answered == {"ok", "refused", "error", "lost"}

InFlight(r) == pc[r] \notin {"new"} \cup Answered

At(r, step) == pc[r] = step

Goto(r, step) == pc' = [pc EXCEPT ![r] = step] /\ UNCHANGED job

\* The customer a request is about.
Whom(r) == IF job[r].kind \in {"upgrade", "createWallet", "spend"}
           THEN Holder[job[r].account] ELSE job[r].user

RequestsInit ==
    /\ job \in Workload
    /\ pc = [r \in Request |-> "new"]

\* Requests about one customer follow each other, unless their kinds are in one
\* group.  (With Kind itself as a group nobody waits for anybody.)
MayArrive(r) ==
    \A s \in {s \in Request : InFlight(s)} :
        Whom(r) = Whom(s) => \E group \in Together : {job[r].kind, job[s].kind} \subseteq group

FirstStep == [register |-> "registerFind", login |-> "loginFind", refresh |-> "refreshFind",
              logout |-> "logoutUpdate", activate |-> "activeFind",
              deactivate |-> "activeFind", submit |-> "submitFind",
              approve |-> "reviewFind", reject |-> "reviewFind",
              upgrade |-> "upgradeFind", createWallet |-> "createWallet",
              spend |-> "spendFind", setPin |-> "pinFind",
              changePin |-> "pinCheck", verifyPin |-> "pinCheck",
              add |-> "addFind", update |-> "changeFind", remove |-> "changeFind",
              use |-> "useFind"]

\* A customer's request is authenticated first.
Arrive(r) ==
    /\ At(r, "new")
    /\ MayArrive(r)
    /\ Goto(r, IF job[r].kind \in CustomerKind THEN "authenticate"
               ELSE FirstStep[job[r].kind])

\* A statement fails; the handler throws.
Fail(r) ==
    /\ "fail" \in Fault
    /\ InFlight(r)
    /\ Goto(r, "error")

\* The process dies and is restarted.
Crash ==
    /\ "crash" \in Fault
    /\ \E r \in Request : InFlight(r)
    /\ pc' = [r \in Request |-> IF InFlight(r) THEN "lost" ELSE pc[r]]
    /\ UNCHANGED job
=============================================================================
