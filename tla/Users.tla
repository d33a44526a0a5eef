------------------------------- MODULE Users -------------------------------
(***************************************************************************)
(* Registration, login, refresh, logout, activation: AuthService over the  *)
(* table users, whose row other services update as well.                   *)
(*                                                                         *)
(* `update(id, {column})` writes that column.  `save(user)` writes every   *)
(* column in which the entity differs from the row, so a column changed    *)
(* since the entity was loaded gets its old value back; its SELECT and     *)
(* UPDATE run back to back here (Transactions separates them).             *)
(*                                                                         *)
(* Of a refresh token the row holds a bcrypt hash.  bcrypt reads 72 bytes, *)
(* which the tokens of one user have in common (they start with the JWT    *)
(* header and the user's id): any of them matches while there is a hash,   *)
(* so that there is one, `session`, is all that can be told of it.         *)
(***************************************************************************)
EXTENDS Requests

CONSTANT InitialUser   \* user -> row at start

KycStatus == {"pending", "verified", "rejected"}

UserRow == [registered : BOOLEAN, isActive : BOOLEAN, kycStatus : KycStatus,
            session : BOOLEAN]

NoUser == [registered |-> FALSE, isActive |-> FALSE, kycStatus |-> "pending",
           session |-> FALSE]

ASSUME InitialUserAssumption ==
    /\ InitialUser \in [User -> UserRow]
    /\ \A u \in User : ~InitialUser[u].registered => InitialUser[u] = NoUser

VARIABLES
    user,   \* rows of table users, by email; a user's id stands for it
    entity  \* the user entity a request holds

users == <<user, entity>>

UsersInit ==
    /\ user = InitialUser
    /\ entity = [r \in Request |-> NoUser]

SetUser(r, column, value) == user' = [user EXCEPT ![Whom(r)][column] = value]

-----------------------------------------------------------------------------
\* JwtStrategy.validate: the customer of a token must exist and be active.
Authenticate(r) ==
    /\ At(r, "authenticate")
    /\ LET found == user[Whom(r)] IN
       Goto(r, IF found.registered /\ found.isActive THEN FirstStep[job[r].kind]
               ELSE "refused")
    /\ UNCHANGED users

\* register: findByEmail ...
RegisterFind(r) ==
    /\ At(r, "registerFind")
    /\ Goto(r, IF user[Whom(r)].registered THEN "refused" ELSE "create")
    /\ UNCHANGED users

\* Mutant of CreateUser: the column email is not unique.
CreateUserAgain(r) ==
    /\ At(r, "create")
    /\ user' = [user EXCEPT ![Whom(r)] =
                    [NoUser EXCEPT !.registered = TRUE, !.isActive = TRUE]]
    /\ Goto(r, "tokenUpdate")
    /\ UNCHANGED entity

\* ... and create: the unique index refuses an email registered meanwhile.
CreateUser(r) ==
    /\ At(r, "create")
    /\ IF user[Whom(r)].registered
       THEN Goto(r, "error") /\ UNCHANGED user
       ELSE /\ user' = [user EXCEPT ![Whom(r)] =
                            [NoUser EXCEPT !.registered = TRUE, !.isActive = TRUE]]
            /\ Goto(r, "tokenUpdate")
    /\ UNCHANGED entity

\* validateUser with the right password.
LoginFind(r) ==
    /\ At(r, "loginFind")
    /\ LET found == user[Whom(r)] IN
       Goto(r, IF found.registered /\ found.isActive THEN "tokenUpdate" ELSE "refused")
    /\ UNCHANGED users

\* refreshTokens with a token of the user; isActive is not looked at.
RefreshFind(r) ==
    /\ At(r, "refreshFind")
    /\ Goto(r, IF user[Whom(r)].session THEN "tokenUpdate" ELSE "refused")
    /\ UNCHANGED users

\* updateRefreshToken with a new token, before it is handed out.
TokenUpdate(r) ==
    /\ At(r, "tokenUpdate")
    /\ SetUser(r, "session", TRUE)
    /\ Goto(r, "ok")
    /\ UNCHANGED entity

\* updateRefreshToken(null): `null ?? undefined` is a column update() skips; it
\* writes updatedAt only.
Logout(r) ==
    /\ At(r, "logoutUpdate")
    /\ Goto(r, "ok")
    /\ UNCHANGED users

\* activate, deactivate: findById ...
ActiveFind(r) ==
    /\ At(r, "activeFind")
    /\ \/ /\ user[Whom(r)].registered
          /\ entity' = [entity EXCEPT ![r] = [user[Whom(r)] EXCEPT
                            !.isActive = (job[r].kind = "activate")]]
          /\ Goto(r, "activeSave")
       \/ ~user[Whom(r)].registered /\ Goto(r, "refused") /\ UNCHANGED entity
    /\ UNCHANGED user

\* ... and save.  The entity lists the user's accounts: one opened since would be
\* detached, which the column userId, not nullable, refuses.
ActiveSave(r) ==
    /\ At(r, "activeSave")
    /\ \/ user' = [user EXCEPT ![Whom(r)] = entity[r]] /\ Goto(r, "ok")
       \/ UNCHANGED user /\ Goto(r, "error")
    /\ entity' = [entity EXCEPT ![r] = NoUser]

UsersStep(r) ==
    \/ Authenticate(r) \/ RegisterFind(r) \/ CreateUser(r) \/ LoginFind(r)
    \/ RefreshFind(r) \/ TokenUpdate(r) \/ Logout(r) \/ ActiveFind(r) \/ ActiveSave(r)
-----------------------------------------------------------------------------
(* Properties. *)

UsersTypeOK == user \in [User -> UserRow] /\ entity \in [Request -> UserRow]

\* The request has created the row of its user.
Created(r) == job[r].kind = "register" /\ pc[r] \in {"tokenUpdate", "ok"}

\* Of several registrations with one email, however they interleave, one
\* succeeds at most: both may find it free, the index lets one create it.
OneUserPerEmail ==
    \A r, s \in Request : Created(r) /\ Created(s) /\ Whom(r) = Whom(s) => r = s

\* "Logout and invalidate refresh token": when a logout is answered, no session of
\* the customer is left that a refresh could continue.
LogoutEndsSession ==
    [][\A r \in Request : At(r, "logoutUpdate") /\ pc'[r] = "ok" => ~user'[Whom(r)].session
      ]_<<requests, users>>
=============================================================================
