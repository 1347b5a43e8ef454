------------------------------ MODULE Accounts ------------------------------
(***************************************************************************)
(* The users (users/user/): an administrator or a client is created, a     *)
(* client after a look at the network manager; an update goes to the       *)
(* network manager first and then to the database.  Every query and every  *)
(* call is a step of its own, and the requests interleave.                 *)
(***************************************************************************)
EXTENDS Naturals, FiniteSets

CONSTANTS
    Emails, Passwords,
    Subscribers,        \* the clients the network manager knows, by number
    Dni(_),             \* the dni it has for each
    Requests            \* requests to create or update a user

VARIABLES
    users,      \* the table user, each row with its profile
    lastId,     \* the ids given out
    isp,        \* the network manager of the active ISP, if there is one
    records,    \* what the network manager has for each subscriber
    request,    \* what each request is doing
    contended   \* history: updates of one user that were under way together

accountVars == <<users, lastId, isp, records, request, contended>>

NULL == "NULL"      \* an absent field, column or relation
NoIsp == "no isp"

(* A password as the column keeps it: a hash of bcrypt, or what was sent.  *)
Password == [text : Passwords, hashed : BOOLEAN]

User == [id : Nat, email : Emails, role : {"ADMIN", "CLIENT"}, password : Password,
         is_deleted : BOOLEAN, profile : BOOLEAN, subscriber : Subscribers \cup {NULL}]

CreateClientDto == [kind : {"client"}, email : Emails, password : Passwords,
                    subscriber : Subscribers]
CreateAdminDto == [kind : {"admin"}, email : Emails, password : Passwords]

Idle == [pc |-> "idle"]
AccountInFlight == {"checking", "asking", "inserting", "finding", "checkingEmail",
                    "updatingManager", "writing"}

Pc(r) == request[r].pc

UserWith(id) == CHOOSE u \in users : u.id = id
Ids == {u.id : u \in users}
HasEmail(email) == {u \in users : u.email = email}

AccountsTypeOK ==
    /\ users \subseteq User
    /\ Ids \subseteq 1..lastId
    /\ isp \in {"MIKROWISP", "WISPHUB", NULL, NoIsp}
    /\ records \in [Subscribers -> [email : Emails \cup {NULL}, password : Passwords \cup {NULL}]]
    /\ \A r \in Requests : Pc(r) \in {"idle", "done", "failed"} \cup AccountInFlight
    /\ contended \subseteq Requests

(* The unique columns of user and client_profile.                          *)
UniqueColumns ==
    \A u, v \in users :
        \/ u = v
        \/ /\ u.id # v.id /\ u.email # v.email
           /\ u.subscriber # NULL /\ v.subscriber # NULL => Dni(u.subscriber) # Dni(v.subscriber)

(* The administrator of start-up, whose profile is missing where start-up  *)
(* was cut off before it.                                                  *)
InitAccounts(email, password) ==
    /\ \E profile \in BOOLEAN :
          users = {[id |-> 1, email |-> email, role |-> "ADMIN",
                    password |-> [text |-> password, hashed |-> TRUE],
                    is_deleted |-> FALSE, profile |-> profile, subscriber |-> NULL]}
    /\ lastId = 1
    /\ isp \in {"MIKROWISP", "WISPHUB", NoIsp}
    /\ records = [s \in Subscribers |-> [email |-> NULL, password |-> NULL]]
    /\ request = [r \in Requests |-> Idle]
    /\ contended = {}

Goto(r, pc) == request' = [request EXCEPT ![r].pc = pc]

-----------------------------------------------------------------------------
(* Creation.  bcrypt gives no two hashes alike; what matters is that the   *)
(* password becomes one.                                                   *)

hashPassword(password) == [text |-> password, hashed |-> TRUE]

StartCreate(r, dto) ==
    /\ Pc(r) = "idle"
    /\ request' = [request EXCEPT ![r] = [pc |-> "checking", dto |-> dto]]
    /\ UNCHANGED <<users, lastId, isp, records, contended>>

(* validateUserCreation: an active ISP, a free email, and a network        *)
(* manager the factory knows.  An administrator is created without the     *)
(* last, but activeIsp.id is read all the same.                            *)
MayCreate(dto) ==
    /\ isp # NoIsp
    /\ HasEmail(dto.email) = {}
    /\ dto.kind = "client" => isp # NULL

CheckNewUser(r) ==
    /\ Pc(r) = "checking"
    /\ Goto(r, IF ~MayCreate(request[r].dto) THEN "failed"
               ELSE IF request[r].dto.kind = "client" THEN "asking" ELSE "inserting")
    /\ UNCHANGED <<users, lastId, isp, records, contended>>

(* getActiveIsp once more, and getUserData; it throws for a client who is  *)
(* gone there, and when the call fails.                                    *)
AskManager(r) ==
    /\ Pc(r) = "asking"
    /\ \/ isp \notin {NULL, NoIsp} /\ Goto(r, "inserting")
       \/ Goto(r, "failed")
    /\ UNCHANGED <<users, lastId, isp, records, contended>>

NewUser(dto) ==
    [id |-> lastId + 1, email |-> dto.email,
     role |-> IF dto.kind = "client" THEN "CLIENT" ELSE "ADMIN",
     password |-> hashPassword(dto.password), is_deleted |-> FALSE, profile |-> TRUE,
     subscriber |-> IF dto.kind = "client" THEN dto.subscriber ELSE NULL]

(* Mutant: no unique index on email.                                       *)
InsertAnyEmail(r) ==
    /\ Pc(r) = "inserting"
    /\ users' = users \cup {NewUser(request[r].dto)}
    /\ lastId' = lastId + 1
    /\ Goto(r, "done")
    /\ UNCHANGED <<isp, records, contended>>

(* user.create with the profile and its configuration: one transaction,    *)
(* refused when a unique column has the value by now.                      *)
InsertUser(r) ==
    /\ Pc(r) = "inserting"
    /\ LET user == NewUser(request[r].dto)
           clash == \E u \in users :
                       \/ u.email = user.email
                       \/ user.subscriber # NULL /\ u.subscriber # NULL
                          /\ Dni(u.subscriber) = Dni(user.subscriber)
       IN  /\ users' = IF clash THEN users ELSE users \cup {user}
           /\ Goto(r, IF clash THEN "failed" ELSE "done")
    /\ lastId' = lastId + 1
    /\ UNCHANGED <<isp, records, contended>>

-----------------------------------------------------------------------------
(* updateUser.  A dto names an email, a password or both.                  *)

StartUpdate(r, id, dto) ==
    /\ Pc(r) = "idle"
    /\ LET rivals == {o \in Requests : Pc(o) \in AccountInFlight
                                       /\ "id" \in DOMAIN request[o] /\ request[o].id = id}
       IN  contended' = contended \cup rivals \cup (IF rivals = {} THEN {} ELSE {r})
    /\ request' = [request EXCEPT ![r] =
                      [pc |-> "finding", id |-> id, dto |-> dto, subscriber |-> NULL,
                       manager |-> NULL]]
    /\ UNCHANGED <<users, lastId, isp, records>>

(* The user and the network manager of the user's ISP; an ISP that has     *)
(* none throws on network_manager.name.                                    *)
FindUser(r) ==
    /\ Pc(r) = "finding"
    /\ LET found == {u \in users : u.id = request[r].id} IN
       IF \E u \in found : u.subscriber # NULL => isp # NULL
       THEN LET u == CHOOSE v \in found : TRUE IN
            request' = [request EXCEPT ![r] = [@ EXCEPT
                !.pc = IF request[r].dto.email # NULL THEN "checkingEmail"
                       ELSE IF u.subscriber # NULL THEN "updatingManager" ELSE "writing",
                !.subscriber = u.subscriber, !.manager = isp]]
       ELSE Goto(r, "failed")
    /\ UNCHANGED <<users, lastId, isp, records, contended>>

(* Mutant: the email is left to the unique index.                          *)
SkipEmailCheck(r) ==
    /\ Pc(r) = "checkingEmail"
    /\ Goto(r, IF request[r].subscriber # NULL THEN "updatingManager" ELSE "writing")
    /\ UNCHANGED <<users, lastId, isp, records, contended>>

CheckEmail(r) ==
    /\ Pc(r) = "checkingEmail"
    /\ Goto(r, IF \E u \in HasEmail(request[r].dto.email) : u.id # request[r].id THEN "failed"
               ELSE IF request[r].subscriber # NULL THEN "updatingManager" ELSE "writing")
    /\ UNCHANGED <<users, lastId, isp, records, contended>>

Given(new, old) == IF new = NULL THEN old ELSE new

Updated(record, dto) ==
    [email |-> Given(dto.email, record.email), password |-> Given(dto.password, record.password)]

(* The network manager takes the update, refuses it, or fails; the answer  *)
(* of one that took it can be lost.  Only MikroWisp's service looks at     *)
(* estado: over Wisphub a refusal passes for a success.                    *)
UpdateManager(r) ==
    /\ Pc(r) = "updatingManager"
    /\ LET s == request[r].subscriber
           taken == [records EXCEPT ![s] = Updated(@, request[r].dto)]
       IN  \/ records' = taken /\ Goto(r, "writing")
           \/ records' \in {records, taken} /\ Goto(r, "failed")
           \/ request[r].manager = "WISPHUB" /\ UNCHANGED records /\ Goto(r, "writing")
    /\ UNCHANGED <<users, lastId, isp, contended>>

(* The user's row and profile, in one statement: refused when the user is  *)
(* gone or the email is taken by now.  The password goes in as it came.    *)
WriteUser(r) ==
    /\ Pc(r) = "writing"
    /\ LET dto == request[r].dto
           found == {u \in users : u.id = request[r].id}
           fits == \A u \in HasEmail(dto.email) : u.id = request[r].id
           Row(u) == [u EXCEPT !.email = Given(dto.email, @),
                               !.password = IF dto.password = NULL THEN @
                                            ELSE [text |-> dto.password, hashed |-> FALSE]]
       IN  IF found # {} /\ fits
           THEN users' = (users \ found) \cup {Row(u) : u \in found} /\ Goto(r, "done")
           ELSE UNCHANGED users /\ Goto(r, "failed")
    /\ UNCHANGED <<lastId, isp, records, contended>>

-----------------------------------------------------------------------------
(* Deletion, and the network manager of the ISP.                           *)

softUserDelete(id) ==
    /\ id \in Ids
    /\ users' = {IF u.id = id THEN [u EXCEPT !.is_deleted = TRUE] ELSE u : u \in users}
    /\ UNCHANGED <<lastId, isp, records, request, contended>>

(* A profile refers to its user and restricts the delete.                  *)
hardUserDelete(id) ==
    /\ id \in Ids
    /\ ~UserWith(id).profile
    /\ users' = users \ {UserWith(id)}
    /\ UNCHANGED <<lastId, isp, records, request, contended>>

(* Settings: the network manager is removed, and the ISP is left with none.*)
LoseManager ==
    /\ isp \in {"MIKROWISP", "WISPHUB"}
    /\ isp' = NULL
    /\ UNCHANGED <<users, lastId, records, request, contended>>

(* A query fails, and the request with it.                                 *)
AccountRequestFails(r) ==
    /\ Pc(r) \in AccountInFlight
    /\ Goto(r, "failed")
    /\ UNCHANGED <<users, lastId, isp, records, contended>>

AccountStep(r) ==
    \/ CheckNewUser(r) \/ AskManager(r) \/ InsertUser(r)
    \/ FindUser(r) \/ CheckEmail(r) \/ UpdateManager(r) \/ WriteUser(r)
    \/ AccountRequestFails(r)
=============================================================================
