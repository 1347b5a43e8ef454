---------------------------- MODULE AccessProofs ----------------------------
(***************************************************************************)
(* What holds of Access for any number of users, requests, sessions and    *)
(* visits, and for every lifetime of a session.                            *)
(***************************************************************************)
EXTENDS Access, TLAPS

-----------------------------------------------------------------------------
(***************************************************************************)
(* The users.  A request knows only what it was sent and has read, so what *)
(* it will write is typed before it is written; a user of the network      *)
(* manager has a profile, which restricts the delete.                      *)
(***************************************************************************)
IspStates == {"MIKROWISP", "WISPHUB", NULL, NoIsp}
Record == [email : Emails \cup {NULL}, password : Passwords \cup {NULL}]

IdleRequest == [pc : {"idle"}]
CreateRequest == [pc : {"checking", "asking", "inserting", "done", "failed"}, dto : CreateDtos]
UpdateRequest == [pc : {"finding", "checkingEmail", "updatingManager", "writing", "done", "failed"},
                  id : Nat, dto : UpdateDtos, subscriber : Subscribers \cup {NULL},
                  manager : IspStates]

RequestOK(q) ==
    /\ q \in IdleRequest \cup CreateRequest \cup UpdateRequest
    /\ q.pc = "updatingManager" => q.subscriber \in Subscribers

AccountsInv ==
    /\ lastId \in Nat /\ users \subseteq User /\ Ids \subseteq 1..lastId
    /\ UniqueColumns
    /\ \A u \in users : u.subscriber # NULL => u.profile
    /\ isp \in IspStates
    /\ records \in [Subscribers -> Record]
    /\ DOMAIN request = Requests /\ \A r \in Requests : RequestOK(request[r])
    /\ contended \subseteq Requests

(* The users grow by one with a fresh id, or keep their ids.               *)
IdsGrow == Ids \subseteq Ids' /\ lastId <= lastId' /\ \A id \in Ids' \ Ids : id > lastId

LEMMA InitAccountsInv == Init => AccountsInv
<1> SUFFICES ASSUME Init PROVE AccountsInv
    OBVIOUS
<1>1. PICK profile \in BOOLEAN :
         users = {[id |-> 1, email |-> FirstEmail, role |-> "ADMIN",
                   password |-> [text |-> FirstPassword, hashed |-> TRUE],
                   is_deleted |-> FALSE, profile |-> profile, subscriber |-> NULL]}
  BY DEF Init, InitAccounts
<1>2. users \subseteq User /\ Ids = {1} /\ UniqueColumns
      /\ \A u \in users : u.subscriber # NULL => u.profile
  BY <1>1, AccessAssumption DEF User, Password, Ids, UniqueColumns
<1>3. lastId = 1 /\ isp \in IspStates /\ contended = {}
  BY DEF Init, InitAccounts, IspStates
<1>4. records \in [Subscribers -> Record]
  BY DEF Init, InitAccounts, Record
<1>5. DOMAIN request = Requests /\ \A r \in Requests : RequestOK(request[r])
  BY DEF Init, InitAccounts, Idle, RequestOK, IdleRequest
<1> QED
  BY <1>2, <1>3, <1>4, <1>5 DEF AccountsInv

(* One request moves on: what it becomes is all there is to look at.       *)
LEMMA OneRequest ==
  ASSUME AccountsInv, NEW r \in Requests, NEW q, RequestOK(q),
         request' = [request EXCEPT ![r] = q]
  PROVE  DOMAIN request' = Requests /\ \A o \in Requests : RequestOK(request'[o])
BY DEF AccountsInv

LEMMA GotoOK ==
  ASSUME AccountsInv, NEW r \in Requests, NEW pc, Goto(r, pc), Pc(r) # "idle",
         \/ request[r] \in CreateRequest /\ pc \in {"checking", "asking", "inserting", "done", "failed"}
         \/ /\ request[r] \in UpdateRequest
            /\ pc \in {"finding", "checkingEmail", "updatingManager", "writing", "done", "failed"}
            /\ pc = "updatingManager" => request[r].subscriber \in Subscribers
  PROVE  DOMAIN request' = Requests /\ \A o \in Requests : RequestOK(request'[o])
<1> DEFINE q == [request[r] EXCEPT !.pc = pc]
<1>1. request' = [request EXCEPT ![r] = q]
  BY DEF Goto
<1>2. RequestOK(q)
  <2>1. CASE /\ request[r] \in CreateRequest
             /\ pc \in {"checking", "asking", "inserting", "done", "failed"}
    BY <2>1 DEF CreateRequest, RequestOK
  <2>2. CASE /\ request[r] \in UpdateRequest
             /\ pc \in {"finding", "checkingEmail", "updatingManager", "writing", "done", "failed"}
             /\ pc = "updatingManager" => request[r].subscriber \in Subscribers
    BY <2>2 DEF UpdateRequest, RequestOK
  <2> QED
    BY <2>1, <2>2
<1> HIDE DEF q
<1> QED
  BY <1>1, <1>2, OneRequest

(* What a request is from where it is.                                     *)
LEMMA RequestKinds ==
  ASSUME AccountsInv, NEW r \in Requests
  PROVE  /\ Pc(r) \in {"checking", "asking", "inserting"} => request[r] \in CreateRequest
         /\ Pc(r) \in {"finding", "checkingEmail", "updatingManager", "writing"}
               => request[r] \in UpdateRequest
         /\ Pc(r) # "idle" => request[r] \in CreateRequest \cup UpdateRequest
         /\ Pc(r) = "updatingManager" => request[r].subscriber \in Subscribers
BY DEF AccountsInv, RequestOK, IdleRequest, CreateRequest, UpdateRequest, Pc

(* A new row, where no unique column has its values.                       *)
LEMMA UserAdded ==
  ASSUME AccountsInv, NEW r \in Requests, request[r] \in CreateRequest,
         ~ \E u \in users :
              \/ u.email = NewUser(request[r].dto).email
              \/ NewUser(request[r].dto).subscriber # NULL /\ u.subscriber # NULL
                 /\ Dni(u.subscriber) = Dni(NewUser(request[r].dto).subscriber),
         users' = users \cup {NewUser(request[r].dto)}, lastId' = lastId + 1
  PROVE  /\ users' \subseteq User /\ Ids' \subseteq 1..lastId' /\ UniqueColumns'
         /\ \A u \in users' : u.subscriber # NULL => u.profile
         /\ IdsGrow
<1> DEFINE user == NewUser(request[r].dto)
<1>1. request[r].dto \in CreateClientDto \cup CreateAdminDto
  BY AccessAssumption DEF CreateRequest
<1>2. user \in User /\ user.id = lastId + 1 /\ user.profile
  BY <1>1 DEF NewUser, hashPassword, User, Password, CreateClientDto, CreateAdminDto, AccountsInv
<1>3. /\ \A u \in users : u.id \in 1..lastId /\ u.id # user.id /\ u.email # user.email
                          /\ (u.subscriber # NULL /\ user.subscriber # NULL
                                => Dni(u.subscriber) # Dni(user.subscriber))
  BY <1>2 DEF AccountsInv, Ids
<1>4. users' = users \cup {user}
  OBVIOUS
<1> HIDE DEF user
<1>5. UniqueColumns'
  BY <1>3, <1>4 DEF AccountsInv, UniqueColumns
<1>6. Ids' = Ids \cup {lastId + 1}
  BY <1>2, <1>4 DEF Ids
<1> QED
  BY <1>2, <1>4, <1>5, <1>6 DEF AccountsInv, IdsGrow
(* A row rewritten under its id, with an email no one else has.            *)
LEMMA UserRewritten ==
  ASSUME AccountsInv, NEW id, NEW row, NEW u \in users, u.id = id, row \in User, row.id = id,
         row.subscriber = u.subscriber, row.profile = u.profile,
         \A v \in users : v.id = id \/ v.email # row.email,
         users' = (users \ {v \in users : v.id = id}) \cup {row}, lastId' = lastId
  PROVE  /\ users' \subseteq User /\ Ids' = Ids /\ UniqueColumns'
         /\ \A v \in users' : v.subscriber # NULL => v.profile
<1>1. \A v \in users' : v = row \/ (v \in users /\ v.id # id)
  OBVIOUS
<1>2. UniqueColumns'
  <2> SUFFICES ASSUME NEW v \in users', NEW w \in users'
               PROVE  \/ v = w
                      \/ /\ v.id # w.id /\ v.email # w.email
                         /\ v.subscriber # NULL /\ w.subscriber # NULL
                               => Dni(v.subscriber) # Dni(w.subscriber)
      BY DEF UniqueColumns
  <2>1. \A x \in users : x.id # id =>
           x.email # u.email /\ (x.subscriber # NULL /\ u.subscriber # NULL
                                   => Dni(x.subscriber) # Dni(u.subscriber))
    BY DEF AccountsInv, UniqueColumns
  <2>2. CASE v = row
    BY <1>1, <2>1, <2>2
  <2>3. CASE v # row /\ w = row
    BY <1>1, <2>1, <2>3
  <2>4. CASE v # row /\ w # row
    BY <1>1, <2>4 DEF AccountsInv, UniqueColumns
  <2> QED
    BY <2>2, <2>3, <2>4
<1>3. Ids' = Ids
  <2>1. Ids' = {v.id : v \in users'} /\ Ids = {v.id : v \in users}
    BY DEF Ids
  <2>2. \A x \in Ids : x \in Ids'
    <3> SUFFICES ASSUME NEW v \in users PROVE \E w \in users' : w.id = v.id
        BY <2>1
    <3>1. CASE v.id = id
      BY <3>1
    <3>2. CASE v.id # id
      BY <3>2
    <3> QED
      BY <3>1, <3>2
  <2>3. \A x \in Ids' : x \in Ids
    BY <1>1, <2>1
  <2> QED
    BY <2>2, <2>3
<1> QED
  BY <1>1, <1>2, <1>3 DEF AccountsInv

LEMMA WriteUserOK ==
  ASSUME AccountsInv, NEW r \in Requests, WriteUser(r)
  PROVE  AccountsInv' /\ IdsGrow
<1> DEFINE dto == request[r].dto
           id == request[r].id
           Row(u) == [u EXCEPT !.email = Given(dto.email, @),
                               !.password = IF dto.password = NULL THEN @
                                            ELSE [text |-> dto.password, hashed |-> FALSE]]
           found == {u \in users : u.id = id}
<1>1. request[r] \in UpdateRequest /\ Pc(r) = "writing" /\ UNCHANGED <<lastId, isp, records, contended>>
  BY RequestKinds DEF WriteUser
<1>2. dto \in [email : Emails \cup {NULL}, password : Passwords \cup {NULL}]
  BY <1>1, AccessAssumption DEF UpdateRequest
<1>3. ASSUME found # {}, \A u \in HasEmail(dto.email) : u.id = id,
             users' = (users \ found) \cup {Row(u) : u \in found}, Goto(r, "done")
      PROVE  AccountsInv' /\ IdsGrow
  <2>1. PICK u \in users : u.id = id
    BY <1>3
  <2>2. found = {u}
    BY <2>1 DEF AccountsInv, UniqueColumns
  <2>3. users' = (users \ {v \in users : v.id = id}) \cup {Row(u)}
    BY <1>3, <2>2
  <2>4. u \in User
    BY DEF AccountsInv
  <2>5. Row(u) \in User /\ Row(u).id = id /\ Row(u).subscriber = u.subscriber
        /\ Row(u).profile = u.profile
        /\ Row(u).email = Given(dto.email, u.email)
    BY <1>2, <2>1, <2>4 DEF User, Password, Given
  <2>6. \A v \in users : v.id = id \/ v.email # Row(u).email
    <3> SUFFICES ASSUME NEW v \in users, v.id # id PROVE v.email # Row(u).email
        OBVIOUS
    <3>1. v.email # u.email
      BY <2>1 DEF AccountsInv, UniqueColumns
    <3>2. v.email # dto.email
      BY <1>3 DEF HasEmail
    <3> QED
      BY <2>5, <3>1, <3>2 DEF Given
  <2>7. DOMAIN request' = Requests /\ \A o \in Requests : RequestOK(request'[o])
    BY <1>1, <1>3, GotoOK
  <2>8. PICK row : row = Row(u)
    OBVIOUS
  <2> HIDE DEF Row, id, dto
  <2>9. /\ users' \subseteq User /\ Ids' = Ids /\ UniqueColumns'
        /\ \A v \in users' : v.subscriber # NULL => v.profile
    BY <1>1, <2>1, <2>3, <2>5, <2>6, <2>8, UserRewritten
  <2> QED
    BY <1>1, <2>7, <2>9 DEF AccountsInv, IdsGrow
<1>4. ASSUME UNCHANGED users, Goto(r, "failed")
      PROVE  AccountsInv' /\ IdsGrow
  <2>1. DOMAIN request' = Requests /\ \A o \in Requests : RequestOK(request'[o])
    BY <1>1, <1>4, GotoOK
  <2> QED
    BY <1>1, <1>4, <2>1 DEF AccountsInv, IdsGrow, Ids, UniqueColumns
<1> QED
  BY <1>3, <1>4 DEF WriteUser

(* A step that leaves the users, the ISP and the counter alone.            *)
LEMMA OnlyRequest ==
  ASSUME AccountsInv, UNCHANGED <<users, lastId, isp>>,
         records' \in [Subscribers -> Record], contended' \subseteq Requests,
         DOMAIN request' = Requests, \A o \in Requests : RequestOK(request'[o])
  PROVE  AccountsInv' /\ IdsGrow
BY DEF AccountsInv, IdsGrow, Ids, UniqueColumns

LEMMA AccountStepOK ==
  ASSUME AccountsInv, NEW r \in Requests, AccountStep(r)
  PROVE  AccountsInv' /\ IdsGrow
<1>1. CASE CheckNewUser(r)
  <2>1. request[r] \in CreateRequest
    BY <1>1, RequestKinds DEF CheckNewUser
  <2>2. PICK pc \in {"failed", "asking", "inserting"} : Goto(r, pc)
    BY <1>1 DEF CheckNewUser
  <2>3. DOMAIN request' = Requests /\ \A o \in Requests : RequestOK(request'[o])
    BY <1>1, <2>1, <2>2, GotoOK DEF CheckNewUser
  <2> QED
    BY <1>1, <2>3, OnlyRequest DEF CheckNewUser, AccountsInv
<1>2. CASE AskManager(r)
  <2>1. request[r] \in CreateRequest
    BY <1>2, RequestKinds DEF AskManager
  <2>2. DOMAIN request' = Requests /\ \A o \in Requests : RequestOK(request'[o])
    BY <1>2, <2>1, GotoOK DEF AskManager
  <2> QED
    BY <1>2, <2>2, OnlyRequest DEF AskManager, AccountsInv
<1>3. CASE InsertUser(r)
  <2> DEFINE user == NewUser(request[r].dto)
             clash == \E u \in users :
                         \/ u.email = user.email
                         \/ user.subscriber # NULL /\ u.subscriber # NULL
                            /\ Dni(u.subscriber) = Dni(user.subscriber)
  <2>1. request[r] \in CreateRequest /\ Pc(r) = "inserting"
    BY <1>3, RequestKinds DEF InsertUser
  <2>2. /\ users' = IF clash THEN users ELSE users \cup {user}
        /\ Goto(r, IF clash THEN "failed" ELSE "done")
        /\ lastId' = lastId + 1 /\ UNCHANGED <<isp, records, contended>>
    BY <1>3 DEF InsertUser
  <2>3. DOMAIN request' = Requests /\ \A o \in Requests : RequestOK(request'[o])
    <3>1. CASE clash
      BY <2>1, <2>2, <3>1, GotoOK
    <3>2. CASE ~clash
      BY <2>1, <2>2, <3>2, GotoOK
    <3> QED
      BY <3>1, <3>2
  <2>4. CASE clash
    <3>1. users' = users
      BY <2>2, <2>4
    <3> HIDE DEF clash
    <3> QED
      BY <2>2, <2>3, <3>1 DEF AccountsInv, IdsGrow, Ids, UniqueColumns
  <2>5. CASE ~clash
    <3>1. /\ users' \subseteq User /\ Ids' \subseteq 1..lastId' /\ UniqueColumns'
          /\ \A u \in users' : u.subscriber # NULL => u.profile
          /\ IdsGrow
      BY <2>1, <2>2, <2>5, UserAdded
    <3> QED
      BY <2>2, <2>3, <3>1 DEF AccountsInv
  <2> QED
    BY <2>4, <2>5
<1>4. CASE FindUser(r)
  <2> DEFINE found == {u \in users : u.id = request[r].id}
             u == CHOOSE v \in found : TRUE
             q == [request[r] EXCEPT
                      !.pc = IF request[r].dto.email # NULL THEN "checkingEmail"
                             ELSE IF u.subscriber # NULL THEN "updatingManager" ELSE "writing",
                      !.subscriber = u.subscriber, !.manager = isp]
  <2>1. request[r] \in UpdateRequest /\ Pc(r) = "finding"
    BY <1>4, RequestKinds DEF FindUser
  <2>2. CASE Goto(r, "failed")
    <3>1. DOMAIN request' = Requests /\ \A o \in Requests : RequestOK(request'[o])
      BY <2>1, <2>2, GotoOK
    <3> QED
      BY <1>4, <3>1, OnlyRequest DEF FindUser, AccountsInv
  <2>3. CASE found # {} /\ request' = [request EXCEPT ![r] = q]
    <3>1. u \in users
      BY <2>3
    <3>2. u \in User /\ isp \in IspStates
      BY <3>1 DEF AccountsInv
    <3>3. u.subscriber \in Subscribers \cup {NULL}
      BY <3>2 DEF User
    <3> HIDE DEF u
    <3>4. RequestOK(q)
      BY <2>1, <3>2, <3>3 DEF RequestOK, UpdateRequest
    <3> HIDE DEF q
    <3>5. DOMAIN request' = Requests /\ \A o \in Requests : RequestOK(request'[o])
      BY <2>3, <3>4, OneRequest
    <3> QED
      BY <1>4, <3>5, OnlyRequest DEF FindUser, AccountsInv
  <2>4. CASE \E v \in found : v.subscriber # NULL => isp # NULL
    <3>2. request' = [request EXCEPT ![r] = q]
      BY <1>4, <2>4 DEF FindUser
    <3> QED
      BY <2>3, <2>4, <3>2
  <2>5. CASE ~ \E v \in found : v.subscriber # NULL => isp # NULL
    <3>1. Goto(r, "failed")
      BY <1>4, <2>5 DEF FindUser
    <3> QED
      BY <2>2, <3>1
  <2> QED
    BY <2>4, <2>5
<1>5. CASE CheckEmail(r)
  <2>1. request[r] \in UpdateRequest /\ Pc(r) = "checkingEmail"
    BY <1>5, RequestKinds DEF CheckEmail
  <2>2. \/ Goto(r, "failed") \/ Goto(r, "writing")
        \/ Goto(r, "updatingManager") /\ request[r].subscriber # NULL
    BY <1>5 DEF CheckEmail
  <2>3. DOMAIN request' = Requests /\ \A o \in Requests : RequestOK(request'[o])
    BY <2>1, <2>2, GotoOK DEF UpdateRequest
  <2> QED
    BY <1>5, <2>3, OnlyRequest DEF CheckEmail, AccountsInv
<1>6. CASE UpdateManager(r)
  <2> DEFINE s == request[r].subscriber
             taken == [records EXCEPT ![s] = Updated(@, request[r].dto)]
  <2>1. request[r] \in UpdateRequest /\ Pc(r) = "updatingManager" /\ s \in Subscribers
    BY <1>6, RequestKinds DEF UpdateManager
  <2>2. request[r].dto \in [email : Emails \cup {NULL}, password : Passwords \cup {NULL}]
    BY <2>1, AccessAssumption DEF UpdateRequest
  <2>3. Updated(records[s], request[r].dto) \in Record
    BY <2>1, <2>2 DEF AccountsInv, Updated, Given, Record
  <2>4. taken \in [Subscribers -> Record]
    BY <2>1, <2>3 DEF AccountsInv
  <2>5. records' \in {records, taken} /\ (Goto(r, "writing") \/ Goto(r, "failed"))
    BY <1>6 DEF UpdateManager
  <2>6. DOMAIN request' = Requests /\ \A o \in Requests : RequestOK(request'[o])
    BY <2>1, <2>5, GotoOK
  <2>7. records' \in [Subscribers -> Record]
    BY <2>4, <2>5 DEF AccountsInv
  <2> QED
    BY <1>6, <2>6, <2>7, OnlyRequest DEF UpdateManager, AccountsInv
<1>7. CASE WriteUser(r)
  BY <1>7, WriteUserOK
<1>8. CASE AccountRequestFails(r)
  <2>1. Pc(r) # "idle" /\ Goto(r, "failed")
    BY <1>8 DEF AccountRequestFails, AccountInFlight
  <2>2. DOMAIN request' = Requests /\ \A o \in Requests : RequestOK(request'[o])
    BY <2>1, RequestKinds, GotoOK
  <2> QED
    BY <1>8, <2>2, OnlyRequest DEF AccountRequestFails, AccountsInv
<1> QED
  BY <1>1, <1>2, <1>3, <1>4, <1>5, <1>6, <1>7, <1>8 DEF AccountStep
LEMMA AdminOK ==
  ASSUME AccountsInv, Admin
  PROVE  AccountsInv' /\ IdsGrow
<1>1. ASSUME NEW r \in Requests, NEW dto \in CreateDtos, StartCreate(r, dto)
      PROVE  AccountsInv' /\ IdsGrow
  <2> DEFINE q == [pc |-> "checking", dto |-> dto]
  <2>1. RequestOK(q)
    BY DEF RequestOK, CreateRequest
  <2>2. request' = [request EXCEPT ![r] = q]
    BY <1>1 DEF StartCreate
  <2> HIDE DEF q
  <2>3. DOMAIN request' = Requests /\ \A o \in Requests : RequestOK(request'[o])
    BY <2>1, <2>2, OneRequest
  <2> QED
    BY <1>1, <2>3, OnlyRequest DEF StartCreate, AccountsInv
<1>2. ASSUME NEW r \in Requests, NEW id \in Ids, NEW dto \in UpdateDtos, StartUpdate(r, id, dto)
      PROVE  AccountsInv' /\ IdsGrow
  <2> DEFINE q == [pc |-> "finding", id |-> id, dto |-> dto, subscriber |-> NULL, manager |-> NULL]
  <2>1. id \in Nat
    BY DEF AccountsInv
  <2>2. RequestOK(q)
    BY <2>1 DEF RequestOK, UpdateRequest, IspStates
  <2>3. request' = [request EXCEPT ![r] = q]
    BY <1>2 DEF StartUpdate
  <2> HIDE DEF q
  <2>4. DOMAIN request' = Requests /\ \A o \in Requests : RequestOK(request'[o])
    BY <2>2, <2>3, OneRequest
  <2>5. contended' \subseteq Requests
    BY <1>2 DEF StartUpdate, AccountsInv
  <2> QED
    BY <1>2, <2>4, <2>5, OnlyRequest DEF StartUpdate, AccountsInv
<1>3. CASE LoseManager
  <2>1. isp' \in IspStates /\ UNCHANGED <<users, lastId, records, request, contended>>
    BY <1>3 DEF LoseManager, IspStates
  <2> QED
    BY <2>1 DEF AccountsInv, IdsGrow, Ids, UniqueColumns
<1>4. ASSUME NEW id \in Ids, softUserDelete(id)
      PROVE  AccountsInv' /\ IdsGrow
  <2> DEFINE Row(u) == IF u.id = id THEN [u EXCEPT !.is_deleted = TRUE] ELSE u
  <2>1. users' = {Row(u) : u \in users} /\ UNCHANGED <<lastId, isp, records, request, contended>>
    BY <1>4 DEF softUserDelete
  <2>2. \A u \in users :
           /\ Row(u) \in User /\ Row(u).id = u.id /\ Row(u).email = u.email
           /\ Row(u).subscriber = u.subscriber /\ Row(u).profile = u.profile
    <3> SUFFICES ASSUME NEW u \in users
                 PROVE  /\ Row(u) \in User /\ Row(u).id = u.id /\ Row(u).email = u.email
                        /\ Row(u).subscriber = u.subscriber /\ Row(u).profile = u.profile
        OBVIOUS
    <3>1. u \in User
      BY DEF AccountsInv
    <3> QED
      BY <3>1 DEF User
  <2> HIDE DEF Row
  <2>3. Ids' = Ids
    BY <2>1, <2>2 DEF Ids
  <2>4. UniqueColumns'
    BY <2>1, <2>2 DEF AccountsInv, UniqueColumns
  <2>5. users' \subseteq User /\ \A u \in users' : u.subscriber # NULL => u.profile
    BY <2>1, <2>2 DEF AccountsInv
  <2> QED
    BY <2>1, <2>3, <2>4, <2>5 DEF AccountsInv, IdsGrow
<1> QED
  BY <1>1, <1>2, <1>3, <1>4, AccountStepOK DEF Admin

(* Only a user without a profile goes, and no one else's id with it.       *)
LEMMA DeleteOK ==
  ASSUME AccountsInv, NEW id \in Ids, hardUserDelete(id)
  PROVE  /\ AccountsInv' /\ Ids' = Ids \ {id}
         /\ \A u \in users : u.subscriber # NULL => u \in users'
<1>1. PICK u \in users : u.id = id
  BY DEF Ids
<1>2. UserWith(id) \in users /\ UserWith(id).id = id
  BY <1>1 DEF UserWith
<1>3. PICK gone \in users : gone = UserWith(id) /\ gone.id = id
  BY <1>2
<1>4. users' = users \ {gone} /\ ~gone.profile
      /\ UNCHANGED <<lastId, isp, records, request, contended>>
  BY <1>3 DEF hardUserDelete
<1>5. Ids' = Ids \ {id}
  BY <1>3, <1>4 DEF AccountsInv, UniqueColumns, Ids
<1>6. \A v \in users : v.subscriber # NULL => v \in users'
  BY <1>3, <1>4 DEF AccountsInv
<1> QED
  BY <1>4, <1>5, <1>6 DEF AccountsInv, UniqueColumns

LEMMA AccountsStep == AccountsInv /\ [Next]_vars => AccountsInv'
<1> SUFFICES ASSUME AccountsInv, [Next]_vars PROVE AccountsInv'
    OBVIOUS
<1>1. CASE Admin
  BY <1>1, AdminOK
<1>2. CASE Delete
  BY <1>2, DeleteOK DEF Delete
<1>3. CASE UNCHANGED accountVars
  BY <1>3 DEF accountVars, AccountsInv, Ids, UniqueColumns
<1> QED
  BY <1>1, <1>2, <1>3 DEF Next, Visiting, vars
-----------------------------------------------------------------------------
(***************************************************************************)
(* The sessions.  What a request has read of its session is a tick old at  *)
(* the most, for a request lasts no longer, and a renewal writes what it   *)
(* computed then: so the end of a session in the table is never more than  *)
(* a tick earlier than what a request has read (VisitOK), and never before *)
(* the last answer and 15 days (SessionOK).  A session that is gone though *)
(* its user is there was found expired, and no request that read it before *)
(* will find it fresh (GoneOK).                                            *)
(***************************************************************************)
Holding == {"found", "deleting", "renewing"}

SigningVisit == [pc : {"comparing", "creating"}, email : Emails, password : Passwords,
                 user : User, start : Nat]
ArrivingVisit == [pc : {"arriving"}, token : Tokens, adminOnly : BOOLEAN, start : Nat]
HoldingVisit == [pc : Holding, token : Tokens, adminOnly : BOOLEAN, start : Nat,
                 user : User, expiresAt : Nat]

VisitOK(w) ==
    /\ w \in [pc : VisitOver] \cup SigningVisit \cup ArrivingVisit \cup HoldingVisit
    /\ w.pc \in VisitInFlight => w.start <= now /\ now <= w.start + 1
    /\ w.pc \in Holding => /\ w.user.id = issued[w.token] /\ issued[w.token] # Nobody
                           /\ w.expiresAt <= lastUse[w.token] + Lifetime
    /\ w.pc = "found" => \A s \in sessions : s.id = w.token => w.expiresAt <= s.expiresAt + 1
    /\ w.pc = "deleting" => w.expiresAt <= now
    /\ w.pc = "renewing" => w.start + Lifetime <= w.expiresAt

SessionOK(s) ==
    /\ s.userId \in Ids /\ s.userId = issued[s.id]
    /\ s.expiresAt <= lastUse[s.id] + Lifetime
    /\ lastAnswer[s.id] + Renewal <= s.expiresAt

GoneOK(t) ==
    (\A s \in sessions : s.id # t) /\ issued[t] \in Ids /\ t \notin crossed =>
        /\ lastAnswer[t] + Renewal <= now
        /\ \A v \in Visits : visit[v].pc = "found" /\ visit[v].token = t
                                => visit[v].expiresAt <= now + 1

TokensOK ==
    /\ issued \in [Tokens -> Nat]
    /\ lastUse \in [Tokens -> Nat]
    /\ lastAnswer \in [Tokens -> Nat]
    /\ \A t \in Tokens : issued[t] <= lastId /\ lastUse[t] <= now /\ lastAnswer[t] <= now
    /\ now \in 0..MaxTime /\ crossed \subseteq Tokens

RowsOK ==
    /\ sessions \subseteq Session
    /\ \A s, t \in sessions : s.id = t.id => s = t
    /\ \A s \in sessions : SessionOK(s)

SessionsInv ==
    /\ TokensOK
    /\ RowsOK
    /\ DOMAIN visit = Visits /\ \A v \in Visits : VisitOK(visit[v])
    /\ \A t \in Tokens : GoneOK(t)

LEMMA InitSessionsInv == Init => SessionsInv
<1> SUFFICES ASSUME Init PROVE SessionsInv
    OBVIOUS
<1>1. TokensOK
  BY SessionsAssumption DEF Init, InitSessions, InitAccounts, TokensOK, Nobody
<1>2. RowsOK
  BY DEF Init, InitSessions, RowsOK
<1>3. VisitOK(Away)
  BY DEF VisitOK, Away, Over, VisitOver, VisitInFlight, Holding
<1>4. DOMAIN visit = Visits /\ \A v \in Visits : VisitOK(visit[v])
  BY <1>3 DEF Init, InitSessions
<1>5. ASSUME NEW t \in Tokens PROVE GoneOK(t)
  <2>1. issued[t] = 0 /\ Ids = {1}
    BY DEF Init, InitSessions, InitAccounts, Nobody, Ids
  <2> QED
    BY <2>1 DEF GoneOK
<1> QED
  BY <1>1, <1>2, <1>4, <1>5 DEF SessionsInv

(* A step that moves one visit and writes nothing.                         *)
LEMMA OneVisit ==
  ASSUME SessionsInv, NEW v \in Visits, NEW w, VisitOK(w),
         w.pc = "found" => \E s \in sessions : s.id = w.token,
         visit' = [visit EXCEPT ![v] = w], Ids' = Ids, lastId' = lastId,
         sessions' = sessions, now' = now, issued' = issued, lastUse' = lastUse,
         lastAnswer' = lastAnswer, crossed' = crossed
  PROVE  SessionsInv'
<1>1. TokensOK' /\ RowsOK'
  BY DEF SessionsInv, TokensOK, RowsOK, SessionOK
<1>2. VisitOK(w)'
  BY DEF VisitOK
<1>3. ASSUME NEW o \in Visits PROVE VisitOK(visit[o])'
  <2>1. CASE o = v
    BY <1>2, <2>1 DEF SessionsInv, VisitOK
  <2>2. CASE o # v
    <3>1. visit'[o] = visit[o]
      BY <2>2
    <3> QED
      BY <3>1 DEF SessionsInv, VisitOK
  <2> QED
    BY <2>1, <2>2
<1>4. ASSUME NEW t \in Tokens PROVE GoneOK(t)'
  <2> SUFFICES ASSUME \A s \in sessions : s.id # t, issued[t] \in Ids, t \notin crossed
               PROVE  /\ lastAnswer[t] + Renewal <= now
                      /\ \A o \in Visits : visit'[o].pc = "found" /\ visit'[o].token = t
                                => visit'[o].expiresAt <= now + 1
      BY DEF GoneOK
  <2>1. GoneOK(t)
    BY DEF SessionsInv
  <2>2. \A o \in Visits : o # v => visit'[o] = visit[o]
    OBVIOUS
  <2>3. visit'[v] = w
    BY DEF SessionsInv
  <2> QED
    BY <2>1, <2>2, <2>3 DEF GoneOK
<1> QED
  BY <1>1, <1>3, <1>4 DEF SessionsInv

LEMMA AwayOK == \A pc \in VisitOver : VisitOK(Over(pc)) /\ Over(pc).pc = pc /\ pc # "found"
BY DEF VisitOK, Over, VisitOver, VisitInFlight, Holding

(* What a visit is from where it is.                                       *)
LEMMA VisitKinds ==
  ASSUME SessionsInv, NEW v \in Visits
  PROVE  /\ visit[v].pc \in VisitOver \cup VisitInFlight
         /\ visit[v].pc \in {"comparing", "creating"} => visit[v] \in SigningVisit
         /\ visit[v].pc = "arriving" => visit[v] \in ArrivingVisit
         /\ visit[v].pc \in Holding => visit[v] \in HoldingVisit
         /\ VisitOK(visit[v])
<1>1. VisitOK(visit[v])
  BY DEF SessionsInv
<1> QED
  BY <1>1 DEF VisitOK, SigningVisit, ArrivingVisit, HoldingVisit, Holding, VisitOver, VisitInFlight
LEMMA SameUsers == UNCHANGED accountVars => Ids' = Ids /\ lastId' = lastId
BY DEF accountVars, Ids

LEMMA EntryOK ==
  ASSUME AccountsInv, SessionsInv, NEW v \in Visits, UNCHANGED accountVars,
         \/ \E email \in Emails, password \in Passwords : SignIn(v, email, password)
         \/ \E token \in Tokens, adminOnly \in BOOLEAN : Arrive(v, token, adminOnly)
         \/ Compare(v) \/ VisitFails(v)
  PROVE  SessionsInv'
<1>0. Ids' = Ids /\ lastId' = lastId
  BY SameUsers
<1>00. now \in Nat
  BY DEF SessionsInv, TokensOK
<1>1. ASSUME NEW email \in Emails, NEW password \in Passwords, SignIn(v, email, password)
      PROVE  SessionsInv'
  <2>1. PICK u \in HasEmail(email) :
           visit' = [visit EXCEPT ![v] = [pc |-> "comparing", email |-> email,
                                          password |-> password, user |-> u, start |-> now]]
    BY <1>1 DEF SignIn
  <2> DEFINE w == [pc |-> "comparing", email |-> email, password |-> password, user |-> u,
                   start |-> now]
  <2>2. u \in User
    BY DEF HasEmail, AccountsInv
  <2>3. VisitOK(w) /\ w.pc # "found"
    BY <1>00, <2>2 DEF VisitOK, SigningVisit, Holding
  <2>4. visit' = [visit EXCEPT ![v] = w]
    BY <2>1
  <2> HIDE DEF w
  <2> QED
    BY <1>0, <1>1, <2>3, <2>4, OneVisit DEF SignIn
<1>2. ASSUME NEW token \in Tokens, NEW adminOnly \in BOOLEAN, Arrive(v, token, adminOnly)
      PROVE  SessionsInv'
  <2> DEFINE w == [pc |-> "arriving", token |-> token, adminOnly |-> adminOnly, start |-> now]
  <2>1. VisitOK(w) /\ w.pc # "found"
    BY <1>00 DEF VisitOK, ArrivingVisit, Holding
  <2>2. visit' = [visit EXCEPT ![v] = w]
    BY <1>2 DEF Arrive
  <2> HIDE DEF w
  <2> QED
    BY <1>0, <1>2, <2>1, <2>2, OneVisit DEF Arrive
<1>3. CASE Compare(v)
  <2> DEFINE w == [visit[v] EXCEPT !.pc = "creating"]
  <2>1. visit[v] \in SigningVisit /\ VisitOK(visit[v]) /\ visit[v].pc = "comparing"
    BY <1>3, VisitKinds DEF Compare
  <2>2. VisitOK(w) /\ w.pc # "found"
    BY <2>1 DEF VisitOK, SigningVisit, Holding, VisitInFlight
  <2>3. visit' = [visit EXCEPT ![v] = w] \/ visit' = [visit EXCEPT ![v] = Away]
    BY <1>3 DEF Compare
  <2>4. VisitOK(Away) /\ Away.pc # "found"
    BY AwayOK DEF Away, VisitOver
  <2> HIDE DEF w
  <2> QED
    BY <1>0, <1>3, <2>2, <2>3, <2>4, OneVisit DEF Compare
<1>4. CASE VisitFails(v)
  <2>1. VisitOK(Away) /\ Away.pc # "found"
    BY AwayOK DEF Away, VisitOver
  <2> QED
    BY <1>0, <1>4, <2>1, OneVisit DEF VisitFails
<1> QED
  BY <1>1, <1>2, <1>3, <1>4

LEMMA FindOK ==
  ASSUME AccountsInv, SessionsInv, NEW v \in Visits, UNCHANGED accountVars, FindSession(v)
  PROVE  SessionsInv'
<1>0. Ids' = Ids /\ lastId' = lastId
  BY SameUsers
<1>1. visit[v] \in ArrivingVisit /\ VisitOK(visit[v]) /\ visit[v].pc = "arriving"
  BY VisitKinds DEF FindSession
<1>2. PICK w : /\ visit' = [visit EXCEPT ![v] = w]
               /\ w = IF SessionWith(visit[v].token) = {} THEN Over("refused")
                      ELSE LET s == CHOOSE t \in SessionWith(visit[v].token) : TRUE IN
                           [pc |-> "found", token |-> visit[v].token,
                            adminOnly |-> visit[v].adminOnly, start |-> visit[v].start,
                            user |-> UserWith(s.userId), expiresAt |-> s.expiresAt]
  BY DEF FindSession, SessionsInv
<1>3. CASE SessionWith(visit[v].token) = {}
  <2>1. VisitOK(w) /\ w.pc # "found"
    BY <1>2, <1>3, AwayOK DEF VisitOver
  <2> QED
    BY <1>0, <1>2, <2>1, OneVisit DEF FindSession
<1>4. CASE SessionWith(visit[v].token) # {}
  <2>1. PICK s \in sessions :
           /\ s.id = visit[v].token
           /\ w = [pc |-> "found", token |-> visit[v].token,
                   adminOnly |-> visit[v].adminOnly, start |-> visit[v].start,
                   user |-> UserWith(s.userId), expiresAt |-> s.expiresAt]
    BY <1>2, <1>4 DEF SessionWith
  <2>2. SessionOK(s) /\ s \in Session /\ \A t \in sessions : t.id = s.id => t = s
    BY DEF SessionsInv, RowsOK
  <2>3. PICK u \in users : u = UserWith(s.userId) /\ u.id = s.userId /\ u \in User /\ u.id # Nobody
    <3>1. \E u \in users : u.id = s.userId
      BY <2>2 DEF SessionOK, Ids
    <3>2. UserWith(s.userId) \in users /\ UserWith(s.userId).id = s.userId
      BY <3>1 DEF UserWith
    <3> QED
      BY <3>2 DEF AccountsInv, Ids, Nobody
  <2>4. /\ w \in HoldingVisit /\ w.pc = "found" /\ w.token = s.id /\ w.user = u
        /\ w.expiresAt = s.expiresAt /\ w.start = visit[v].start
    BY <1>1, <2>1, <2>2, <2>3 DEF ArrivingVisit, HoldingVisit, Holding, Session
  <2>5. VisitOK(w)
    <3>1. w.start <= now /\ now <= w.start + 1
      BY <1>1, <2>4 DEF VisitOK, VisitInFlight
    <3>2. w.user.id = issued[w.token] /\ issued[w.token] # Nobody
          /\ w.expiresAt <= lastUse[w.token] + Lifetime
      BY <2>2, <2>3, <2>4 DEF SessionOK
    <3>3. \A t \in sessions : t.id = w.token => w.expiresAt <= t.expiresAt + 1
      BY <2>2, <2>4 DEF Session
    <3> QED
      BY <2>4, <3>1, <3>2, <3>3 DEF VisitOK
  <2> QED
    BY <1>0, <1>2, <2>4, <2>5, OneVisit DEF FindSession
<1> QED
  BY <1>3, <1>4

(* The request was let in, or not; what is written of it is lastAnswer.    *)
LEMMA VerdictOver == \A v \in Visits : Verdict(v) \in {"refused", "admitted"}
BY DEF Verdict
(* The guard has found the session good: it was used now, and a request    *)
(* let in at once was let in well before the end of the row.               *)
LEMMA LetIn ==
  ASSUME SessionsInv, NEW v \in Visits, NEW token \in Tokens, NEW w, VisitOK(w)', w.pc # "found",
         visit' = [visit EXCEPT ![v] = w], Ids' = Ids, lastId' = lastId,
         sessions' = sessions, now' = now, issued' = issued, crossed' = crossed,
         lastUse' = [lastUse EXCEPT ![token] = now],
         \/ lastAnswer' = lastAnswer
         \/ /\ lastAnswer' = [lastAnswer EXCEPT ![token] = now]
            /\ \A s \in sessions : s.id = token => now + Renewal <= s.expiresAt
            /\ \/ \E s \in sessions : s.id = token
               \/ issued[token] \notin Ids
               \/ token \in crossed
  PROVE  SessionsInv'
<1>1. now \in Nat /\ now \in 0..MaxTime
  BY SessionsAssumption DEF SessionsInv, TokensOK
<1>2. /\ lastUse' \in [Tokens -> Nat] /\ lastAnswer' \in [Tokens -> Nat]
      /\ \A t \in Tokens : lastUse[t] <= lastUse'[t] /\ lastUse'[t] <= now
                           /\ lastUse[t] \in Nat /\ lastAnswer'[t] <= now
      /\ \A t \in Tokens : t # token => lastAnswer'[t] = lastAnswer[t]
  BY <1>1 DEF SessionsInv, TokensOK
<1>3. TokensOK'
  BY <1>1, <1>2 DEF SessionsInv, TokensOK
<1>4. RowsOK'
  <2> SUFFICES ASSUME NEW s \in sessions PROVE SessionOK(s)'
      BY DEF SessionsInv, RowsOK
  <2>1. SessionOK(s) /\ s \in Session
    BY DEF SessionsInv, RowsOK
  <2>2. s.id \in Tokens /\ s.expiresAt \in Nat
    BY <2>1 DEF Session
  <2>3. lastAnswer'[s.id] + Renewal <= s.expiresAt
    BY <1>2, <2>1, <2>2 DEF SessionOK, SessionsInv, TokensOK
  <2>4. s.expiresAt <= lastUse'[s.id] + Lifetime
    <3>1. s.expiresAt <= lastUse[s.id] + Lifetime
      BY <2>1 DEF SessionOK
    <3>2. lastUse[s.id] <= lastUse'[s.id] /\ lastUse[s.id] \in Nat /\ lastUse'[s.id] \in Nat
      BY <1>2, <2>2
    <3> QED
      BY <2>2, <3>1, <3>2, SessionsAssumption
  <2> QED
    BY <2>1, <2>3, <2>4 DEF SessionOK
<1>5. ASSUME NEW o \in Visits PROVE VisitOK(visit[o])'
  <2>1. CASE o = v
    <3>1. visit'[o] = w
      BY <2>1 DEF SessionsInv
    <3> QED
      BY <3>1 DEF VisitOK
  <2>2. CASE o # v
    <3> DEFINE x == visit[o]
    <3>1. visit'[o] = x /\ VisitOK(x)
      BY <2>2 DEF SessionsInv
    <3>2. x.pc \in Holding => x.token \in Tokens /\ x.expiresAt \in Nat
      BY VisitKinds DEF HoldingVisit
    <3> HIDE DEF x
    <3>3. x.pc \in Holding => x.expiresAt <= lastUse'[x.token] + Lifetime
      <4> SUFFICES ASSUME x.pc \in Holding PROVE x.expiresAt <= lastUse'[x.token] + Lifetime
          OBVIOUS
      <4>1. x.expiresAt <= lastUse[x.token] + Lifetime
        BY <3>1 DEF VisitOK
      <4>2. lastUse[x.token] <= lastUse'[x.token] /\ lastUse[x.token] \in Nat
            /\ lastUse'[x.token] \in Nat
        BY <1>2, <3>2
      <4> QED
        BY <3>2, <4>1, <4>2, SessionsAssumption
    <3> QED
      BY <3>1, <3>3 DEF VisitOK
  <2> QED
    BY <2>1, <2>2
<1>6. ASSUME NEW t \in Tokens PROVE GoneOK(t)'
  <2> SUFFICES ASSUME \A s \in sessions : s.id # t, issued[t] \in Ids, t \notin crossed
               PROVE  /\ lastAnswer'[t] + Renewal <= now
                      /\ \A o \in Visits : visit'[o].pc = "found" /\ visit'[o].token = t
                                => visit'[o].expiresAt <= now + 1
      BY DEF GoneOK
  <2>1. GoneOK(t)
    BY DEF SessionsInv
  <2>2. \A o \in Visits : o # v => visit'[o] = visit[o]
    OBVIOUS
  <2>3. visit'[v] = w
    BY DEF SessionsInv
  <2>4. lastAnswer'[t] = lastAnswer[t]
    BY <1>2
  <2> QED
    BY <2>1, <2>2, <2>3, <2>4 DEF GoneOK
<1> QED
  BY <1>3, <1>4, <1>5, <1>6 DEF SessionsInv

LEMMA CheckOK ==
  ASSUME AccountsInv, SessionsInv, NEW v \in Visits, UNCHANGED accountVars, CheckSession(v)
  PROVE  SessionsInv'
<1>0. Ids' = Ids /\ lastId' = lastId
  BY SameUsers
<1>1. visit[v] \in HoldingVisit /\ VisitOK(visit[v]) /\ visit[v].pc = "found"
      /\ UNCHANGED <<sessions, now, issued, crossed>>
  BY VisitKinds DEF CheckSession, Holding
<1>2. visit[v].expiresAt \in Nat /\ visit[v].start \in Nat /\ visit[v].token \in Tokens /\ now \in Nat
  BY <1>1 DEF HoldingVisit, SessionsInv, TokensOK
<1>3. CASE /\ Expired(v)
           /\ visit' = [visit EXCEPT ![v] = [@ EXCEPT !.pc = "deleting"]]
           /\ UNCHANGED <<lastUse, lastAnswer>>
  <2> DEFINE w == [visit[v] EXCEPT !.pc = "deleting"]
  <2>1. w \in HoldingVisit /\ w.pc = "deleting" /\ w.token = visit[v].token
        /\ w.user = visit[v].user /\ w.expiresAt = visit[v].expiresAt /\ w.start = visit[v].start
    BY <1>1 DEF HoldingVisit, Holding
  <2>2. visit' = [visit EXCEPT ![v] = w]
    BY <1>3
  <2> HIDE DEF w
  <2>3. w.start <= now /\ now <= w.start + 1
    BY <1>1, <2>1 DEF VisitOK, VisitInFlight
  <2>4. VisitOK(w)
    BY <1>1, <1>2, <1>3, <2>1, <2>3 DEF VisitOK, Holding, Expired
  <2> QED
    BY <1>0, <1>1, <1>3, <2>1, <2>2, <2>4, OneVisit
<1>4. CASE /\ ~Expired(v) /\ Ageing(v)
           /\ visit' = [visit EXCEPT ![v] =
                          [@ EXCEPT !.pc = "renewing", !.expiresAt = now + Lifetime]]
           /\ lastUse' = [lastUse EXCEPT ![visit[v].token] = now]
           /\ UNCHANGED lastAnswer
  <2>00. PICK w : w = [visit[v] EXCEPT !.pc = "renewing", !.expiresAt = now + Lifetime]
    OBVIOUS
  <2>0. now + Lifetime \in Nat
    BY <1>2, SessionsAssumption
  <2>1. w \in HoldingVisit /\ w.pc = "renewing" /\ w.token = visit[v].token
        /\ w.user = visit[v].user /\ w.expiresAt = now + Lifetime /\ w.start = visit[v].start
    BY <1>1, <2>0, <2>00 DEF HoldingVisit, Holding
  <2>2. visit' = [visit EXCEPT ![v] = w]
    BY <1>4, <2>00
  <2>3. w.start <= now /\ now <= w.start + 1
    BY <1>1, <2>1 DEF VisitOK, VisitInFlight
  <2>4. w.user.id = issued[w.token] /\ issued[w.token] # Nobody
    BY <1>1, <2>1 DEF VisitOK, Holding
  <2>5. lastUse'[w.token] = now
    BY <1>2, <1>4, <2>1 DEF SessionsInv, TokensOK
  <2>6. w.start + Lifetime <= w.expiresAt
    BY <1>2, <2>1, <2>3, SessionsAssumption
  <2>7. w.expiresAt <= lastUse'[w.token] + Lifetime
    BY <1>2, <2>1, <2>5, SessionsAssumption
  <2>8. VisitOK(w)'
    BY <1>1, <2>1, <2>3, <2>4, <2>6, <2>7 DEF VisitOK
  <2> QED
    BY <1>0, <1>1, <1>2, <1>4, <2>1, <2>2, <2>8, LetIn
<1>5. CASE /\ ~Expired(v) /\ ~Ageing(v)
           /\ Answered(v, visit[v].token)
           /\ lastUse' = [lastUse EXCEPT ![visit[v].token] = now]
  <2>00. PICK w : w = Over(Verdict(v))
    OBVIOUS
  <2>01. PICK token : token = visit[v].token
    OBVIOUS
  <2>1. VisitOK(w) /\ w.pc # "found" /\ w.pc \in VisitOver /\ DOMAIN w = {"pc"}
    BY <2>00, VerdictOver, AwayOK DEF VisitOver, Over
  <2>2. VisitOK(w)'
    BY <2>1 DEF VisitOK, VisitOver, VisitInFlight, Holding
  <2>3. visit' = [visit EXCEPT ![v] = w]
    BY <1>5, <2>00 DEF Answered
  <2>4. \/ lastAnswer' = lastAnswer
        \/ lastAnswer' = [lastAnswer EXCEPT ![token] = now]
    BY <1>5, <2>01 DEF Answered, SessionsInv, TokensOK
  <2>5. now + Renewal + 1 <= visit[v].expiresAt
    BY <1>2, <1>5, SessionsAssumption DEF Ageing
  <2>6. ASSUME NEW s \in sessions, s.id = token PROVE now + Renewal <= s.expiresAt
    <3>1. visit[v].expiresAt <= s.expiresAt + 1 /\ s.expiresAt \in Nat
      BY <1>1, <2>01, <2>6 DEF VisitOK, SessionsInv, RowsOK, Session
    <3> QED
      BY <1>2, <2>5, <3>1, SessionsAssumption
  <2>7. \/ \E s \in sessions : s.id = token
        \/ issued[token] \notin Ids
        \/ token \in crossed
    <3> SUFFICES ASSUME \A s \in sessions : s.id # token, issued[token] \in Ids, token \notin crossed
                 PROVE  FALSE
        OBVIOUS
    <3>1. visit[v].expiresAt <= now + 1
      BY <1>1, <1>2, <2>01 DEF SessionsInv, GoneOK
    <3> QED
      BY <1>2, <2>5, <3>1, SessionsAssumption
  <2>8. token \in Tokens /\ lastUse' = [lastUse EXCEPT ![token] = now]
    BY <1>2, <1>5, <2>01
  <2> QED
    BY <1>0, <1>1, <2>1, <2>2, <2>3, <2>4, <2>6, <2>7, <2>8, LetIn
<1> QED
  BY <1>3, <1>4, <1>5 DEF CheckSession
(* A request deletes the session it has found expired, or one that another *)
(* request has renewed since, which crossed tells.                         *)
LEMMA DeleteExpiredOK ==
  ASSUME AccountsInv, SessionsInv, NEW v \in Visits, UNCHANGED accountVars, DeleteExpired(v)
  PROVE  SessionsInv'
<1>0. Ids' = Ids /\ lastId' = lastId
  BY SameUsers
<1>1. visit[v] \in HoldingVisit /\ VisitOK(visit[v]) /\ visit[v].pc = "deleting"
      /\ UNCHANGED <<now, issued, lastUse, lastAnswer>>
  BY VisitKinds DEF DeleteExpired, Holding
<1>2. PICK token \in Tokens, end \in Nat :
         token = visit[v].token /\ end = visit[v].expiresAt /\ end <= now
  BY <1>1 DEF HoldingVisit, VisitOK
<1>3. PICK w : /\ visit' = [visit EXCEPT ![v] = w] /\ VisitOK(w) /\ w.pc \in VisitOver
               /\ w.pc # "found" /\ DOMAIN w = {"pc"}
  <2>1. visit' = [visit EXCEPT ![v] = Over("away")] \/ visit' = [visit EXCEPT ![v] = Over("refused")]
    BY DEF DeleteExpired, Away
  <2>2. DOMAIN Over("away") = {"pc"} /\ DOMAIN Over("refused") = {"pc"}
    BY DEF Over
  <2> QED
    BY <2>1, <2>2, AwayOK DEF VisitOver
<1>4. /\ sessions' = {s \in sessions : s.id # token}
      /\ crossed' = crossed \cup {s.id : s \in {t \in sessions : t.id = token /\ t.expiresAt # end}}
  BY <1>2 DEF DeleteExpired, SessionWith
<1>5. VisitOK(w)'
  BY <1>3 DEF VisitOK, VisitOver, VisitInFlight, Holding
<1>6. TokensOK'
  BY <1>0, <1>1, <1>2, <1>4 DEF SessionsInv, TokensOK
<1>7. RowsOK'
  BY <1>0, <1>1, <1>4 DEF SessionsInv, RowsOK, SessionOK
<1>8. ASSUME NEW o \in Visits PROVE VisitOK(visit[o])'
  <2>1. CASE o = v
    <3>1. visit'[o] = w
      BY <1>3, <2>1 DEF SessionsInv
    <3> QED
      BY <1>5, <3>1 DEF VisitOK
  <2>2. CASE o # v
    <3>1. visit'[o] = visit[o] /\ VisitOK(visit[o])
      BY <1>3, <2>2 DEF SessionsInv
    <3> QED
      BY <1>1, <1>4, <3>1 DEF VisitOK
  <2> QED
    BY <2>1, <2>2
<1>9. ASSUME NEW t \in Tokens PROVE GoneOK(t)'
  <2> SUFFICES ASSUME \A s \in sessions' : s.id # t, issued[t] \in Ids, t \notin crossed'
               PROVE  /\ lastAnswer[t] + Renewal <= now
                      /\ \A o \in Visits : visit'[o].pc = "found" /\ visit'[o].token = t
                                => visit'[o].expiresAt <= now + 1
      BY <1>0, <1>1 DEF GoneOK
  <2>1. \A o \in Visits : visit'[o].pc = "found" => visit'[o] = visit[o]
    BY <1>3 DEF SessionsInv
  <2>2. CASE \A s \in sessions : s.id # t
    <3>1. t \notin crossed
      BY <1>4
    <3> QED
      BY <2>1, <2>2, <3>1 DEF SessionsInv, GoneOK
  <2>3. ASSUME NEW s \in sessions, s.id = t
        PROVE  /\ lastAnswer[t] + Renewal <= now
               /\ \A o \in Visits : visit'[o].pc = "found" /\ visit'[o].token = t
                         => visit'[o].expiresAt <= now + 1
    <3>1. t = token /\ s.expiresAt = end
      BY <1>4, <2>3
    <3>2. SessionOK(s)
      BY DEF SessionsInv, RowsOK
    <3>3. lastAnswer[t] \in Nat /\ now \in Nat
      BY DEF SessionsInv, TokensOK
    <3>4. lastAnswer[t] + Renewal <= now
      BY <1>2, <2>3, <3>1, <3>2, <3>3, SessionsAssumption DEF SessionOK
    <3>5. ASSUME NEW o \in Visits, visit'[o].pc = "found", visit'[o].token = t
          PROVE  visit'[o].expiresAt <= now + 1
      <4>1. visit'[o] = visit[o]
        BY <2>1, <3>5
      <4>2. VisitOK(visit[o]) /\ visit[o] \in HoldingVisit
        BY <3>5, <4>1, VisitKinds DEF Holding
      <4>3. visit[o].expiresAt <= end + 1 /\ visit[o].expiresAt \in Nat
        BY <2>3, <3>1, <3>5, <4>1, <4>2 DEF VisitOK, HoldingVisit
      <4> QED
        BY <1>2, <3>3, <4>1, <4>3
    <3> QED
      BY <3>4, <3>5
  <2> QED
    BY <2>2, <2>3
<1> QED
  BY <1>3, <1>6, <1>7, <1>8, <1>9 DEF SessionsInv

(* The row gets the end the request has computed, a tick ago at the most.  *)
LEMMA RenewOK ==
  ASSUME AccountsInv, SessionsInv, NEW v \in Visits, UNCHANGED accountVars, Renew(v)
  PROVE  SessionsInv'
<1>0. Ids' = Ids /\ lastId' = lastId
  BY SameUsers
<1>1. visit[v] \in HoldingVisit /\ VisitOK(visit[v]) /\ visit[v].pc = "renewing"
      /\ UNCHANGED <<now, issued, lastUse, crossed>>
  BY VisitKinds DEF Renew, Holding
<1>2. now \in Nat
  BY DEF SessionsInv, TokensOK
<1>3. PICK token \in Tokens, end \in Nat : token = visit[v].token /\ end = visit[v].expiresAt
  BY <1>1 DEF HoldingVisit
<1>4. now + Lifetime <= end + 1 /\ end <= lastUse[token] + Lifetime
  <2>1. visit[v].start \in Nat /\ visit[v].start + Lifetime <= end /\ now <= visit[v].start + 1
    BY <1>1, <1>3 DEF HoldingVisit, VisitOK, VisitInFlight
  <2>2. end <= lastUse[token] + Lifetime
    BY <1>1, <1>3 DEF VisitOK, Holding
  <2> QED
    BY <1>2, <1>3, <2>1, <2>2, SessionsAssumption
<1>5. CASE SessionWith(token) = {}
  <2>1. visit' = [visit EXCEPT ![v] = Away] /\ UNCHANGED <<sessions, lastAnswer>>
    BY <1>3, <1>5 DEF Renew
  <2>2. VisitOK(Away) /\ Away.pc # "found"
    BY AwayOK DEF Away, VisitOver
  <2> QED
    BY <1>0, <1>1, <2>1, <2>2, OneVisit
<1>6. ASSUME NEW s \in sessions, s.id = token PROVE SessionsInv'
  <2>1. s \in Session /\ SessionOK(s) /\ \A t \in sessions : t.id = token => t = s
    BY <1>6 DEF SessionsInv, RowsOK
  <2>2. SessionWith(token) = {s}
    BY <1>6, <2>1 DEF SessionWith
  <2>3. PICK new : new = [s EXCEPT !.expiresAt = end]
    OBVIOUS
  <2>4. new \in Session /\ new.id = token /\ new.userId = s.userId /\ new.expiresAt = end
    BY <1>3, <1>6, <2>1, <2>3 DEF Session
  <2>5. sessions' = (sessions \ {s}) \cup {new} /\ Answered(v, token)
    BY <1>3, <2>2, <2>3 DEF Renew
  <2>6. PICK w : visit' = [visit EXCEPT ![v] = w] /\ w.pc # "found" /\ VisitOK(w)
                 /\ w.pc \in VisitOver /\ DOMAIN w = {"pc"}
    <3>1. visit' = [visit EXCEPT ![v] = Over(Verdict(v))]
      BY <2>5 DEF Answered
    <3>2. DOMAIN Over(Verdict(v)) = {"pc"}
      BY DEF Over
    <3> QED
      BY <3>1, <3>2, VerdictOver, AwayOK DEF VisitOver
  <2>7. /\ lastAnswer' \in [Tokens -> Nat]
        /\ \A t \in Tokens : lastAnswer'[t] <= now
        /\ \A t \in Tokens : t # token => lastAnswer'[t] = lastAnswer[t]
    BY <1>2, <2>5 DEF Answered, SessionsInv, TokensOK
  <2>8. TokensOK'
    BY <1>0, <1>1, <2>7 DEF SessionsInv, TokensOK
  <2>9. \A t \in sessions' : t = new \/ (t \in sessions /\ t.id # token)
    BY <2>1, <2>5
  <2>10. RowsOK'
    <3>1. SessionOK(new)'
      <4>1. lastAnswer'[token] + Renewal <= end
        BY <1>2, <1>3, <1>4, <2>7, SessionsAssumption
      <4> QED
        BY <1>0, <1>1, <1>4, <1>6, <2>1, <2>4, <4>1 DEF SessionOK
    <3>2. ASSUME NEW t \in sessions, t.id # token PROVE SessionOK(t)'
      <4>1. SessionOK(t) /\ t.id \in Tokens
        BY DEF SessionsInv, RowsOK, Session
      <4> QED
        BY <1>0, <1>1, <2>7, <3>2, <4>1 DEF SessionOK
    <3>3. \A t, u \in sessions' : t.id = u.id => t = u
      BY <2>4, <2>9 DEF SessionsInv, RowsOK
    <3>4. sessions' \subseteq Session
      BY <2>4, <2>9 DEF SessionsInv, RowsOK
    <3> QED
      BY <2>9, <3>1, <3>2, <3>3, <3>4 DEF RowsOK
  <2>11. ASSUME NEW o \in Visits PROVE VisitOK(visit[o])'
    <3>1. CASE o = v
      <4>1. visit'[o] = w
        BY <2>6, <3>1 DEF SessionsInv
      <4> QED
        BY <2>6, <4>1 DEF VisitOK, VisitOver, VisitInFlight, Holding
    <3>2. CASE o # v
      <4>1. PICK x : x = visit[o] /\ x = visit'[o] /\ VisitOK(x)
                     /\ (x.pc \in Holding => x \in HoldingVisit)
        BY <2>6, <3>2, VisitKinds DEF SessionsInv
      <4>2. ASSUME x.pc = "found", NEW t \in sessions', t.id = x.token
            PROVE  x.expiresAt <= t.expiresAt + 1
        <5>1. CASE t = new
          <6>1. x.token = token /\ x.expiresAt \in Nat /\ x.expiresAt <= lastUse[token] + Lifetime
            BY <2>4, <4>1, <4>2, <5>1 DEF VisitOK, HoldingVisit, Holding
          <6>2. lastUse[token] \in Nat /\ lastUse[token] <= now
            BY DEF SessionsInv, TokensOK
          <6> QED
            BY <1>2, <1>3, <1>4, <2>4, <5>1, <6>1, <6>2, SessionsAssumption
        <5>2. CASE t # new
          BY <2>9, <4>1, <4>2, <5>2 DEF VisitOK
        <5> QED
          BY <5>1, <5>2
      <4> QED
        BY <1>1, <4>1, <4>2 DEF VisitOK
    <3> QED
      BY <3>1, <3>2
  <2>12. ASSUME NEW t \in Tokens PROVE GoneOK(t)'
    <3> SUFFICES ASSUME \A u \in sessions' : u.id # t, issued[t] \in Ids, t \notin crossed
                 PROVE  /\ lastAnswer'[t] + Renewal <= now
                        /\ \A o \in Visits : visit'[o].pc = "found" /\ visit'[o].token = t
                                  => visit'[o].expiresAt <= now + 1
        BY <1>0, <1>1 DEF GoneOK
    <3>1. t # token /\ \A u \in sessions : u.id # t
      BY <1>6, <2>4, <2>5
    <3>2. \A o \in Visits : visit'[o].pc = "found" => visit'[o] = visit[o]
      BY <2>6 DEF SessionsInv
    <3> QED
      BY <2>7, <3>1, <3>2 DEF SessionsInv, GoneOK
  <2> QED
    BY <2>6, <2>8, <2>10, <2>11, <2>12 DEF SessionsInv
<1> QED
  BY <1>5, <1>6 DEF SessionWith
LEMMA CreateSessionOK ==
  ASSUME AccountsInv, SessionsInv, NEW v \in Visits, NEW token \in Tokens,
         UNCHANGED accountVars, createSession(v, token)
  PROVE  SessionsInv'
<1>0. Ids' = Ids /\ lastId' = lastId
  BY SameUsers
<1>1. visit' = [visit EXCEPT ![v] = Away] /\ UNCHANGED <<now, crossed>> /\ issued[token] = 0
  BY DEF createSession, Nobody
<1>2. VisitOK(Away) /\ Away.pc # "found" /\ Away.pc \in VisitOver /\ DOMAIN Away = {"pc"}
  BY AwayOK DEF Away, VisitOver, Over
<1>3. now \in Nat /\ now + Lifetime \in Nat
  BY SessionsAssumption DEF SessionsInv, TokensOK
<1>4. CASE visit[v].user.id \notin Ids
  <2>1. UNCHANGED <<sessions, issued, lastUse, lastAnswer>>
    BY <1>4 DEF createSession
  <2> QED
    BY <1>0, <1>1, <1>2, <2>1, OneVisit
<1>5. CASE visit[v].user.id \in Ids
  <2>0. PICK owner \in Ids :
           /\ sessions' = sessions \cup
                            {[id |-> token, userId |-> owner, expiresAt |-> now + Lifetime]}
           /\ issued' = [issued EXCEPT ![token] = owner]
           /\ lastUse' = [lastUse EXCEPT ![token] = now]
           /\ lastAnswer' = [lastAnswer EXCEPT ![token] = now]
    BY <1>5 DEF createSession
  <2>1. PICK new :
           /\ new = [id |-> token, userId |-> owner, expiresAt |-> now + Lifetime]
           /\ sessions' = sessions \cup {new}
           /\ issued' = [issued EXCEPT ![token] = owner]
           /\ lastUse' = [lastUse EXCEPT ![token] = now]
           /\ lastAnswer' = [lastAnswer EXCEPT ![token] = now]
    BY <2>0
  <2>2. owner \in 1..lastId /\ owner \in Nat /\ lastId \in Nat
    BY DEF AccountsInv
  <2>3. new \in Session /\ new.id = token /\ new.userId = owner /\ new.expiresAt = now + Lifetime
    BY <1>3, <2>1, <2>2 DEF Session
  <2>4. /\ issued'[token] = owner /\ lastUse'[token] = now /\ lastAnswer'[token] = now
        /\ \A t \in Tokens : t # token =>
              issued'[t] = issued[t] /\ lastUse'[t] = lastUse[t] /\ lastAnswer'[t] = lastAnswer[t]
    BY <2>1 DEF SessionsInv, TokensOK
  <2>5. TokensOK'
    BY <1>0, <1>1, <1>3, <2>1, <2>2, <2>4 DEF SessionsInv, TokensOK
  <2>6. ASSUME NEW s \in sessions PROVE s \in Session /\ s.id \in Tokens /\ s.id # token /\ SessionOK(s)
    <3>1. s \in Session /\ SessionOK(s)
      BY DEF SessionsInv, RowsOK
    <3> QED
      BY <1>1, <3>1 DEF SessionOK, Session, AccountsInv
  <2>7. RowsOK'
    <3>1. SessionOK(new)'
      <4>1. now + Renewal <= now + Lifetime
        BY <1>3, SessionsAssumption
      <4> QED
        BY <1>0, <1>3, <2>3, <2>4, <4>1 DEF SessionOK
    <3>2. ASSUME NEW s \in sessions PROVE SessionOK(s)'
      BY <1>0, <2>4, <2>6 DEF SessionOK
    <3>3. \A s, t \in sessions' : s.id = t.id => s = t
      BY <2>1, <2>3, <2>6 DEF SessionsInv, RowsOK
    <3>4. sessions' \subseteq Session
      BY <2>1, <2>3, <2>6
    <3> QED
      BY <2>1, <3>1, <3>2, <3>3, <3>4 DEF RowsOK
  <2>8. ASSUME NEW o \in Visits PROVE VisitOK(visit[o])'
    <3>1. CASE o = v
      <4>1. visit'[o] = Away
        BY <1>1, <3>1 DEF SessionsInv
      <4> QED
        BY <1>2, <4>1 DEF VisitOK, VisitOver, VisitInFlight, Holding
    <3>2. CASE o # v
      <4>1. PICK x : x = visit[o] /\ x = visit'[o] /\ VisitOK(x)
                     /\ (x.pc \in Holding => x \in HoldingVisit)
        BY <1>1, <3>2, VisitKinds DEF SessionsInv
      <4>2. x.pc \in Holding => x.token \in Tokens /\ x.token # token
        BY <1>1, <4>1 DEF VisitOK, HoldingVisit, Nobody
      <4>3. x.pc = "found" => \A s \in sessions' : s.id = x.token => x.expiresAt <= s.expiresAt + 1
        BY <2>1, <2>3, <4>1, <4>2 DEF VisitOK, Holding
      <4> QED
        BY <1>1, <2>4, <4>1, <4>2, <4>3 DEF VisitOK
    <3> QED
      BY <3>1, <3>2
  <2>9. ASSUME NEW t \in Tokens PROVE GoneOK(t)'
    <3> SUFFICES ASSUME \A u \in sessions' : u.id # t, issued'[t] \in Ids, t \notin crossed
                 PROVE  /\ lastAnswer'[t] + Renewal <= now
                        /\ \A o \in Visits : visit'[o].pc = "found" /\ visit'[o].token = t
                                  => visit'[o].expiresAt <= now + 1
        BY <1>0, <1>1 DEF GoneOK
    <3>1. t # token /\ \A u \in sessions : u.id # t
      BY <2>1, <2>3
    <3>2. \A o \in Visits : visit'[o].pc = "found" => visit'[o] = visit[o]
      BY <1>1, <1>2 DEF SessionsInv
    <3> QED
      BY <2>4, <3>1, <3>2 DEF SessionsInv, GoneOK
  <2> QED
    BY <1>1, <2>5, <2>7, <2>8, <2>9 DEF SessionsInv
<1> QED
  BY <1>4, <1>5

LEMMA TickOK ==
  ASSUME AccountsInv, SessionsInv, UNCHANGED accountVars, Tick
  PROVE  SessionsInv'
<1>0. Ids' = Ids /\ lastId' = lastId
  BY SameUsers
<1>1. /\ now' = now + 1 /\ now < MaxTime /\ now \in Nat
      /\ UNCHANGED <<sessions, visit, issued, lastUse, lastAnswer, crossed>>
  BY DEF Tick, SessionsInv, TokensOK
<1>2. TokensOK'
  BY <1>0, <1>1, SessionsAssumption DEF SessionsInv, TokensOK
<1>3. RowsOK'
  BY <1>0, <1>1 DEF SessionsInv, RowsOK, SessionOK
<1>4. ASSUME NEW v \in Visits PROVE VisitOK(visit[v])'
  <2>1. PICK x : x = visit[v] /\ x = visit'[v] /\ VisitOK(x)
                 /\ (x.pc \in VisitInFlight => x.start = now)
                 /\ (x.pc \in Holding => x \in HoldingVisit)
    BY <1>1, VisitKinds DEF SessionsInv, Tick
  <2>2. x.pc \in VisitInFlight => x.start <= now' /\ now' <= x.start + 1
    BY <1>1, <2>1
  <2>3. x.pc = "deleting" => x.expiresAt <= now'
    BY <1>1, <2>1 DEF VisitOK, HoldingVisit, Holding
  <2> QED
    BY <1>1, <2>1, <2>2, <2>3 DEF VisitOK
<1>5. ASSUME NEW t \in Tokens PROVE GoneOK(t)'
  <2> SUFFICES ASSUME \A s \in sessions : s.id # t, issued[t] \in Ids, t \notin crossed
               PROVE  /\ lastAnswer[t] + Renewal <= now'
                      /\ \A v \in Visits : visit[v].pc = "found" /\ visit[v].token = t
                                => visit[v].expiresAt <= now' + 1
      BY <1>0, <1>1 DEF GoneOK
  <2>1. lastAnswer[t] + Renewal <= now /\ lastAnswer[t] \in Nat
    BY DEF SessionsInv, GoneOK, TokensOK
  <2>2. ASSUME NEW v \in Visits, visit[v].pc = "found", visit[v].token = t
        PROVE  visit[v].expiresAt <= now' + 1
    <3>1. visit[v].expiresAt <= now + 1
      BY <2>2 DEF SessionsInv, GoneOK
    <3>2. visit[v].expiresAt \in Nat
      BY <2>2, VisitKinds DEF HoldingVisit, Holding
    <3> QED
      BY <1>1, <3>1, <3>2
  <2> QED
    BY <1>1, <2>1, <2>2, SessionsAssumption
<1> QED
  BY <1>1, <1>2, <1>3, <1>4, <1>5 DEF SessionsInv

(* New users get ids no session was ever signed in with.                   *)
LEMMA UsersComeOK ==
  ASSUME AccountsInv, AccountsInv', SessionsInv, IdsGrow, UNCHANGED sessionVars
  PROVE  SessionsInv'
<1>1. UNCHANGED <<sessions, now, visit, issued, lastUse, lastAnswer, crossed>>
  BY DEF sessionVars
<1>2. lastId \in Nat /\ lastId' \in Nat /\ lastId <= lastId' /\ Ids \subseteq Ids'
      /\ \A id \in Ids' \ Ids : id > lastId
  BY DEF AccountsInv, IdsGrow
<1>3. TokensOK'
  BY <1>1, <1>2 DEF SessionsInv, TokensOK
<1>4. RowsOK'
  BY <1>1, <1>2 DEF SessionsInv, RowsOK, SessionOK
<1>5. ASSUME NEW v \in Visits PROVE VisitOK(visit[v])'
  BY <1>1 DEF SessionsInv, VisitOK
<1>6. ASSUME NEW t \in Tokens PROVE GoneOK(t)'
  <2>1. issued[t] <= lastId /\ issued[t] \in Nat /\ (issued[t] \in Ids' => issued[t] \in Ids)
    BY <1>2 DEF SessionsInv, TokensOK, AccountsInv
  <2> QED
    BY <1>1, <2>1 DEF SessionsInv, GoneOK
<1> QED
  BY <1>1, <1>3, <1>4, <1>5, <1>6 DEF SessionsInv

(* With the user go the sessions the user has signed in.                   *)
LEMMA UserGoesOK ==
  ASSUME AccountsInv, SessionsInv, NEW id \in Ids, hardUserDelete(id), CascadeSessions(id)
  PROVE  SessionsInv'
<1>1. /\ UNCHANGED <<now, visit, issued, lastUse, lastAnswer, crossed, lastId>>
      /\ sessions' = {s \in sessions : s.userId # id} /\ Ids' = Ids \ {id}
  BY DeleteOK DEF CascadeSessions, hardUserDelete
<1>2. TokensOK'
  BY <1>1 DEF SessionsInv, TokensOK
<1>3. RowsOK'
  BY <1>1 DEF SessionsInv, RowsOK, SessionOK
<1>4. ASSUME NEW v \in Visits PROVE VisitOK(visit[v])'
  <2>1. VisitOK(visit[v]) /\ visit'[v] = visit[v]
    BY <1>1 DEF SessionsInv
  <2> QED
    BY <1>1, <2>1 DEF VisitOK
<1>5. ASSUME NEW t \in Tokens PROVE GoneOK(t)'
  <2> SUFFICES ASSUME \A s \in sessions' : s.id # t, issued[t] \in Ids', t \notin crossed
               PROVE  /\ lastAnswer[t] + Renewal <= now
                      /\ \A v \in Visits : visit[v].pc = "found" /\ visit[v].token = t
                                => visit[v].expiresAt <= now + 1
      BY <1>1 DEF GoneOK
  <2>1. \A s \in sessions : s.id # t
    <3> SUFFICES ASSUME NEW s \in sessions, s.id = t PROVE FALSE
        OBVIOUS
    <3>1. s.userId = issued[t]
      BY DEF SessionsInv, RowsOK, SessionOK
    <3> QED
      BY <1>1, <3>1
  <2> QED
    BY <1>1, <2>1 DEF SessionsInv, GoneOK
<1> QED
  BY <1>1, <1>2, <1>3, <1>4, <1>5 DEF SessionsInv

-----------------------------------------------------------------------------
AccessInv == AccountsInv /\ SessionsInv

LEMMA AccessStep == AccessInv /\ [Next]_vars => AccessInv'
<1> SUFFICES ASSUME AccountsInv, SessionsInv, [Next]_vars PROVE AccountsInv' /\ SessionsInv'
    BY DEF AccessInv
<1>1. AccountsInv'
  BY AccountsStep
<1>2. CASE Admin
  BY <1>1, <1>2, AdminOK, UsersComeOK DEF Admin
<1>3. CASE Delete
  BY <1>1, <1>3, UserGoesOK DEF Delete
<1>4. CASE Visiting
  <2>1. UNCHANGED accountVars
    BY <1>4 DEF Visiting
  <2>2. ASSUME NEW v \in Visits, VisitStep(v) PROVE SessionsInv'
    BY <2>1, <2>2, EntryOK, CreateSessionOK, FindOK, CheckOK, DeleteExpiredOK, RenewOK DEF VisitStep
  <2> QED
    BY <1>1, <1>4, <2>1, <2>2, EntryOK, TickOK DEF Visiting
<1>5. CASE UNCHANGED vars
  <2>1. Ids \subseteq Ids' /\ lastId' = lastId /\ Ids' = Ids /\ UNCHANGED sessionVars
    BY <1>5, SameUsers DEF vars
  <2>2. IdsGrow
    BY <2>1 DEF IdsGrow, AccountsInv
  <2> QED
    BY <1>1, <2>1, <2>2, UsersComeOK
<1> QED
  BY <1>1, <1>2, <1>3, <1>4, <1>5 DEF Next

THEOREM AccessInvariant == Spec => []AccessInv
<1>1. Init => AccessInv
  BY InitAccountsInv, InitSessionsInv DEF AccessInv
<1> QED
  BY <1>1, AccessStep, PTL DEF Spec
(* Users, requests, sessions and visits are what the tables and the code   *)
(* make them: no two users share an email, an id or a dni at the network   *)
(* manager, whichever requests race for it, and no session is without its  *)
(* user.                                                                   *)
THEOREM AccessTypeCorrect == Spec => []AccessTypeOK
<1>1. AccessInv => AccessTypeOK
  <2> SUFFICES ASSUME AccessInv PROVE AccessTypeOK
      OBVIOUS
  <2>1. \A r \in Requests : Pc(r) \in {"idle", "done", "failed"} \cup AccountInFlight
    BY DEF AccessInv, AccountsInv, RequestOK, IdleRequest, CreateRequest, UpdateRequest,
           AccountInFlight, Pc
  <2>2. AccountsTypeOK /\ UniqueColumns
    BY <2>1 DEF AccessInv, AccountsInv, AccountsTypeOK, IspStates, Record
  <2>3. \A v \in Visits : visit[v].pc \in VisitInFlight \cup VisitOver
    BY VisitKinds DEF AccessInv
  <2>4. SessionsTypeOK
    BY <2>3 DEF AccessInv, SessionsInv, TokensOK, RowsOK, SessionOK, SessionsTypeOK
  <2> QED
    BY <2>2, <2>4 DEF AccessTypeOK
<1> QED
  BY AccessInvariant, <1>1, PTL

(* A step that moves a visit is a step of that visit.                      *)
LEMMA VisitMoves ==
  ASSUME AccessInv, [Next]_vars, NEW v \in Visits, visit'[v] # visit[v]
  PROVE  /\ visit[v].pc \in VisitInFlight => VisitStep(v)
         /\ UNCHANGED accountVars /\ UNCHANGED now
<1>1. CASE Admin \/ Delete \/ UNCHANGED vars
  <2>1. visit' = visit
    BY <1>1 DEF Admin, Delete, CascadeSessions, vars, sessionVars
  <2> QED
    BY <2>1
<1>2. CASE Visiting
  <2>0. UNCHANGED accountVars
    BY <1>2 DEF Visiting
  <2>1. ASSUME NEW o \in Visits,
               \/ \E email \in Emails, password \in Passwords : SignIn(o, email, password)
               \/ \E token \in Tokens, adminOnly \in BOOLEAN : Arrive(o, token, adminOnly)
        PROVE  v = o /\ visit[v].pc \notin VisitInFlight /\ UNCHANGED now
    BY <2>1 DEF SignIn, Arrive, VisitInFlight, VisitOver, AccessInv, SessionsInv
  <2>2. ASSUME NEW o \in Visits, VisitStep(o) PROVE v = o /\ UNCHANGED now
    BY <2>2 DEF VisitStep, Compare, createSession, FindSession, CheckSession, Answered,
                DeleteExpired, Renew, VisitFails, AccessInv, SessionsInv
  <2>3. ~Tick
    BY DEF Tick
  <2> QED
    BY <1>2, <2>0, <2>1, <2>2, <2>3 DEF Visiting
<1> QED
  BY <1>1, <1>2 DEF Next
LEMMA EarnedStep ==
  ASSUME AccessInv, [Next]_vars, NEW v \in Visits,
         visit[v].pc = "found", visit'[v].pc \in {"admitted", "renewing"}
  PROVE  /\ visit[v].user.id = issued[visit[v].token]
         /\ now - lastUse[visit[v].token] < Lifetime
<1>1. VisitStep(v)
  BY VisitMoves DEF VisitInFlight
<1>2. visit[v] \in HoldingVisit /\ VisitOK(visit[v])
  BY VisitKinds DEF AccessInv, Holding
<1>3. CheckSession(v)
  <2>1. ~VisitFails(v)
    BY AwayOK DEF VisitFails, Away, Over, AccessInv, SessionsInv
  <2> QED
    BY <1>1, <2>1 DEF VisitStep, Compare, createSession, FindSession, DeleteExpired, Renew
<1>4. ~Expired(v)
  BY <1>2, <1>3 DEF CheckSession, AccessInv, SessionsInv, HoldingVisit
<1>5. visit[v].expiresAt \in Nat /\ now \in Nat /\ lastUse[visit[v].token] \in Nat
  BY <1>2 DEF HoldingVisit, AccessInv, SessionsInv, TokensOK
<1>6. visit[v].user.id = issued[visit[v].token]
      /\ visit[v].expiresAt <= lastUse[visit[v].token] + Lifetime
  BY <1>2 DEF VisitOK, Holding
<1> QED
  BY <1>4, <1>5, <1>6, SessionsAssumption DEF Expired

(* A sign-in that passes, or will pass, the comparison is by the user      *)
(* whose email and password it sent; rows can change or go meanwhile.      *)
PasswordInv ==
    \A v \in Visits :
       /\ \/ visit[v].pc = "creating"
          \/ visit[v].pc = "comparing"
             /\ comparePassword(visit[v].password, visit[v].user.password)
       => visit[v].user.id \in entitled[v]

LEMMA InitPassword == Init => PasswordInv
BY DEF Init, InitSessions, PasswordInv, Away, Over

(* How a visit comes to sign in, and gets on with it.                      *)
LEMMA SigningMoves ==
  ASSUME AccessInv, [Next]_vars, NEW v \in Visits, visit'[v] # visit[v], SigningIn(v)'
  PROVE  \/ ~SigningIn(v) /\ \E email \in Emails, password \in Passwords : SignIn(v, email, password)
         \/ Compare(v)
<1>1. CASE visit[v].pc \in VisitInFlight
  <2>1. VisitStep(v)
    BY <1>1, VisitMoves
  <2>2. DOMAIN visit = Visits
    BY DEF AccessInv, SessionsInv
  <2>3. ASSUME NEW pc \in VisitOver PROVE ~ visit' = [visit EXCEPT ![v] = Over(pc)]
    BY <2>2, <2>3 DEF Over, VisitOver, SigningIn
  <2>4. ~VisitFails(v) /\ ~DeleteExpired(v) /\ \A token \in Tokens : ~createSession(v, token)
    BY <2>3 DEF VisitFails, DeleteExpired, createSession, Away, VisitOver
  <2>5. ~Renew(v)
    BY <2>3, VerdictOver DEF Renew, Answered, Away, VisitOver
  <2>6. ~FindSession(v)
    BY <2>2, <2>3 DEF FindSession, SigningIn, VisitOver
  <2>7. ~CheckSession(v)
    <3>1. CheckSession(v) => visit[v] \in HoldingVisit
      BY VisitKinds DEF CheckSession, AccessInv, Holding
    <3> QED
      BY <2>2, <2>3, <3>1, VerdictOver DEF CheckSession, Answered, SigningIn, VisitOver, HoldingVisit
  <2> QED
    BY <2>1, <2>4, <2>5, <2>6, <2>7 DEF VisitStep
<1>2. CASE visit[v].pc \notin VisitInFlight
  <2>1. Visiting
    <3>1. CASE Admin \/ Delete \/ UNCHANGED vars
      BY <3>1 DEF Admin, Delete, CascadeSessions, vars, sessionVars
    <3> QED
      BY <3>1 DEF Next
  <2>2. ASSUME NEW o \in Visits, VisitStep(o) PROVE FALSE
    <3>1. o = v
      BY <2>2 DEF VisitStep, Compare, createSession, FindSession, CheckSession, Answered,
                  DeleteExpired, Renew, VisitFails, AccessInv, SessionsInv
    <3> QED
      BY <1>2, <2>2, <3>1 DEF VisitStep, Compare, createSession, FindSession, CheckSession,
                              DeleteExpired, Renew, VisitFails, VisitInFlight
  <2>3. ASSUME NEW o \in Visits, NEW email \in Emails, NEW password \in Passwords,
               SignIn(o, email, password)
        PROVE  o = v
    BY <2>3 DEF SignIn
  <2>4. ASSUME NEW o \in Visits, NEW token \in Tokens, NEW adminOnly \in BOOLEAN,
               Arrive(o, token, adminOnly)
        PROVE  FALSE
    BY <2>4 DEF Arrive, SigningIn, AccessInv, SessionsInv
  <2>5. ~Tick
    BY DEF Tick
  <2>6. ~SigningIn(v)
    BY <1>2 DEF SigningIn, VisitInFlight
  <2> QED
    BY <2>1, <2>2, <2>3, <2>4, <2>5, <2>6 DEF Visiting
<1> QED
  BY <1>1, <1>2

LEMMA PasswordStep == AccessInv /\ PasswordInv /\ [Next]_vars => PasswordInv'
<1> SUFFICES ASSUME AccessInv, PasswordInv, [Next]_vars, NEW v \in Visits,
                    \/ visit'[v].pc = "creating"
                    \/ visit'[v].pc = "comparing"
                       /\ comparePassword(visit'[v].password, visit'[v].user.password)
             PROVE  visit'[v].user.id \in entitled'[v]
    BY DEF PasswordInv, comparePassword
<1>1. SigningIn(v)' /\ DOMAIN visit = Visits
  BY DEF SigningIn, AccessInv, SessionsInv
<1>2. CASE visit'[v] = visit[v]
  <2>1. SigningIn(v) /\ visit[v].user.id \in entitled[v]
    BY <1>2 DEF SigningIn, PasswordInv, comparePassword
  <2>2. entitled'[v] = entitled[v]
    BY <1>1, <2>1 DEF Next, vars
  <2> QED
    BY <1>2, <2>1, <2>2
<1>3. CASE visit'[v] # visit[v] /\ Compare(v)
  <2>1. visit[v] \in SigningVisit /\ visit[v].pc = "comparing"
    BY <1>3, VisitKinds DEF Compare, AccessInv
  <2>2. ~ visit'[v] = Away
    BY DEF Away, Over
  <2>3. /\ comparePassword(visit[v].password, visit[v].user.password)
        /\ visit'[v] = [visit[v] EXCEPT !.pc = "creating"]
    BY <1>1, <1>3, <2>2 DEF Compare
  <2>4. visit'[v].user = visit[v].user /\ visit[v].user.id \in entitled[v]
    BY <2>1, <2>3 DEF SigningVisit, PasswordInv
  <2>5. entitled'[v] = entitled[v]
    BY <1>1, <1>3, <2>1 DEF Next, vars, SigningIn
  <2> QED
    BY <2>4, <2>5
<1>4. ASSUME visit'[v] # visit[v], ~SigningIn(v),
             NEW email \in Emails, NEW password \in Passwords, SignIn(v, email, password)
      PROVE  visit'[v].user.id \in entitled'[v]
  <2>1. PICK u \in HasEmail(email) :
           visit'[v] = [pc |-> "comparing", email |-> email, password |-> password,
                        user |-> u, start |-> now]
    BY <1>1, <1>4 DEF SignIn
  <2>2. u \in User /\ u \in users /\ u.email = email
    BY DEF HasEmail, AccessInv, AccountsInv
  <2>3. u.password = hashPassword(password)
    <3>1. comparePassword(password, u.password)
      BY <2>1
    <3> QED
      BY <2>2, <3>1 DEF comparePassword, hashPassword, User, Password
  <2>4. users' = users
    BY <1>4, VisitMoves DEF accountVars
  <2>5. u.id \in Entitled(v)'
    <3>1. visit'[v].email = email /\ visit'[v].password = password
      BY <2>1
    <3>2. u \in {w \in HasEmail(email)' : w.password = hashPassword(password)}
      BY <2>2, <2>3, <2>4 DEF HasEmail
    <3> QED
      BY <3>1, <3>2 DEF Entitled, hashPassword, HasEmail
  <2>6. entitled'[v] = Entitled(v)'
    BY <1>1, <1>4 DEF Next, vars, sessionVars
  <2> QED
    BY <2>1, <2>5, <2>6
<1> QED
  BY <1>1, <1>2, <1>3, <1>4, SigningMoves

LEMMA IssuedStep ==
  ASSUME AccessInv, PasswordInv, [Next]_vars, NEW token \in Tokens, issued'[token] # issued[token]
  PROVE  \E v \in Visits : /\ visit[v].pc = "creating" /\ visit'[v] # visit[v]
                           /\ issued'[token] \in entitled[v]
<1>1. PICK v \in Visits : \E other \in Tokens : createSession(v, other)
  <2>1. CASE Admin \/ Delete \/ UNCHANGED vars
    BY <2>1 DEF Admin, Delete, CascadeSessions, vars, sessionVars
  <2>2. CASE Visiting
    BY <2>2 DEF Visiting, SignIn, Arrive, Tick, VisitStep, Compare, FindSession, CheckSession,
                DeleteExpired, Renew, VisitFails
  <2> QED
    BY <2>1, <2>2 DEF Next
<1>2. PICK other \in Tokens : createSession(v, other)
  BY <1>1
<1>3. visit[v].pc = "creating" /\ visit'[v] = Away
  BY <1>2 DEF createSession, AccessInv, SessionsInv
<1>4. issued'[token] = visit[v].user.id
  BY <1>2 DEF createSession, AccessInv, SessionsInv, TokensOK
<1>5. visit'[v] # visit[v] /\ visit[v].user.id \in entitled[v]
  BY <1>3 DEF PasswordInv, Away, Over
<1> QED
  BY <1>3, <1>4, <1>5

(* A token is issued to none but the user whose email and password were    *)
(* sent for it.  And the guard lets in nobody but the user a token was     *)
(* issued to, and nobody 30 days after the session was made or last used:  *)
(* not even when the requests that find it in its last 15 days renew it    *)
(* side by side.                                                           *)
THEOREM AdmissionEarned == Spec => AdmissionIsEarned
<1>1. AccessInv /\ PasswordInv /\ [Next]_vars =>
        [ /\ \A token \in Tokens : issued'[token] # issued[token] =>
                \E v \in Visits : /\ visit[v].pc = "creating" /\ visit'[v] # visit[v]
                                  /\ issued'[token] \in entitled[v]
          /\ \A v \in Visits :
                LET token == visit[v].token IN
                visit[v].pc = "found" /\ visit'[v].pc \in {"admitted", "renewing"} =>
                   /\ visit[v].user.id = issued[token]
                   /\ now - lastUse[token] < Lifetime ]_vars
  BY EarnedStep, IssuedStep
<1>2. Spec => []PasswordInv
  BY AccessInvariant, InitPassword, PasswordStep, PTL DEF Spec
<1> QED
  BY AccessInvariant, <1>1, <1>2, PTL DEF Spec, AdmissionIsEarned

LEMMA ReturningStep ==
  ASSUME AccessInv, [Next]_vars, NEW v \in Visits,
         visit[v].pc \in {"arriving", "deleting"}, visit'[v].pc = "refused",
         visit[v].token \notin crossed', issued[visit[v].token] \in Ids
  PROVE  visit[v].start - lastAnswer[visit[v].token] >= Renewal - 1
<1>1. VisitStep(v) /\ VisitOK(visit[v])
  BY VisitMoves, VisitKinds DEF VisitInFlight, AccessInv
<1>2. PICK token \in Tokens, start \in Nat :
         token = visit[v].token /\ start = visit[v].start /\ now <= start + 1
  BY <1>1, VisitKinds DEF ArrivingVisit, HoldingVisit, Holding, VisitOK, VisitInFlight, AccessInv
<1>3. ~VisitFails(v)
  BY DEF VisitFails, Away, Over, AccessInv, SessionsInv
<1>4. now \in Nat /\ lastAnswer[token] \in Nat
  BY DEF AccessInv, SessionsInv, TokensOK
<1>5. lastAnswer[token] + Renewal <= now
  <2>1. CASE visit[v].pc = "arriving"
    <3>1. FindSession(v)
      BY <1>1, <1>3, <2>1 DEF VisitStep, Compare, createSession, CheckSession, DeleteExpired, Renew
    <3>2. SessionWith(token) = {}
      BY <1>2, <3>1 DEF FindSession, AccessInv, SessionsInv
    <3>3. token \notin crossed
      BY <1>2, <3>1 DEF FindSession
    <3> QED
      BY <1>2, <3>2, <3>3 DEF AccessInv, SessionsInv, GoneOK, SessionWith
  <2>2. CASE visit[v].pc = "deleting"
    <3>1. DeleteExpired(v)
      BY <1>1, <1>3, <2>2 DEF VisitStep, Compare, createSession, CheckSession, FindSession, Renew
    <3>2. visit' = [visit EXCEPT ![v] = IF SessionWith(token) = {} THEN Away ELSE Over("refused")]
      BY <1>2, <3>1 DEF DeleteExpired
    <3>3. SessionWith(token) # {}
      BY <3>2 DEF Away, Over, AccessInv, SessionsInv
    <3>4. PICK s \in sessions : s.id = token
      BY <3>3 DEF SessionWith
    <3>5. s.expiresAt = visit[v].expiresAt
      BY <1>2, <3>1, <3>4 DEF DeleteExpired, SessionWith
    <3>6. s.expiresAt <= now /\ s.expiresAt \in Nat
      BY <1>1, <2>2, <3>5 DEF VisitOK, AccessInv, SessionsInv, RowsOK, Session
    <3>7. lastAnswer[token] + Renewal <= s.expiresAt
      BY <3>4 DEF AccessInv, SessionsInv, RowsOK, SessionOK
    <3> QED
      BY <1>4, <3>6, <3>7, SessionsAssumption
  <2> QED
    BY <2>1, <2>2
<1> QED
  BY <1>2, <1>4, <1>5, SessionsAssumption

(* A user the system has let in, or signed in, is let in again within 15   *)
(* days, less the tick a request may last: a renewal computed before it is *)
(* written, or written after a later one, takes no more than that away.    *)
THEOREM ReturningUser == Spec => ReturningUserIsLetIn
<1>1. AccessInv /\ [Next]_vars =>
        [ \A v \in Visits :
          LET token == visit[v].token IN
          /\ visit[v].pc \in {"arriving", "deleting"} /\ visit'[v].pc = "refused"
          /\ visit[v].start >= lastAnswer[token]
          /\ token \notin crossed' /\ issued[token] \in Ids
          => visit[v].start - lastAnswer[token] >= Renewal - 1 ]_vars
  BY ReturningStep
<1> QED
  BY AccessInvariant, <1>1, PTL DEF Spec, ReturningUserIsLetIn
-----------------------------------------------------------------------------
(***************************************************************************)
(* Updates.  Between the network manager's answer and the row no other     *)
(* update of the user can have come, or both are in contended: two users   *)
(* never share a subscriber, so an update of the same subscriber is one of *)
(* the same user.  Whoever has had the email since the update began would  *)
(* have been found before the network manager was called.                  *)
(***************************************************************************)
Updating(r) == Pc(r) \in AccountInFlight /\ "id" \in DOMAIN request[r]

Rivals ==
    \A r, o \in Requests :
        r # o /\ Updating(r) /\ Updating(o) /\ request[r].id = request[o].id => r \in contended

Found(r) ==
    Updating(r) /\ Pc(r) \in {"checkingEmail", "updatingManager", "writing"}
    /\ request[r].subscriber # NULL =>
        \E u \in users : u.id = request[r].id /\ u.subscriber = request[r].subscriber

Reached(r) ==
    r \notin contended /\ Updating(r) /\ Pc(r) = "writing"
    /\ request[r].subscriber # NULL /\ request[r].manager = "MIKROWISP" =>
        records[request[r].subscriber] =
            Updated(records[request[r].subscriber], request[r].dto)

Warned(r) ==
    /\ holders[r] \subseteq Holders(r)
    /\ Updating(r) /\ Pc(r) \in {"updatingManager", "writing"} => holders[r] = {}

ReachInv ==
    /\ Rivals
    /\ \A r \in Requests : Found(r) /\ Reached(r)
    /\ DOMAIN holders = Requests /\ \A r \in Requests : Warned(r)

LEMMA InitReach == Init => ReachInv
<1> SUFFICES ASSUME Init PROVE ReachInv
    OBVIOUS
<1>1. ASSUME NEW r \in Requests PROVE ~Updating(r)
  BY DEF Init, InitAccounts, Idle, Pc, Updating, AccountInFlight
<1>2. DOMAIN holders = Requests /\ \A r \in Requests : holders[r] = {}
  BY DEF Init
<1> QED
  BY <1>1, <1>2 DEF ReachInv, Rivals, Found, Reached, Warned

(* A request that is moved keeps what it was sent.                         *)
LEMMA GotoKeeps ==
  ASSUME AccountsInv, NEW r \in Requests, NEW pc, Goto(r, pc)
  PROVE  /\ \A o \in Requests : o # r => request'[o] = request[o]
         /\ Pc(r)' = pc /\ DOMAIN request'[r] = DOMAIN request[r]
         /\ request[r] \in UpdateRequest =>
               /\ request'[r].id = request[r].id /\ request'[r].dto = request[r].dto
               /\ request'[r].subscriber = request[r].subscriber
               /\ request'[r].manager = request[r].manager
<1>1. r \in DOMAIN request /\ "pc" \in DOMAIN request[r]
  BY DEF AccountsInv, RequestOK, IdleRequest, CreateRequest, UpdateRequest
<1>2. request' = [request EXCEPT ![r] = [request[r] EXCEPT !.pc = pc]]
  BY DEF Goto
<1>3. request'[r] = [request[r] EXCEPT !.pc = pc]
  BY <1>1, <1>2
<1>4. request'[r].pc = pc /\ DOMAIN request'[r] = DOMAIN request[r]
  BY <1>1, <1>3
<1>5. \A o \in Requests : o # r => request'[o] = request[o]
  BY <1>2 DEF AccountsInv
<1> QED
  BY <1>3, <1>4, <1>5 DEF Pc, UpdateRequest

(* One step of a request: which one it was, and what it left of it.        *)
LEMMA StepKeeps ==
  ASSUME AccountsInv, NEW r \in Requests, AccountStep(r)
  PROVE  /\ \A o \in Requests : o # r => request'[o] = request[o]
         /\ contended' = contended
         /\ Updating(r)' => /\ Updating(r) /\ request[r] \in UpdateRequest
                            /\ request'[r].id = request[r].id /\ request'[r].dto = request[r].dto
<1>1. Pc(r) \in AccountInFlight /\ contended' = contended
  BY DEF AccountStep, CheckNewUser, AskManager, InsertUser, FindUser, CheckEmail, UpdateManager,
         WriteUser, AccountRequestFails, AccountInFlight
<1>2. "id" \in DOMAIN request[r] => request[r] \in UpdateRequest
  BY <1>1, RequestKinds DEF AccountInFlight, CreateRequest
<1>3. ASSUME NEW pc, Goto(r, pc)
      PROVE  /\ \A o \in Requests : o # r => request'[o] = request[o]
             /\ Updating(r)' => /\ Updating(r) /\ request[r] \in UpdateRequest
                                /\ request'[r].id = request[r].id /\ request'[r].dto = request[r].dto
  BY <1>1, <1>2, <1>3, GotoKeeps DEF Updating
<1>4. ASSUME FindUser(r), ~ Goto(r, "failed")
      PROVE  /\ \A o \in Requests : o # r => request'[o] = request[o]
             /\ Updating(r)' => /\ Updating(r) /\ request[r] \in UpdateRequest
                                /\ request'[r].id = request[r].id /\ request'[r].dto = request[r].dto
  <2>1. PICK pc, subscriber :
           request' = [request EXCEPT ![r] = [request[r] EXCEPT
                          !.pc = pc, !.subscriber = subscriber, !.manager = isp]]
    BY <1>4 DEF FindUser
  <2>2. request[r] \in UpdateRequest
    BY <1>4, RequestKinds DEF FindUser
  <2>3. request'[r] = [request[r] EXCEPT !.pc = pc, !.subscriber = subscriber, !.manager = isp]
    BY <2>1 DEF AccountsInv
  <2>4. /\ request'[r].id = request[r].id /\ request'[r].dto = request[r].dto
        /\ "id" \in DOMAIN request[r]
    BY <2>2, <2>3 DEF UpdateRequest
  <2>5. \A o \in Requests : o # r => request'[o] = request[o]
    BY <2>1 DEF AccountsInv
  <2> QED
    BY <1>1, <2>2, <2>4, <2>5 DEF Updating
<1>5. FindUser(r) \/ \E pc : Goto(r, pc)
  BY DEF AccountStep, CheckNewUser, AskManager, InsertUser, CheckEmail, UpdateManager,
         WriteUser, AccountRequestFails
<1> QED
  BY <1>1, <1>3, <1>4, <1>5
LEMMA RequestSteps ==
  ASSUME AccountsInv, [Next]_vars
  PROVE  \/ request' = request /\ contended' = contended /\ records' = records
         \/ \E r \in Requests : AccountStep(r)
         \/ \E r \in Requests, dto \in CreateDtos : StartCreate(r, dto)
         \/ \E r \in Requests, id \in Ids, dto \in UpdateDtos : StartUpdate(r, id, dto)
<1>1. CASE Admin
  BY <1>1 DEF Admin, LoseManager, softUserDelete
<1>2. CASE Delete \/ Visiting \/ UNCHANGED vars
  BY <1>2 DEF Delete, hardUserDelete, Visiting, accountVars, vars
<1> QED
  BY <1>1, <1>2 DEF Next

(* Users of the network manager stay, with their subscriber.               *)
LEMMA SubscribersStay ==
  ASSUME AccountsInv, [Next]_vars, NEW u \in users, u.subscriber # NULL
  PROVE  \E w \in users' : w.id = u.id /\ w.subscriber = u.subscriber
<1> DEFINE Stays == \E w \in users' : w.id = u.id /\ w.subscriber = u.subscriber
<1>1. CASE u \in users'
  BY <1>1
<1>2. ASSUME NEW id \in Ids, softUserDelete(id) PROVE Stays
  <2> DEFINE row == IF u.id = id THEN [u EXCEPT !.is_deleted = TRUE] ELSE u
  <2>1. row \in users'
    BY <1>2 DEF softUserDelete
  <2>2. u \in User
    BY DEF AccountsInv
  <2>3. row.id = u.id /\ row.subscriber = u.subscriber
    BY <2>2 DEF User
  <2> QED
    BY <2>1, <2>3
<1>3. ASSUME NEW r \in Requests, WriteUser(r) PROVE Stays
  <2> DEFINE dto == request[r].dto
             Row(v) == [v EXCEPT !.email = Given(dto.email, @),
                                 !.password = IF dto.password = NULL THEN @
                                              ELSE [text |-> dto.password, hashed |-> FALSE]]
             found == {v \in users : v.id = request[r].id}
  <2>1. users' = users \/ users' = (users \ found) \cup {Row(v) : v \in found}
    BY <1>3 DEF WriteUser
  <2>2. u \in User
    BY DEF AccountsInv
  <2>3. Row(u).id = u.id /\ Row(u).subscriber = u.subscriber
    BY <2>2 DEF User
  <2>4. u \in users' \/ Row(u) \in users'
    BY <2>1
  <2> HIDE DEF Row
  <2> QED
    BY <1>1, <2>3, <2>4
<1>4. ASSUME NEW r \in Requests, AccountStep(r), ~WriteUser(r) PROVE u \in users'
  BY <1>4 DEF AccountStep, CheckNewUser, AskManager, InsertUser, FindUser, CheckEmail,
              UpdateManager, AccountRequestFails
<1>5. CASE Admin
  <2>1. CASE \E r \in Requests : AccountStep(r)
    BY <1>1, <1>3, <1>4, <2>1
  <2>2. CASE \E id \in Ids : softUserDelete(id)
    BY <1>2, <2>2
  <2>3. CASE users' = users
    BY <1>1, <2>3
  <2> QED
    BY <1>5, <2>1, <2>2, <2>3 DEF Admin, StartCreate, StartUpdate, LoseManager
<1>6. CASE Delete
  BY <1>1, <1>6, DeleteOK DEF Delete
<1>7. CASE UNCHANGED accountVars
  BY <1>1, <1>7 DEF accountVars
<1> QED
  BY <1>5, <1>6, <1>7 DEF Next, Visiting, vars

LEMMA StartUpdateKeeps ==
  ASSUME AccountsInv, NEW r \in Requests, NEW id \in Ids, NEW dto \in UpdateDtos,
         StartUpdate(r, id, dto)
  PROVE  /\ \A o \in Requests : o # r => request'[o] = request[o]
         /\ Pc(r) = "idle" /\ Pc(r)' = "finding" /\ request'[r].id = id
         /\ contended \subseteq contended' /\ records' = records
<1>1. request' = [request EXCEPT ![r] =
                     [pc |-> "finding", id |-> id, dto |-> dto, subscriber |-> NULL, manager |-> NULL]]
  BY DEF StartUpdate
<1>2. request'[r].pc = "finding" /\ request'[r].id = id
  BY <1>1 DEF AccountsInv
<1> QED
  BY <1>1, <1>2 DEF StartUpdate, Pc, AccountsInv

LEMMA StartCreateKeeps ==
  ASSUME AccountsInv, NEW r \in Requests, NEW dto \in CreateDtos, StartCreate(r, dto)
  PROVE  /\ \A o \in Requests : o # r => request'[o] = request[o]
         /\ Pc(r) = "idle" /\ ~Updating(r)' /\ Pc(r)' = "checking"
         /\ contended' = contended /\ records' = records
<1>1. request' = [request EXCEPT ![r] = [pc |-> "checking", dto |-> dto]]
  BY DEF StartCreate
<1>2. request'[r].pc = "checking" /\ "id" \notin DOMAIN request'[r]
  BY <1>1 DEF AccountsInv
<1> QED
  BY <1>1, <1>2 DEF StartCreate, Pc, AccountsInv, Updating

LEMMA RivalsStep == AccountsInv /\ ReachInv /\ [Next]_vars => Rivals'
<1> SUFFICES ASSUME AccountsInv, ReachInv, [Next]_vars,
                    NEW p \in Requests, NEW q \in Requests, p # q,
                    Updating(p)', Updating(q)', request'[p].id = request'[q].id
             PROVE  p \in contended'
    BY DEF Rivals
<1>1. CASE request' = request /\ contended' = contended
  BY <1>1 DEF ReachInv, Rivals, Updating, Pc
<1>2. ASSUME NEW r \in Requests, AccountStep(r) PROVE p \in contended'
  <2>1. Updating(p) /\ request'[p].id = request[p].id
    BY <1>2, StepKeeps DEF Updating, Pc
  <2>2. Updating(q) /\ request'[q].id = request[q].id
    BY <1>2, StepKeeps DEF Updating, Pc
  <2> QED
    BY <1>2, <2>1, <2>2, StepKeeps DEF ReachInv, Rivals
<1>3. ASSUME NEW r \in Requests, NEW dto \in CreateDtos, StartCreate(r, dto) PROVE p \in contended'
  <2>1. p # r /\ q # r
    BY <1>3, StartCreateKeeps
  <2> QED
    BY <1>3, <2>1, StartCreateKeeps DEF ReachInv, Rivals, Updating, Pc
<1>4. ASSUME NEW r \in Requests, NEW id \in Ids, NEW dto \in UpdateDtos, StartUpdate(r, id, dto)
      PROVE  p \in contended'
  <2> DEFINE rivals == {o \in Requests : Pc(o) \in AccountInFlight
                                         /\ "id" \in DOMAIN request[o] /\ request[o].id = id}
  <2>1. contended' = contended \cup rivals \cup (IF rivals = {} THEN {} ELSE {r})
    BY <1>4 DEF StartUpdate
  <2>2. CASE p # r /\ q # r
    BY <1>4, <2>1, <2>2, StartUpdateKeeps DEF ReachInv, Rivals, Updating, Pc
  <2>3. CASE p = r
    <3>1. q \in rivals
      BY <1>4, <2>3, StartUpdateKeeps DEF Updating, Pc
    <3> QED
      BY <2>1, <2>3, <3>1
  <2>4. CASE q = r
    <3>1. p \in rivals
      BY <1>4, <2>4, StartUpdateKeeps DEF Updating, Pc
    <3> QED
      BY <2>1, <3>1
  <2> QED
    BY <2>2, <2>3, <2>4
<1> QED
  BY <1>1, <1>2, <1>3, <1>4, RequestSteps
(* What FindUser leaves of the request, of the user it has found.          *)
LEMMA FindUserKeeps ==
  ASSUME AccountsInv, NEW r \in Requests, FindUser(r), Pc(r)' # "failed"
  PROVE  \E u \in users : /\ u.id = request[r].id /\ request'[r].subscriber = u.subscriber
                          /\ request'[r].dto = request[r].dto
                          /\ Pc(r)' = IF request[r].dto.email # NULL THEN "checkingEmail"
                                      ELSE IF u.subscriber # NULL THEN "updatingManager"
                                      ELSE "writing"
<1> DEFINE found == {u \in users : u.id = request[r].id}
<1>1. request[r] \in UpdateRequest
  BY RequestKinds DEF FindUser
<1>2. ~ Goto(r, "failed")
  BY GotoKeeps
<1>3. PICK u : /\ found # {} /\ u = CHOOSE v \in found : TRUE
               /\ request' = [request EXCEPT ![r] = [request[r] EXCEPT
                      !.pc = IF request[r].dto.email # NULL THEN "checkingEmail"
                             ELSE IF u.subscriber # NULL THEN "updatingManager" ELSE "writing",
                      !.subscriber = u.subscriber, !.manager = isp]]
  BY <1>2 DEF FindUser
<1>4. u \in found
  BY <1>3
<1>5. request'[r] = [request[r] EXCEPT
                      !.pc = IF request[r].dto.email # NULL THEN "checkingEmail"
                             ELSE IF u.subscriber # NULL THEN "updatingManager" ELSE "writing",
                      !.subscriber = u.subscriber, !.manager = isp]
  BY <1>3 DEF AccountsInv
<1> HIDE DEF found
<1>6. request'[r].subscriber = u.subscriber /\ request'[r].dto = request[r].dto
      /\ Pc(r)' = IF request[r].dto.email # NULL THEN "checkingEmail"
                  ELSE IF u.subscriber # NULL THEN "updatingManager" ELSE "writing"
  BY <1>1, <1>5 DEF UpdateRequest, Pc
<1> QED
  BY <1>4, <1>6 DEF found

(* How a request gets to where Found, Reached and Warned speak of it.      *)
LEMMA Advances ==
  ASSUME AccountsInv, NEW r \in Requests, AccountStep(r), Updating(r)',
         Pc(r)' \in {"checkingEmail", "updatingManager", "writing"}
  PROVE  /\ request[r] \in UpdateRequest
         /\ \/ FindUser(r)
            \/ /\ CheckEmail(r) \/ UpdateManager(r)
               /\ request'[r].subscriber = request[r].subscriber
               /\ request'[r].manager = request[r].manager
<1>1. request[r] \in UpdateRequest
  BY StepKeeps
<1>2. Pc(r) \notin {"checking", "asking", "inserting"}
  BY <1>1 DEF UpdateRequest, Pc
<1>3. ~WriteUser(r) /\ ~AccountRequestFails(r)
  <2>1. WriteUser(r) \/ AccountRequestFails(r) => Goto(r, "done") \/ Goto(r, "failed")
    BY DEF WriteUser, AccountRequestFails
  <2>2. ~Goto(r, "done") /\ ~Goto(r, "failed")
    BY GotoKeeps
  <2> QED
    BY <2>1, <2>2
<1>4. FindUser(r) \/ CheckEmail(r) \/ UpdateManager(r)
  BY <1>2, <1>3 DEF AccountStep, CheckNewUser, AskManager, InsertUser
<1>5. CheckEmail(r) \/ UpdateManager(r) => \E pc : Goto(r, pc)
  BY DEF CheckEmail, UpdateManager
<1> QED
  BY <1>1, <1>4, <1>5, GotoKeeps

(* What holds of a request another one's step does not touch.              *)
LEMMA Untouched ==
  ASSUME AccountsInv, [Next]_vars, NEW o \in Requests,
         ~ AccountStep(o), Updating(o)',
         Pc(o)' \in {"checkingEmail", "updatingManager", "writing"}
  PROVE  /\ request'[o] = request[o] /\ Pc(o)' = Pc(o) /\ Updating(o)
         /\ contended \subseteq contended'
<1>1. request'[o] = request[o] /\ contended \subseteq contended'
  <2>1. ASSUME NEW r \in Requests, AccountStep(r)
        PROVE  request'[o] = request[o] /\ contended \subseteq contended'
    BY <2>1, StepKeeps
  <2>2. ASSUME NEW r \in Requests, NEW dto \in CreateDtos, StartCreate(r, dto)
        PROVE  request'[o] = request[o] /\ contended \subseteq contended'
    BY <2>2, StartCreateKeeps
  <2>3. ASSUME NEW r \in Requests, NEW id \in Ids, NEW dto \in UpdateDtos, StartUpdate(r, id, dto)
        PROVE  request'[o] = request[o] /\ contended \subseteq contended'
    BY <2>3, StartUpdateKeeps
  <2> QED
    BY <2>1, <2>2, <2>3, RequestSteps
<1> QED
  BY <1>1 DEF Updating, Pc

LEMMA FoundStep ==
  ASSUME AccountsInv, ReachInv, [Next]_vars, NEW r \in Requests
  PROVE  Found(r)'
<1> SUFFICES ASSUME Updating(r)', Pc(r)' \in {"checkingEmail", "updatingManager", "writing"},
                    request'[r].subscriber # NULL
             PROVE  \E u \in users' : u.id = request'[r].id
                                      /\ u.subscriber = request'[r].subscriber
    BY DEF Found
<1>1. CASE AccountStep(r)
  <2>1. request'[r].id = request[r].id /\ Updating(r)
    BY <1>1, StepKeeps
  <2>2. \E u \in users : u.id = request[r].id /\ u.subscriber = request'[r].subscriber
    <3>1. CASE FindUser(r)
      BY <3>1, FindUserKeeps
    <3>2. CASE /\ CheckEmail(r) \/ UpdateManager(r)
               /\ request'[r].subscriber = request[r].subscriber
      <4>1. Pc(r) \in {"checkingEmail", "updatingManager"}
        BY <3>2 DEF CheckEmail, UpdateManager
      <4> QED
        BY <2>1, <3>2, <4>1 DEF ReachInv, Found
    <3> QED
      BY <1>1, <3>1, <3>2, Advances
  <2> QED
    BY <2>1, <2>2, SubscribersStay
<1>2. CASE ~AccountStep(r)
  <2>1. request'[r] = request[r] /\ Pc(r)' = Pc(r) /\ Updating(r)
    BY <1>2, Untouched
  <2>2. \E u \in users : u.id = request[r].id /\ u.subscriber = request[r].subscriber
    BY <2>1 DEF ReachInv, Found
  <2> QED
    BY <2>1, <2>2, SubscribersStay
<1> QED
  BY <1>1, <1>2

LEMMA UpdatedTwice == \A record, dto : Updated(Updated(record, dto), dto) = Updated(record, dto)
BY DEF Updated, Given

(* One subscriber is one user's: an update of it under way with this one   *)
(* is an update of the same user.                                          *)
LEMMA SameSubscriber ==
  ASSUME AccountsInv, ReachInv, NEW r \in Requests, NEW o \in Requests, r # o,
         Updating(r), Updating(o), Pc(r) = "writing", Pc(o) = "updatingManager",
         request[r].subscriber # NULL, request[r].subscriber = request[o].subscriber
  PROVE  r \in contended
<1>1. PICK u \in users : u.id = request[r].id /\ u.subscriber = request[r].subscriber
  BY DEF ReachInv, Found
<1>2. PICK w \in users : w.id = request[o].id /\ w.subscriber = request[o].subscriber
  BY DEF ReachInv, Found
<1>3. u = w
  BY <1>1, <1>2 DEF AccountsInv, UniqueColumns
<1> QED
  BY <1>1, <1>2, <1>3 DEF ReachInv, Rivals

LEMMA ReachedStep ==
  ASSUME AccountsInv, ReachInv, [Next]_vars, NEW r \in Requests
  PROVE  Reached(r)'
<1> SUFFICES ASSUME r \notin contended', Updating(r)', Pc(r)' = "writing",
                    request'[r].subscriber # NULL, request'[r].manager = "MIKROWISP"
             PROVE  records'[request'[r].subscriber] =
                        Updated(records'[request'[r].subscriber], request'[r].dto)
    BY DEF Reached
<1>1. CASE AccountStep(r)
  <2>1. ~FindUser(r)
    <3> SUFFICES ASSUME FindUser(r) PROVE FALSE
        OBVIOUS
    <3> QED
      BY FindUserKeeps
  <2>2. /\ request[r] \in UpdateRequest
        /\ CheckEmail(r) \/ UpdateManager(r)
        /\ request'[r].subscriber = request[r].subscriber
        /\ request'[r].manager = request[r].manager
    BY <1>1, <2>1, Advances
  <2>3. ~CheckEmail(r)
    BY <2>2, GotoKeeps DEF CheckEmail
  <2>4. UpdateManager(r) /\ request'[r].dto = request[r].dto
    BY <1>1, <2>2, <2>3, StepKeeps
  <2>5. request[r].subscriber \in Subscribers
    BY <2>4, RequestKinds DEF UpdateManager
  <2>6. ~ Goto(r, "failed")
    BY GotoKeeps
  <2>7. records' = [records EXCEPT ![request[r].subscriber] = Updated(@, request[r].dto)]
    BY <2>2, <2>4, <2>6 DEF UpdateManager
  <2>8. records'[request[r].subscriber] = Updated(records[request[r].subscriber], request[r].dto)
    BY <2>5, <2>7 DEF AccountsInv
  <2> QED
    BY <2>2, <2>4, <2>8, UpdatedTwice
<1>2. CASE ~AccountStep(r)
  <2>1. request'[r] = request[r] /\ Pc(r) = "writing" /\ Updating(r) /\ r \notin contended
    BY <1>2, Untouched
  <2>2. records[request[r].subscriber] = Updated(records[request[r].subscriber], request[r].dto)
    BY <2>1 DEF ReachInv, Reached
  <2>3. records'[request[r].subscriber] = records[request[r].subscriber]
    <3>1. ASSUME NEW o \in Requests, UpdateManager(o)
          PROVE  records'[request[r].subscriber] = records[request[r].subscriber]
      <4>1. o # r /\ request[o] \in UpdateRequest /\ Pc(o) = "updatingManager"
        BY <2>1, <3>1, RequestKinds DEF UpdateManager
      <4>2. Updating(o)
        BY <4>1 DEF Updating, UpdateRequest, AccountInFlight
      <4>3. request[o].subscriber # request[r].subscriber
        BY <2>1, <4>1, <4>2, SameSubscriber
      <4>4. records' = records
            \/ records' = [records EXCEPT ![request[o].subscriber] =
                              Updated(@, request[o].dto)]
        BY <3>1 DEF UpdateManager
      <4>5. request[r] \in UpdateRequest
        BY <2>1, RequestKinds
      <4>6. request[r].subscriber \in Subscribers
        BY <2>1, <4>5 DEF UpdateRequest
      <4> QED
        BY <4>3, <4>4, <4>6 DEF AccountsInv
    <3>2. ASSUME NEW o \in Requests, AccountStep(o), ~UpdateManager(o) PROVE records' = records
      BY <3>2 DEF AccountStep, CheckNewUser, AskManager, InsertUser, FindUser, CheckEmail,
                  WriteUser, AccountRequestFails
    <3>3. ASSUME NEW o \in Requests, NEW dto \in CreateDtos, StartCreate(o, dto)
          PROVE  records' = records
      BY <3>3, StartCreateKeeps
    <3>4. ASSUME NEW o \in Requests, NEW id \in Ids, NEW dto \in UpdateDtos, StartUpdate(o, id, dto)
          PROVE  records' = records
      BY <3>4, StartUpdateKeeps
    <3> QED
      BY <3>1, <3>2, <3>3, <3>4, RequestSteps
  <2> QED
    BY <2>1, <2>2, <2>3
<1> QED
  BY <1>1, <1>2
LEMMA WarnedStep ==
  ASSUME AccountsInv, AccountsInv', ReachInv, [Next]_vars, NEW r \in Requests
  PROVE  DOMAIN holders' = Requests /\ Warned(r)'
<1>1. DOMAIN holders' = Requests /\ holders'[r] \subseteq Holders(r)'
  <2>1. CASE holders' = [o \in Requests |->
                  IF Pc(o) = "idle" THEN Holders(o)' ELSE holders[o] \cap Holders(o)']
    BY <2>1
  <2>2. CASE UNCHANGED vars
    BY <2>2 DEF vars, accountVars, ReachInv, Warned, Holders, HasEmail, Pc
  <2> QED
    BY <2>1, <2>2 DEF Next
<1>2. ASSUME Updating(r)', Pc(r)' \in {"updatingManager", "writing"}
      PROVE  holders'[r] = {}
  <2>1. CASE AccountStep(r)
    <3>1. /\ request[r] \in UpdateRequest /\ Updating(r) /\ Pc(r) # "idle"
          /\ request'[r].id = request[r].id /\ request'[r].dto = request[r].dto
      BY <1>2, <2>1, StepKeeps DEF Updating, AccountInFlight
    <3>2. holders'[r] \subseteq holders[r]
      BY <3>1 DEF Next, vars
    <3>3. CASE FindUser(r)
      <4>1. request'[r].dto.email = NULL
        BY <1>2, <3>1, <3>3, FindUserKeeps
      <4>2. Holders(r)' = {}
        BY <4>1, AccessAssumption DEF Holders, HasEmail, AccountsInv, User
      <4> QED
        BY <1>1, <4>2
    <3>4. CASE CheckEmail(r)
      <4>1. ~ \E u \in HasEmail(request[r].dto.email) : u.id # request[r].id
        <5>1. ~ Goto(r, "failed")
          BY <1>2, GotoKeeps
        <5> QED
          BY <3>4, <5>1 DEF CheckEmail
      <4>2. Holders(r) = {}
        BY <4>1 DEF Holders
      <4>3. holders[r] \subseteq Holders(r)
        BY DEF ReachInv, Warned
      <4> QED
        BY <3>2, <4>2, <4>3
    <3>5. CASE UpdateManager(r)
      <4>1. holders[r] = {}
        BY <3>1, <3>5 DEF UpdateManager, ReachInv, Warned
      <4> QED
        BY <3>2, <4>1
    <3> QED
      BY <1>2, <2>1, <3>3, <3>4, <3>5, Advances
  <2>2. CASE ~AccountStep(r)
    <3>1. Pc(r)' = Pc(r) /\ Updating(r)
      BY <1>2, <2>2, Untouched
    <3>2. holders[r] = {} /\ Pc(r) # "idle"
      BY <1>2, <3>1 DEF ReachInv, Warned
    <3> QED
      BY <3>2 DEF Next, vars
  <2> QED
    BY <2>1, <2>2
<1> QED
  BY <1>1, <1>2 DEF Warned

LEMMA ReachStep == AccessInv /\ AccessInv' /\ ReachInv /\ [Next]_vars => ReachInv'
<1> SUFFICES ASSUME AccountsInv, AccountsInv', ReachInv, [Next]_vars PROVE ReachInv'
    BY DEF AccessInv
<1>1. Rivals'
  BY RivalsStep
<1>2. ASSUME NEW r \in Requests PROVE Found(r)' /\ Reached(r)' /\ Warned(r)'
  BY FoundStep, ReachedStep, WarnedStep
<1>3. DOMAIN holders' = Requests
  BY WarnedStep DEF Next, vars, ReachInv
<1> QED
  BY <1>1, <1>2, <1>3 DEF ReachInv

LEMMA ReachesStep ==
  ASSUME AccountsInv, ReachInv, [Next]_vars, NEW r \in Requests,
         Pc(r) = "writing", "id" \in DOMAIN request[r],
         request'[r].pc \in {"done", "failed"}, r \notin contended
  PROVE  IF request'[r].pc = "failed"
         THEN holders[r] = {}
         ELSE /\ \E u \in users' : u.id = request[r].id
                                   /\ u.email = Given(request[r].dto.email, u.email)
              /\ request[r].subscriber # NULL /\ request[r].manager = "MIKROWISP" =>
                    records[request[r].subscriber] =
                        Updated(records[request[r].subscriber], request[r].dto)
<1>1. Updating(r)
  BY DEF Updating, AccountInFlight
<1>2. holders[r] = {}
  BY <1>1 DEF ReachInv, Warned
<1>3. request[r].subscriber # NULL /\ request[r].manager = "MIKROWISP" =>
         records[request[r].subscriber] =
             Updated(records[request[r].subscriber], request[r].dto)
  BY <1>1 DEF ReachInv, Reached
<1>4. ASSUME request'[r].pc = "done"
      PROVE  \E u \in users' : u.id = request[r].id
                               /\ u.email = Given(request[r].dto.email, u.email)
  <2> DEFINE dto == request[r].dto
             Row(v) == [v EXCEPT !.email = Given(dto.email, @),
                                 !.password = IF dto.password = NULL THEN @
                                              ELSE [text |-> dto.password, hashed |-> FALSE]]
             found == {v \in users : v.id = request[r].id}
  <2>1. AccountStep(r)
    <3>1. request'[r] # request[r]
      BY <1>4 DEF Pc
    <3>2. ASSUME NEW o \in Requests, AccountStep(o) PROVE o = r
      BY <3>1, <3>2, StepKeeps
    <3> QED
      BY <3>1, <3>2, RequestSteps, StartCreateKeeps, StartUpdateKeeps
  <2>2. WriteUser(r)
    <3>1. ~AccountRequestFails(r)
      BY <1>4, GotoKeeps DEF AccountRequestFails, Pc
    <3> QED
      BY <2>1, <3>1 DEF AccountStep, CheckNewUser, AskManager, InsertUser, FindUser,
                        CheckEmail, UpdateManager
  <2>3. ~Goto(r, "failed")
    BY <1>4, GotoKeeps DEF Pc
  <2>4. found # {} /\ users' = (users \ found) \cup {Row(v) : v \in found}
    BY <2>2, <2>3 DEF WriteUser
  <2>5. PICK u \in users : u.id = request[r].id
    BY <2>4
  <2>6. Row(u) \in users'
    BY <2>4, <2>5
  <2>7. u \in User
    BY DEF AccountsInv
  <2>8. Row(u).id = u.id /\ Row(u).email = Given(dto.email, u.email)
    BY <2>7 DEF User
  <2> HIDE DEF Row
  <2> QED
    BY <2>5, <2>6, <2>8 DEF Given
<1> QED
  BY <1>2, <1>3, <1>4

(* An update that succeeds has reached MikroWisp and the table, whatever   *)
(* updates of others and visits came between; and one that fails after     *)
(* MikroWisp has taken it was not to be told from the tables before.       *)
THEOREM UpdateReaches == Spec => UpdateReachesBoth
<1>1. AccessInv /\ ReachInv /\ [Next]_vars =>
        [ \A r \in Requests :
          /\ Pc(r) = "writing" /\ "id" \in DOMAIN request[r]
          /\ request'[r].pc \in {"done", "failed"}
          /\ r \notin contended
          => LET dto == request[r].dto
                 s == request[r].subscriber
             IN  IF request'[r].pc = "failed"
                 THEN holders[r] = {}
                 ELSE /\ \E u \in users' : u.id = request[r].id
                                           /\ u.email = Given(dto.email, u.email)
                      /\ s # NULL /\ request[r].manager = "MIKROWISP" =>
                            records[s] = Updated(records[s], dto) ]_vars
  BY ReachesStep DEF AccessInv
<1> QED
  BY AccessInvariant, InitReach, ReachStep, <1>1, PTL DEF Spec, UpdateReachesBoth
=============================================================================
