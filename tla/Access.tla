------------------------------- MODULE Access -------------------------------
(***************************************************************************)
(* Who may use the system: users come, change and go while they sign in    *)
(* and come back with their sessions.                                      *)
(***************************************************************************)
EXTENDS Sessions

CONSTANTS
    CreateDtos,         \* what requests to create a user carry
    UpdateDtos,         \* what requests to update one carry
    FirstEmail, FirstPassword,  \* the administrator of start-up
    ChangeCost,         \* bound: the ticks a request to create or update takes
                        \* from MaxTime, so that long histories have few changes
    MaxBusy             \* bound: these requests and the visits at one time

ASSUME AccessAssumption ==
    /\ NULL \notin Emails /\ NULL \notin Passwords /\ NULL \notin Subscribers
    /\ CreateDtos \subseteq CreateClientDto \cup CreateAdminDto
    /\ UpdateDtos \subseteq [email : Emails \cup {NULL}, password : Passwords \cup {NULL}]
    /\ FirstEmail \in Emails /\ FirstPassword \in Passwords

VARIABLES
    holders,    \* history: who has had the email an update asks for, since it began
    entitled    \* history: the user whose email and password a sign-in under way
                \* has sent, as the table had them when it came

vars == <<accountVars, sessionVars, holders, entitled>>

Changes == Cardinality({r \in Requests : Pc(r) # "idle"})
Busy == Changes + Cardinality({v \in Visits : visit[v].pc \in VisitInFlight})

(* The others who have the email an update under way asks for.             *)
Holders(r) ==
    IF Pc(r) \in AccountInFlight /\ "id" \in DOMAIN request[r]
    THEN {u.id : u \in HasEmail(request[r].dto.email)} \ {request[r].id}
    ELSE {}

SigningIn(v) == visit[v].pc \in {"comparing", "creating"}

Entitled(v) ==
    {u.id : u \in {w \in HasEmail(visit[v].email) : w.password = hashPassword(visit[v].password)}}

Init ==
    /\ InitAccounts(FirstEmail, FirstPassword)
    /\ InitSessions
    /\ holders = [r \in Requests |-> {}]
    /\ entitled = [v \in Visits |-> {}]

Admin ==
    /\ \/ now + ChangeCost * (Changes + 1) <= MaxTime /\ Busy < MaxBusy
          /\ \E r \in Requests :
                \/ \E dto \in CreateDtos : StartCreate(r, dto)
                \/ \E id \in Ids, dto \in UpdateDtos : StartUpdate(r, id, dto)
       \/ \E r \in Requests : AccountStep(r)
       \/ now + ChangeCost * Changes < MaxTime /\ LoseManager
       \/ \E id \in Ids : ~UserWith(id).is_deleted /\ softUserDelete(id)
    /\ UNCHANGED sessionVars

Delete == \E id \in Ids : hardUserDelete(id) /\ CascadeSessions(id)

Visiting ==
    /\ \/ /\ Busy < MaxBusy
          /\ \E v \in Visits :
                \/ \E email \in Emails, password \in Passwords : SignIn(v, email, password)
                \/ \E token \in Tokens, adminOnly \in BOOLEAN : Arrive(v, token, adminOnly)
       \/ \E v \in Visits : VisitStep(v)
       \/ now + ChangeCost * Changes < MaxTime /\ Tick
    /\ UNCHANGED accountVars

Next ==
    /\ Admin \/ Delete \/ Visiting
    /\ holders' = [r \in Requests |->
                      IF Pc(r) = "idle" THEN Holders(r)' ELSE holders[r] \cap Holders(r)']
    /\ entitled' = [v \in Visits |->
                       IF ~SigningIn(v)' THEN {}
                       ELSE IF SigningIn(v) THEN entitled[v] ELSE Entitled(v)']

Spec == Init /\ [][Next]_vars

-----------------------------------------------------------------------------
(* The types, the unique columns, and a user for every session.            *)
AccessTypeOK == AccountsTypeOK /\ UniqueColumns /\ SessionsTypeOK

(* Whose session a request is let in with.  A token is only issued to the  *)
(* user whose email and password the sign-in that gets it has sent: the    *)
(* password the table had, as a hash, when it came, whatever became of the *)
(* row since.  And the guard admits with it only as that user, and only    *)
(* when the session was made or used within the last 30 days, however many *)
(* requests renewed it at once.                                            *)
AdmissionIsEarned ==
    [][ /\ \A token \in Tokens : issued'[token] # issued[token] =>
              \E v \in Visits : /\ visit[v].pc = "creating" /\ visit'[v] # visit[v]
                                /\ issued'[token] \in entitled[v]
        /\ \A v \in Visits :
              LET token == visit[v].token IN
              visit[v].pc = "found" /\ visit'[v].pc \in {"admitted", "renewing"} =>
                 /\ visit[v].user.id = issued[token]
                 /\ now - lastUse[token] < Lifetime ]_vars

(* Whoever still sends the token within 15 days of a request that was let  *)
(* in, less the tick a request can last, is not turned away for want of a  *)
(* session, unless the user was deleted, or a request has found the        *)
(* session expired while another was renewing it.  A browser that has      *)
(* dropped the cookie after its 7 days sends none, and is turned away.     *)
ReturningUserIsLetIn ==
    [][ \A v \in Visits :
          LET token == visit[v].token IN
          /\ visit[v].pc \in {"arriving", "deleting"} /\ visit'[v].pc = "refused"
          /\ visit[v].start >= lastAnswer[token]
          /\ token \notin crossed' /\ issued[token] \in Ids
          => visit[v].start - lastAnswer[token] >= Renewal - 1 ]_vars

(* An update that answers success has reached the database and, for a      *)
(* client, MikroWisp; one that fails after MikroWisp has taken it does not *)
(* fail for a user who has had the email all along: that is told before    *)
(* MikroWisp is called.  Wisphub's refusals pass for success, and updates  *)
(* of one user at a time can cross.                                        *)
UpdateReachesBoth ==
    [][ \A r \in Requests :
          /\ Pc(r) = "writing" /\ "id" \in DOMAIN request[r]
          /\ request'[r].pc \in {"done", "failed"}
          /\ r \notin contended
          => LET dto == request[r].dto
                 s == request[r].subscriber
             IN  IF request'[r].pc = "failed"
                 THEN holders[r] = {}
                 ELSE /\ \E u \in users' : u.id = request[r].id
                                           /\ u.email = Given(dto.email, u.email)
                      /\ s # NULL /\ request[r].manager = "MIKROWISP" =>
                            records[s] = Updated(records[s], dto) ]_vars
=============================================================================
