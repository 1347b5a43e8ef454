------------------------------ MODULE Sessions ------------------------------
(***************************************************************************)
(* Sessions (auth/session/): sign-in makes one for 30 days; the guard lets *)
(* a request in with one, deletes it when it finds it expired, and in the  *)
(* last 15 days of one writes another 30 days into it.  The guard reads,   *)
(* then writes; requests with one token do so side by side.                *)
(***************************************************************************)
EXTENDS Accounts

CONSTANTS
    Tokens,     \* the session tokens there can be
    Visits,     \* requests to sign in, and requests behind the guard
    Lifetime,   \* ticks of a session, 30 days
    Renewal,    \* ticks before its end from which it is renewed, 15 days
    MaxTime     \* bound: ticks

ASSUME SessionsAssumption ==
    /\ Lifetime \in Nat /\ Renewal \in Nat /\ MaxTime \in Nat
    /\ 0 < Renewal /\ Renewal < Lifetime

VARIABLES
    sessions,   \* the table session
    now,        \* the clock
    visit,      \* what each visit is doing
    issued,     \* history: each token's owner, at the sign-in
    lastUse,    \* history: when each token was last accepted by the guard
    lastAnswer, \* history: when a request it let in, or the sign-in, got there
    crossed     \* history: sessions deleted that were renewed meanwhile

sessionVars == <<sessions, now, visit, issued, lastUse, lastAnswer, crossed>>

Session == [id : Tokens, userId : Nat, expiresAt : Nat]

Nobody == 0         \* no user's id

VisitInFlight == {"comparing", "creating", "arriving", "found", "deleting", "renewing"}
VisitOver == {"away", "admitted", "refused"}

(* What is left of a visit that is over; "away" also stands for one that   *)
(* threw, or signed in.                                                    *)
Over(pc) == [pc |-> pc]
Away == Over("away")

SessionWith(token) == {s \in sessions : s.id = token}

SessionsTypeOK ==
    /\ sessions \subseteq Session
    /\ \A s, t \in sessions : s.id = t.id => s = t
    /\ \A s \in sessions : s.userId \in Ids
    /\ now \in 0..MaxTime
    /\ \A v \in Visits : visit[v].pc \in VisitInFlight \cup VisitOver
    /\ crossed \subseteq Tokens
    /\ \A t \in Tokens : lastUse[t] <= now /\ lastAnswer[t] <= now

InitSessions ==
    /\ sessions = {}
    /\ now = 0
    /\ visit = [v \in Visits |-> Away]
    /\ issued = [t \in Tokens |-> Nobody]
    /\ lastUse = [t \in Tokens |-> 0]
    /\ lastAnswer = [t \in Tokens |-> 0]
    /\ crossed = {}

-----------------------------------------------------------------------------
(* Sign-in.                                                                *)

comparePassword(password, stored) == stored.hashed /\ stored.text = password

(* findUnique by the email; is_deleted and is_active are not looked at.    *)
SignIn(v, email, password) ==
    /\ visit[v].pc \in VisitOver
    /\ \E u \in HasEmail(email) :
          visit' = [visit EXCEPT ![v] = [pc |-> "comparing", email |-> email,
                                         password |-> password, user |-> u, start |-> now]]
    /\ UNCHANGED <<sessions, now, issued, lastUse, lastAnswer, crossed>>

(* Mutant: the comparison is not awaited, and a promise is always true.    *)
CompareUnawaited(v) ==
    /\ visit[v].pc = "comparing"
    /\ visit' = [visit EXCEPT ![v] = [@ EXCEPT !.pc = "creating"]]
    /\ UNCHANGED <<sessions, now, issued, lastUse, lastAnswer, crossed>>

Compare(v) ==
    /\ visit[v].pc = "comparing"
    /\ visit' = [visit EXCEPT ![v] =
                    IF comparePassword(visit[v].password, visit[v].user.password)
                    THEN [@ EXCEPT !.pc = "creating"] ELSE Away]
    /\ UNCHANGED <<sessions, now, issued, lastUse, lastAnswer, crossed>>

(* A token no one has, for the user found, who must be there still.        *)
createSession(v, token) ==
    /\ visit[v].pc = "creating"
    /\ issued[token] = Nobody
    /\ LET owner == visit[v].user.id IN
       IF owner \in Ids
       THEN /\ sessions' = sessions \cup
                  {[id |-> token, userId |-> owner, expiresAt |-> now + Lifetime]}
            /\ issued' = [issued EXCEPT ![token] = owner]
            /\ lastUse' = [lastUse EXCEPT ![token] = now]
            /\ lastAnswer' = [lastAnswer EXCEPT ![token] = now]
            /\ visit' = [visit EXCEPT ![v] = Away]
       ELSE /\ visit' = [visit EXCEPT ![v] = Away]
            /\ UNCHANGED <<sessions, issued, lastUse, lastAnswer>>
    /\ UNCHANGED <<now, crossed>>

-----------------------------------------------------------------------------
(* The guard.                                                              *)

(* A request with a token it was given, for as long as whoever has it still*)
(* sends it: a browser keeps the cookie for 7 days only, which nothing here*)
(* counts on.  A request without a cookie, or with a token nobody was      *)
(* given, is refused at once, and is left out.                             *)
Arrive(v, token, adminOnly) ==
    /\ visit[v].pc \in VisitOver
    /\ issued[token] # Nobody
    /\ visit' = [visit EXCEPT ![v] = [pc |-> "arriving", token |-> token,
                                      adminOnly |-> adminOnly, start |-> now]]
    /\ UNCHANGED <<sessions, now, issued, lastUse, lastAnswer, crossed>>

(* The session with its user, or null for either.                          *)
FindSession(v) ==
    /\ visit[v].pc = "arriving"
    /\ visit' = [visit EXCEPT ![v] =
          IF SessionWith(@.token) = {} THEN Over("refused")
          ELSE LET s == CHOOSE t \in SessionWith(@.token) : TRUE IN
               [pc |-> "found", token |-> @.token, adminOnly |-> @.adminOnly, start |-> @.start,
                user |-> UserWith(s.userId), expiresAt |-> s.expiresAt]]
    /\ UNCHANGED <<sessions, now, issued, lastUse, lastAnswer, crossed>>

Expired(v) == now >= visit[v].expiresAt
Ageing(v) == now >= visit[v].expiresAt - Renewal

(* The guard's own conditions on what validateSessionToken answers.        *)
Verdict(v) ==
    IF visit[v].adminOnly /\ visit[v].user.role # "ADMIN" THEN "refused" ELSE "admitted"

Answered(v, token) ==
    /\ visit' = [visit EXCEPT ![v] = Over(Verdict(v))]
    /\ lastAnswer' = [lastAnswer EXCEPT ![token] = IF Verdict(v) = "admitted" THEN now ELSE @]

CheckSession(v) ==
    /\ visit[v].pc = "found"
    /\ \/ /\ Expired(v)
          /\ visit' = [visit EXCEPT ![v] = [@ EXCEPT !.pc = "deleting"]]
          /\ UNCHANGED <<lastUse, lastAnswer>>
       \/ /\ ~Expired(v) /\ Ageing(v)
          /\ visit' = [visit EXCEPT ![v] =
                          [@ EXCEPT !.pc = "renewing", !.expiresAt = now + Lifetime]]
          /\ lastUse' = [lastUse EXCEPT ![visit[v].token] = now]
          /\ UNCHANGED lastAnswer
       \/ /\ ~Expired(v) /\ ~Ageing(v)
          /\ Answered(v, visit[v].token)
          /\ lastUse' = [lastUse EXCEPT ![visit[v].token] = now]
    /\ UNCHANGED <<sessions, now, issued, crossed>>

(* Delete and update throw when the row is gone.                           *)
DeleteExpired(v) ==
    /\ visit[v].pc = "deleting"
    /\ LET row == SessionWith(visit[v].token) IN
       /\ sessions' = sessions \ row
       /\ visit' = [visit EXCEPT ![v] = IF row = {} THEN Away ELSE Over("refused")]
       /\ crossed' = crossed \cup {s.id : s \in {t \in row : t.expiresAt # visit[v].expiresAt}}
    /\ UNCHANGED <<now, issued, lastUse, lastAnswer>>

(* Mutant: the session is renewed in the answer alone.                     *)
RenewNothing(v) ==
    /\ visit[v].pc = "renewing"
    /\ Answered(v, visit[v].token)
    /\ UNCHANGED <<sessions, now, issued, lastUse, crossed>>

Renew(v) ==
    /\ visit[v].pc = "renewing"
    /\ LET row == SessionWith(visit[v].token) IN
       IF row = {}
       THEN visit' = [visit EXCEPT ![v] = Away] /\ UNCHANGED <<sessions, lastAnswer>>
       ELSE /\ sessions' = (sessions \ row) \cup
                  {[s EXCEPT !.expiresAt = visit[v].expiresAt] : s \in row}
            /\ Answered(v, visit[v].token)
    /\ UNCHANGED <<now, issued, lastUse, crossed>>

(* A query fails, and the request with it.                                 *)
VisitFails(v) ==
    /\ visit[v].pc \in VisitInFlight
    /\ visit' = [visit EXCEPT ![v] = Away]
    /\ UNCHANGED <<sessions, now, issued, lastUse, lastAnswer, crossed>>

(* A tick is days long: a request sees one pass at the most.               *)
Tick ==
    /\ now < MaxTime
    /\ \A v \in Visits : visit[v].pc \in VisitInFlight => visit[v].start = now
    /\ now' = now + 1
    /\ UNCHANGED <<sessions, visit, issued, lastUse, lastAnswer, crossed>>

(* ON DELETE CASCADE.                                                      *)
CascadeSessions(id) ==
    /\ sessions' = {s \in sessions : s.userId # id}
    /\ UNCHANGED <<now, visit, issued, lastUse, lastAnswer, crossed>>

VisitStep(v) ==
    \/ Compare(v) \/ (\E token \in Tokens : createSession(v, token))
    \/ FindSession(v) \/ CheckSession(v) \/ DeleteExpired(v) \/ Renew(v)
    \/ VisitFails(v)
=============================================================================
