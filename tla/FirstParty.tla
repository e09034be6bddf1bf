----------------------------- MODULE FirstParty ------------------------------
(* First-party requests over HTTP: the middleware verifies the session a request  *)
(* carries and resolves its principal from the cache, a gate judges it, and only  *)
(* then the handler acts, while other requests change the account.                *)
(* A change commits, drops the cached principal and then answers; the steps of    *)
(* those, and the lock under which a principal is loaded, are AdminAccounts'.     *)
EXTENDS Naturals

CONSTANTS
  Holders,     \* accounts
  Clicks,      \* requests under way at a time
  MaxRewrites  \* bound: changes of accounts, ever

ASSUME FirstPartyAssumption == MaxRewrites \in Nat

VARIABLES
  holder,      \* account -> its row, [role, status, version]; status "gone" without one
  principal,   \* account -> the cached principal, NotCached for none
  click,       \* request -> its progress
  rewrites     \* changes so far
firstPartyVars == <<holder, principal, click, rewrites>>

AccountInfo(role, status, version) == [role |-> role, status |-> status, version |-> version]
NotCached == AccountInfo("none", "none", 0)
NoClick == [pc |-> "none"]
Exists(u) == holder[u].status # "gone"

(* A session is its account and the version it was signed with. A client presents *)
(* any it was ever given, after a logout too, or none.                             *)
Session(u, v) == [user |-> u, version |-> v]
NoSession == Session("nobody", 0)
Sessions == {NoSession} \cup UNION {{Session(u, v) : v \in 1..holder[u].version} : u \in Holders}

(* ---- routes: who may use them, and what their handlers do to accounts ---- *)
Route(gate, effect) == [gate |-> gate, effect |-> effect]
AuthRoutes == {Route("anybody", e) : e \in {"serve", "reset password"}}
MeRoutes == {Route("user", e) : e \in {"serve", "set password", "revoke sessions"}}
CommentRoutes == {Route("user", "serve")}
AdminUserRoutes == {Route("admin", e) : e \in {"serve", "update", "delete", "restore", "set password of"}}
AdminCommentRoutes == {Route("admin", "serve")}
AdminRoutes == AdminUserRoutes \cup AdminCommentRoutes
AllRoutes == AuthRoutes \cup MeRoutes \cup CommentRoutes \cup AdminRoutes

(* What may be taken for the truth about an account: its row, and what a change    *)
(* that has not been answered yet replaced.                                        *)
Unanswered(u) == {r \in Clicks : click[r].pc = "invalidate" /\ click[r].target = u}
Admissible(u) == {holder[u]} \cup {click[r].was : r \in Unanswered(u)}

Become(r, rec) == click' = [click EXCEPT ![r] = rec]
End(r) == Become(r, NoClick)

(* `known` is history: everything admissible about the account since the request.  *)
Send(r, route, session) ==
  /\ click[r] = NoClick
  /\ Become(r, [pc |-> "sent", route |-> route, session |-> session,
                known |-> IF session = NoSession \/ route.gate = "anybody" THEN {} ELSE Admissible(session.user)])
  /\ UNCHANGED <<holder, principal, rewrites>>

(* ---- middleware ---- *)
Sent(r) == click[r].pc = "sent"
Admit(r) ==
  Become(r, [pc |-> "act", effect |-> click[r].route.effect,
             self |-> IF click[r].route.gate = "anybody" THEN "nobody" ELSE click[r].session.user])
(* Nobody passes no gate, but what anybody may use: without a session, without an  *)
(* account, and with a session of another version.                                 *)
AsNobody(r) == IF click[r].route.gate = "anybody" THEN Admit(r) ELSE End(r)
NoClaims(r) == Sent(r) /\ click[r].session = NoSession /\ AsNobody(r) /\ UNCHANGED <<holder, principal, rewrites>>

(* RequireUser lets users in while the mode does, RequireAdmin administrators.     *)
RequireUser(info, adminsOnly) == info.status = "active" /\ (info.role = "admin" \/ ~adminsOnly)
RequireAdmin(info) == info.status = "active" /\ info.role = "admin"
Permitted(gate, info, adminsOnly) ==
  CASE gate = "anybody" -> TRUE
    [] gate = "user" -> RequireUser(info, adminsOnly)
    [] gate = "admin" -> RequireAdmin(info)

SessionMatches(session, info) == session.version = info.version
Resolved(u) == IF principal[u] # NotCached THEN principal[u] ELSE holder[u]
ResolvePrincipal(r) ==
  LET u == click[r].session.user  info == Resolved(u) IN
  /\ Sent(r) /\ click[r].session # NoSession
  /\ principal' = IF info.status = "gone" THEN principal ELSE [principal EXCEPT ![u] = info]
  /\ IF info.status = "gone" \/ ~SessionMatches(click[r].session, info) THEN AsNobody(r)
     ELSE \E adminsOnly \in BOOLEAN :
            IF Permitted(click[r].route.gate, info, adminsOnly) THEN Admit(r) ELSE End(r)
  /\ UNCHANGED <<holder, rewrites>>
(* An error of the cache or the database, a missing CSRF token, an invalid request *)
(* and a request over its budget change nothing.                                   *)
Refused(r) == click[r].pc \in {"sent", "act"} /\ End(r) /\ UNCHANGED <<holder, principal, rewrites>>

(* ---- handlers ---- *)
Acting(r, effect) == click[r].pc = "act" /\ click[r].effect = effect
Serve(r) == Acting(r, "serve") /\ End(r) /\ UNCHANGED <<holder, principal, rewrites>>

(* A change commits; requests that were sent before may take either for the truth. *)
Learn(q, u, info) ==
  IF Sent(q) /\ click[q].session.user = u THEN [click[q] EXCEPT !.known = @ \cup {info}] ELSE click[q]
CommitChange(r, u, info) ==
  /\ rewrites < MaxRewrites /\ rewrites' = rewrites + 1
  /\ Exists(u) /\ info # holder[u]
  /\ holder' = [holder EXCEPT ![u] = info]
  /\ click' = [q \in Clicks |->
       IF q = r THEN [pc |-> "invalidate", target |-> u, was |-> holder[u]] ELSE Learn(q, u, info)]
  /\ UNCHANGED principal
Renewed(u) == [holder[u] EXCEPT !.version = @ + 1]
Self(r) == click[r].self
ChangePassword(r) == Acting(r, "set password") /\ CommitChange(r, Self(r), Renewed(Self(r)))
RevokeSessions(r) == Acting(r, "revoke sessions") /\ CommitChange(r, Self(r), Renewed(Self(r)))
ResetWithCode(r, u) == Acting(r, "reset password") /\ CommitChange(r, u, Renewed(u))
AdminUpdate(r, u, role, status) ==
  Acting(r, "update") /\ CommitChange(r, u, [holder[u] EXCEPT !.role = role, !.status = status])
(* Nobody removes himself.                                                         *)
AdminDelete(r, u, status) ==
  Acting(r, "delete") /\ u # Self(r) /\ CommitChange(r, u, [holder[u] EXCEPT !.status = status])
AdminRestore(r, u, status) ==
  Acting(r, "restore") /\ holder[u].status = "deleted" /\ CommitChange(r, u, [holder[u] EXCEPT !.status = status])
AdminResetPassword(r, u) == Acting(r, "set password of") /\ CommitChange(r, u, Renewed(u))

DroppedNever(u) == principal
Dropped(u) == [principal EXCEPT ![u] = NotCached]
(* The answer follows; if the cache fails, the process stops instead.              *)
InvalidateAuthz(r) ==
  /\ click[r].pc = "invalidate" /\ principal' = Dropped(click[r].target) /\ End(r)
  /\ UNCHANGED <<holder, rewrites>>

PrincipalExpires(u) ==
  /\ principal[u] # NotCached /\ principal' = [principal EXCEPT ![u] = NotCached]
  /\ UNCHANGED <<holder, click, rewrites>>

FirstPartyInit ==
  /\ holder \in [Holders -> {AccountInfo(role, "active", 1) : role \in {"user", "admin"}}]
  /\ principal = [u \in Holders |-> NotCached]
  /\ click = [r \in Clicks |-> NoClick] /\ rewrites = 0
FirstPartyNext ==
  \/ \E r \in Clicks :
       \/ \E route \in AllRoutes, session \in Sessions : Send(r, route, session)
       \/ NoClaims(r) \/ ResolvePrincipal(r) \/ Refused(r) \/ Serve(r)
       \/ ChangePassword(r) \/ RevokeSessions(r) \/ InvalidateAuthz(r)
       \/ \E u \in Holders :
            \/ ResetWithCode(r, u) \/ AdminResetPassword(r, u)
            \/ \E status \in {"active", "disabled"} :
                 \/ AdminRestore(r, u, status) \/ \E role \in {"user", "admin"} : AdminUpdate(r, u, role, status)
            \/ \E status \in {"deleted", "gone"} : AdminDelete(r, u, status)
  \/ \E u \in Holders : PrincipalExpires(u)
FirstPartySpec == FirstPartyInit /\ [][FirstPartyNext]_firstPartyVars

Admitted(r) == click[r].pc = "sent" /\ click'[r].pc = "act" /\ click[r].route.gate # "anybody"
Earns(session, gate, info) ==
  info.version = session.version /\ info.status = "active" /\ (gate = "admin" => info.role = "admin")
(* A request is served as somebody only with a session of the version the account  *)
(* had, and only if the account was active - and an administrator's, for what asks  *)
(* for one - at some moment of the request, or until a change that nobody has been  *)
(* answered yet: once a password change, a revocation, a demotion or a removal is   *)
(* answered, no request sent later acts by what it ended.                           *)
ActsAsEarned ==
  [][\A r \in Clicks : Admitted(r) =>
       \E info \in click[r].known : Earns(click[r].session, click[r].route.gate, info)]_firstPartyVars
=============================================================================
