---------------------------- MODULE WidgetAccess ----------------------------
(* How a visitor of an embedding page comes to act as an account: the popup asks *)
(* for a one-time code, the widget exchanges it for a credential bound to a site  *)
(* and to the epoch of the comment mode, and every request with the credential   *)
(* is checked against what holds then. Modes, sites and accounts change under    *)
(* way; every read of them is a step.                                            *)
EXTENDS Naturals, FiniteSets

CONSTANTS
  WidgetSites, WidgetOrigins, WidgetUsers,
  Issues, Exchanges, Visits,  \* first-party requests for a code, exchanges, widget requests
  MaxWidgetChanges            \* bound: changes of mode, sites and accounts

ASSUME WidgetAssumption == MaxWidgetChanges \in Nat

VARIABLES
  widgetPolicy,  \* [mode, epoch], what CommentPolicy and WidgetConfig read in one snapshot
  siteRow,       \* site -> [status, origins]; a deleted site is "gone"
  account,       \* user -> [role, status], what Resolve returns
  authCode,      \* issue -> the code it stored
  issue,         \* issue -> its progress
  exchange,      \* exchange -> its progress
  cookies,       \* credentials signed so far
  visit,         \* visit -> its progress
  changes        \* bound
widgetVars == <<widgetPolicy, siteRow, account, authCode, issue, exchange, cookies, visit, changes>>

Modes == {"anonymous", "authenticated"}
NoCode == [state |-> "none"]
Unused == [pc |-> "new"]
Closed(how) == [pc |-> "done", how |-> how]

WidgetInit ==
  /\ widgetPolicy \in [mode : Modes, epoch : {0}]
  /\ siteRow = [s \in WidgetSites |-> [status |-> "active", origins |-> WidgetOrigins]]
  /\ account \in [WidgetUsers -> [role : {"user", "admin"}, status : {"active"}]]
  /\ authCode = [i \in Issues |-> NoCode]
  /\ issue = [i \in Issues |-> Unused] /\ exchange = [x \in Exchanges |-> Unused]
  /\ visit = [v \in Visits |-> Unused]
  /\ cookies = {} /\ changes = 0

(* ---- what changes under way ---- *)
Change == changes < MaxWidgetChanges /\ changes' = changes + 1
(* A change of the mode raises the epoch in the same transaction (see Settings). *)
ChangeMode ==
  /\ Change
  /\ \E m \in Modes \ {widgetPolicy.mode} : widgetPolicy' = [mode |-> m, epoch |-> widgetPolicy.epoch + 1]
  /\ UNCHANGED <<siteRow, account, authCode, issue, exchange, cookies, visit>>
ChangeAccount(u) ==
  /\ Change
  /\ \E a \in [role : {"user", "admin"}, status : {"active", "disabled"}] \ {account[u]} :
       account' = [account EXCEPT ![u] = a]
  /\ UNCHANGED <<widgetPolicy, siteRow, authCode, issue, exchange, cookies, visit>>
SetSite(s, row) ==
  /\ Change /\ siteRow[s].status # "gone" /\ siteRow' = [siteRow EXCEPT ![s] = row]
  /\ UNCHANGED <<widgetPolicy, account, authCode, issue, exchange, cookies, visit>>
UpdateSite(s) == \E st \in {"active", "disabled"} : SetSite(s, [siteRow[s] EXCEPT !.status = st])
(* Origins belong to the site and go with it.                                    *)
DeleteSite(s) == SetSite(s, [status |-> "gone", origins |-> {}])
AddOrigin(s) == \E o \in WidgetOrigins \ siteRow[s].origins : SetSite(s, [siteRow[s] EXCEPT !.origins = @ \cup {o}])
UpdateOrigin(s) ==
  \E o \in siteRow[s].origins, n \in WidgetOrigins \ siteRow[s].origins :
    SetSite(s, [siteRow[s] EXCEPT !.origins = (@ \ {o}) \cup {n}])
RemoveOrigin(s) == \E o \in siteRow[s].origins : SetSite(s, [siteRow[s] EXCEPT !.origins = @ \ {o}])

(* ---- rules ---- *)
AllowedOrigins(s) == IF siteRow[s].status = "active" THEN siteRow[s].origins ELSE {}
FirstPartyAllowed(mode, role) == mode = "anonymous" => role = "admin"
PopupAuthorizationAllowed(mode, role) ==
  role = "admin" \/ (mode = "authenticated" /\ role = "user")
WidgetRoleAllowed(mode, role) ==
  role = "admin" \/ (mode = "authenticated" /\ role = "user")

(* ---- the popup: POST /comment-authorizations ---- *)
GoIssue(i, from, r) == issue[i].pc = from /\ issue' = [issue EXCEPT ![i] = r]
OnlyIssue == UNCHANGED <<widgetPolicy, siteRow, account, exchange, cookies, visit, changes>>

(* The session's principal is resolved once; the handler passes its role on.     *)
BeginIssue(i, u, s, o) ==
  /\ issue[i].pc = "new"
  /\ GoIssue(i, "new", IF account[u].status # "active" THEN Closed("forbidden")
                       ELSE [pc |-> "gate", user |-> u, role |-> account[u].role, site |-> s, origin |-> o, mode |-> ""])
  /\ OnlyIssue /\ UNCHANGED authCode
RequireUser(i) ==
  /\ issue[i].pc = "gate"
  /\ GoIssue(i, "gate", IF FirstPartyAllowed(widgetPolicy.mode, issue[i].role)
                        THEN [issue[i] EXCEPT !.pc = "policy"] ELSE Closed("anonymous_mode_restricted"))
  /\ OnlyIssue /\ UNCHANGED authCode
ReadIssuePolicy(i) ==
  /\ issue[i].pc = "policy"
  /\ GoIssue(i, "policy", IF PopupAuthorizationAllowed(widgetPolicy.mode, issue[i].role)
                          THEN [issue[i] EXCEPT !.pc = "site", !.mode = widgetPolicy.mode] ELSE Closed("forbidden"))
  /\ OnlyIssue /\ UNCHANGED authCode
(* The site is read, then its origins; the second read asks for an active site   *)
(* again, so it alone decides.                                                   *)
CheckIssueSite(i) ==
  /\ issue[i].pc = "site"
  /\ GoIssue(i, "site", IF issue[i].origin \in AllowedOrigins(issue[i].site)
                        THEN [issue[i] EXCEPT !.pc = "store"] ELSE Closed("forbidden"))
  /\ OnlyIssue /\ UNCHANGED authCode
Held == {i \in Issues : authCode[i].state \in {"good", "late"}}
(* The namespace holds a thousand codes; other people's may have filled it.      *)
StoreCode(i) ==
  /\ issue[i].pc = "store"
  /\ \/ GoIssue(i, "store", Closed("unavailable")) /\ UNCHANGED authCode
     \/ /\ GoIssue(i, "store", Closed("created"))
        /\ authCode' = [authCode EXCEPT ![i] =
             [state |-> "good", user |-> issue[i].user, site |-> issue[i].site, origin |-> issue[i].origin, mode |-> issue[i].mode]]
  /\ OnlyIssue
(* Time: the expiry in the record was taken before the store set its own.        *)
CodeAges(i) ==
  /\ authCode[i].state \in {"good", "late"}
  /\ authCode' = [authCode EXCEPT ![i].state = IF @ = "good" THEN "late" ELSE "gone"]
  /\ OnlyIssue /\ UNCHANGED issue

(* ---- the widget: POST /comment-authorizations/exchange ---- *)
GoExchange(x, from, r) == exchange[x].pc = from /\ exchange' = [exchange EXCEPT ![x] = r]
OnlyExchange == UNCHANGED <<widgetPolicy, siteRow, account, issue, visit, changes>>
NotExchanged == Closed("invalid_credentials")

(* Consuming comes first: a code is spent whatever is wrong with the request.    *)
ConsumeCode(x, i, o) ==
  /\ exchange[x].pc = "new"
  /\ GoExchange(x, "new", IF authCode[i].state = "good" /\ authCode[i].origin = o
                          THEN [pc |-> "site", code |-> i, record |-> authCode[i], policy |-> widgetPolicy] ELSE NotExchanged)
  /\ authCode' = [authCode EXCEPT ![i].state = IF i \in Held THEN "gone" ELSE @]
  /\ OnlyExchange /\ UNCHANGED cookies
CheckExchangeSite(x) ==
  /\ exchange[x].pc = "site"
  /\ GoExchange(x, "site", IF exchange[x].record.origin \in AllowedOrigins(exchange[x].record.site)
                           THEN [exchange[x] EXCEPT !.pc = "policy"] ELSE NotExchanged)
  /\ OnlyExchange /\ UNCHANGED <<authCode, cookies>>
ReadExchangePolicy(x) ==
  /\ exchange[x].pc = "policy"
  /\ GoExchange(x, "policy", IF exchange[x].record.mode = widgetPolicy.mode
                             THEN [exchange[x] EXCEPT !.pc = "principal", !.policy = widgetPolicy] ELSE NotExchanged)
  /\ OnlyExchange /\ UNCHANGED <<authCode, cookies>>
ResolveAuthorizer(x) ==
  /\ exchange[x].pc = "principal"
  /\ LET a == account[exchange[x].record.user] IN
       GoExchange(x, "principal", IF a.status = "active" /\ PopupAuthorizationAllowed(exchange[x].record.mode, a.role)
                                  THEN [exchange[x] EXCEPT !.pc = "sign"] ELSE NotExchanged)
  /\ OnlyExchange /\ UNCHANGED <<authCode, cookies>>
(* The credential carries the epoch read with the mode.                          *)
SignedEpochLate(x) == widgetPolicy.epoch
SignedEpoch(x) == exchange[x].policy.epoch
SignWidget(x) ==
  /\ exchange[x].pc = "sign"
  /\ GoExchange(x, "sign", Closed("signed"))
  /\ cookies' = cookies \cup
       {[by |-> x, code |-> exchange[x].code, user |-> exchange[x].record.user, site |-> exchange[x].record.site,
         mode |-> exchange[x].record.mode, epoch |-> SignedEpoch(x)]}
  /\ OnlyExchange /\ UNCHANGED authCode

(* ---- requests with the credential ---- *)
(* Routes: whether the credential is required, and whether the origin is asked   *)
(* for again. Reading routes ask neither; unlike and unpin go the way of like     *)
(* and pin.                                                                      *)
Routes == {"list", "create", "like", "pin", "delete"}
CredentialRequired(r) == r \notin {"list", "create"}
OriginRequired(r) == r # "list"
GoVisit(v, from, r) == visit[v].pc = from /\ visit' = [visit EXCEPT ![v] = r]
OnlyVisit == UNCHANGED <<widgetPolicy, siteRow, account, authCode, issue, exchange, cookies, changes>>

(* A credential that does not hold is refused where one is required; elsewhere    *)
(* the request goes on as nobody's.                                              *)
Anonymous(v) == [visit[v] EXCEPT !.pc = "origin", !.cred = Unused, !.role = "none"]
Fails(v, how) == IF CredentialRequired(visit[v].route) THEN Closed(how) ELSE Anonymous(v)

(* c is the credential the cookie holds, Unused a missing or unverifiable one. s *)
(* is the site the path names; deletion names none and takes the credential's.   *)
BeginVisit(v, r, s, c, o) ==
  /\ visit[v].pc = "new"
  /\ r = "delete" /\ c # Unused => s = c.site
  /\ visit' = [visit EXCEPT ![v] =
       IF c = Unused /\ CredentialRequired(r) THEN Closed("unauthorized")
       ELSE [pc |-> IF c = Unused THEN "origin" ELSE "config", route |-> r, site |-> s, cred |-> c, role |-> "none",
             origin |-> o, mode |-> "", began |-> widgetPolicy.epoch]]
  /\ OnlyVisit
ReadWidgetConfig(v) ==
  /\ visit[v].pc = "config"
  /\ GoVisit(v, "config", IF visit[v].cred.epoch = widgetPolicy.epoch
                          THEN [visit[v] EXCEPT !.pc = "principal", !.mode = widgetPolicy.mode]
                          ELSE Fails(v, "widget_credential_invalid"))
  /\ OnlyVisit
ResolveVisitor(v) ==
  /\ visit[v].pc = "principal"
  /\ LET a == account[visit[v].cred.user] IN
       GoVisit(v, "principal",
         IF ~(a.status = "active" /\ WidgetRoleAllowed(visit[v].mode, a.role)) THEN Fails(v, "widget_credential_invalid")
         ELSE IF visit[v].site # visit[v].cred.site THEN Fails(v, "forbidden")
         ELSE [visit[v] EXCEPT !.pc = "origin", !.role = a.role])
  /\ OnlyVisit
RequireAllowedOrigin(v) ==
  /\ visit[v].pc = "origin"
  /\ GoVisit(v, "origin", IF OriginRequired(visit[v].route) /\ visit[v].origin \notin AllowedOrigins(visit[v].site)
                          THEN Closed("forbidden") ELSE [visit[v] EXCEPT !.pc = "serve"])
  /\ OnlyVisit
(* The handler: pinning asks for the role the gate resolved, the others act for  *)
(* the credential's user on the site; what they do there is CommentStore's.      *)
Serve(v) ==
  /\ visit[v].pc = "serve"
  /\ GoVisit(v, "serve", IF visit[v].route = "pin" /\ visit[v].role # "admin" THEN Closed("forbidden")
                         ELSE [visit[v] EXCEPT !.pc = "served"])
  /\ OnlyVisit

WidgetNext ==
  \/ ChangeMode
  \/ \E u \in WidgetUsers : ChangeAccount(u)
  \/ \E s \in WidgetSites : UpdateSite(s) \/ DeleteSite(s) \/ AddOrigin(s) \/ UpdateOrigin(s) \/ RemoveOrigin(s)
  \/ \E i \in Issues :
       \/ \E u \in WidgetUsers, s \in WidgetSites, o \in WidgetOrigins : BeginIssue(i, u, s, o)
       \/ RequireUser(i) \/ ReadIssuePolicy(i) \/ CheckIssueSite(i) \/ StoreCode(i) \/ CodeAges(i)
  \/ \E x \in Exchanges :
       \/ \E i \in Issues, o \in WidgetOrigins : ConsumeCode(x, i, o)
       \/ CheckExchangeSite(x) \/ ReadExchangePolicy(x) \/ ResolveAuthorizer(x) \/ SignWidget(x)
  \/ \E v \in Visits :
       \/ \E r \in Routes, s \in WidgetSites, c \in cookies \cup {Unused}, o \in WidgetOrigins : BeginVisit(v, r, s, c, o)
       \/ ReadWidgetConfig(v) \/ ResolveVisitor(v) \/ RequireAllowedOrigin(v) \/ Serve(v)

WidgetSpec == WidgetInit /\ [][WidgetNext]_widgetVars

(* A code becomes one credential at most. A credential the gate would take for   *)
(* its epoch was authorised under the mode in force (widget_session.go: the mode *)
(* is compared and the epoch is taken from one reading of the settings). A       *)
(* request served as somebody came with a credential of the site it acts on,     *)
(* whose epoch was not over when the request began.                              *)
CredentialsEarned ==
  /\ \A c, d \in cookies : c.code = d.code => c = d
  /\ \A c \in cookies : c.epoch = widgetPolicy.epoch => c.mode = widgetPolicy.mode
  /\ \A v \in Visits : visit[v].pc = "served" /\ visit[v].cred # Unused =>
       visit[v].site = visit[v].cred.site /\ visit[v].cred.epoch >= visit[v].began
=============================================================================
