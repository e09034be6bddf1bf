----------------------------- MODULE MCServices -----------------------------
(* Components that do not share state, checked side by side: every behaviour    *)
(* belongs to one of them and leaves the others as they are.                     *)
EXTENDS RateLimiter, Settings, WidgetAccess, ThreadPages, SpamCheck, ArtalkImport

CONSTANTS p1, p2  \* rate limiter: a policy and one that is not registered

VARIABLE part
Parts == {"limiter", "settings", "widget", "pages", "spam", "artalk"}

------------------------------------------------------------------------------
(* Limiter and settings *)
MCRate == p1 :> 2 @@ p2 :> 0

Submission(key, kind, enabled, config) == [key |-> key, kind |-> kind, enabled |-> enabled, config |-> config]
CaptchaForm == "provider" :> "turnstile" @@ "site_key" :> "a" @@ "secret_key" :> "s"
RegionForm == "region" :> "r"
MCSubmissions ==
  {Submission("turnstile", "captcha", FALSE, CaptchaForm),
   Submission("turnstile", "oidc", TRUE, "client_id" :> "c" @@ "issuer_url" :> "i" @@ "client_secret" :> "s"),
   Submission("spam.aliyun", "spam", TRUE, RegionForm @@ "access_key_id" :> "i" @@ "access_key_secret" :> "s"),
   Submission("spam.aliyun", "spam", TRUE, RegionForm),
   Submission("spam.aliyun", "spam", FALSE, RegionForm),
   Submission("notification.feishu", "notification", TRUE, "webhook_url" :> "u" @@ "signing_secret" :> "k"),
   Submission("notification.feishu", "notification", TRUE, "signing_secret" :> Null),
   Submission("notification.feishu", "notification", FALSE, <<>>)}
  \cup {Submission("apple", "oidc", TRUE, "client_id" :> "c" @@ "team_id" :> "t" @@ c) :
          c \in {<<>>, "key_id" :> "k" @@ "private_key" :> "p"}}
Patch(m, o, c) == [mode |-> m, other |-> o, captcha |-> c]
MCPatches == {Patch("anonymous", Keep, Keep), Patch("authenticated", Keep, Keep), Patch(Keep, "x", "turnstile"),
              Patch("nobody", Keep, Keep), Patch(Keep, Invalid, Keep)}
NoRows == [k \in {s.key : s \in MCSubmissions} |-> NoProvider]
MCFirstRows ==
  {NoRows,
   [NoRows EXCEPT !["turnstile"] = [CaptchaRow("turnstile", CaptchaForm) EXCEPT !.version = LegacyEnvelope]]}

------------------------------------------------------------------------------
(* Keyword files that share no word, overlap and contain each other's suffixes *)
MCKeywordFiles ==
  {<<{<<"x", "y", "x">>}, {<<"y", "x", "x">>}>>,
   <<{<<"y">>}, {<<"x", "x", "x">>}>>,
   <<{<<"x", "x", "y", "y">>}, {<<"x", "y", "x">>, <<"y", "x">>}>>}
MCTexts == {<<"x", "y", "y", "x", "x">>, <<"x", "x", "y", "x">>}
(* The automaton finds in these texts exactly the words of these lists. *)
ASSUME MatcherAgrees == MatcherCorrect
MCDetectors ==
  {[local |-> TRUE, action |-> "spam", akismet |-> TRUE, cloud |-> {"aliyun", "tencent"}],
   [local |-> FALSE, action |-> "pending", akismet |-> TRUE, cloud |-> {}]}

------------------------------------------------------------------------------
(* Exports of three records: every way of replying, over one or two sites and pages *)
MCShapes ==
  {[site |-> <<1, 1, 1>>, page |-> <<1, 1, 1>>, origin |-> <<"o1", "o2", "o1">>],
   [site |-> <<1, 2, 1>>, page |-> <<1, 1, 2>>, origin |-> <<"o1", NoOrigin, "o2">>],
   [site |-> <<1, 2, 2>>, page |-> <<1, 1, 1>>, origin |-> <<"o1", "o3", "o1">>],
   [site |-> <<1, 1, 1>>, page |-> <<1, 1, 2>>, origin |-> <<NoOrigin, NoOrigin, NoOrigin>>]}
MCExports ==
  {[n \in 1..3 |-> [rid |-> r[n], site |-> s.site[n], page |-> s.page[n], origin |-> s.origin[n],
                    author |-> IF n = 2 THEN 2 ELSE 1, pending |-> n = 3, created |-> 4 - n]] :
     r \in [1..3 -> {0, 1, 2, 3, 9}], s \in MCShapes}
MCScore == "o1" :> 3 @@ "o2" :> 3 @@ "o3" :> 2
MCFirstSites == {<<>>, <<"o1">>, <<"o2", "o2">>}

------------------------------------------------------------------------------
(* A part a behaviour does not belong to stands in one of its initial states *)
OneExport == [n \in 1..3 |-> [rid |-> 0, site |-> 1, page |-> 1, origin |-> "o1", author |-> 1, pending |-> FALSE, created |-> 1]]
OnePost == [thread |-> 1, parent |-> NoPost, depth |-> 0, published |-> TRUE, pinned |-> FALSE, created |-> 1]
PagesAtRest == posts = <<OnePost, OnePost>> /\ likes = {} /\ pageThread = 1 /\ walk = Unread /\ edits = 0
ArtalkAtRest ==
  /\ export = OneExport /\ targetSites = <<>> /\ allowed = {} /\ members = [a \in AllAuthors |-> 0]
  /\ pages = {} /\ imported = <<>> /\ runs = 0
MCInit ==
  /\ part \in Parts
  /\ LimiterInit
  /\ SettingsInit /\ (part # "settings" => dialect = "sqlite" /\ providers = NoRows)
  /\ WidgetInit /\ (part # "widget" => widgetPolicy.mode = "anonymous" /\ account = [u \in WidgetUsers |-> [role |-> "user", status |-> "active"]])
  /\ SpamInit /\ (part # "spam" => files[1].words[1] = {<<"y">>})
  /\ IF part = "pages" THEN PagesInit ELSE PagesAtRest
  /\ IF part = "artalk" THEN ArtalkInit ELSE ArtalkAtRest

Only(p) == part = p /\ UNCHANGED part
MCNext ==
  \/ Only("limiter") /\ LimiterNext
     /\ UNCHANGED <<settingsVars, widgetVars, pagesVars, spamVars, artalkVars>>
  \/ Only("settings") /\ SettingsNext
     /\ UNCHANGED <<limiterVars, widgetVars, pagesVars, spamVars, artalkVars>>
  \/ Only("widget") /\ WidgetNext
     /\ UNCHANGED <<limiterVars, settingsVars, pagesVars, spamVars, artalkVars>>
  \/ Only("pages") /\ PagesNext
     /\ UNCHANGED <<limiterVars, settingsVars, widgetVars, spamVars, artalkVars>>
  \/ Only("spam") /\ SpamNext
     /\ UNCHANGED <<limiterVars, settingsVars, widgetVars, pagesVars, artalkVars>>
  \/ Only("artalk") /\ ArtalkNext
     /\ UNCHANGED <<limiterVars, settingsVars, widgetVars, pagesVars, spamVars>>

MCSpec ==
  MCInit /\ [][MCNext]_<<part, limiterVars, settingsVars, widgetVars, pagesVars, spamVars, artalkVars>>

(* Requests only differ by their identity. *)
ServicesSymmetry == Permutations(LimiterCalls)
=============================================================================
