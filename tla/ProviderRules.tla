--------------------------- MODULE ProviderRules ----------------------------
(* What a provider configuration must look like (service/setting/provider.go and  *)
(* the catalog of platform/oauth): which fields are public and which are secret,    *)
(* what a submission needs, and what an update keeps of the row it replaces.        *)
(* A submission maps field names to values: Blank, Invalid (a URL or an action that *)
(* is refused), Null (an explicit null) or anything else, which is well formed.     *)
EXTENDS TLC, FiniteSets

Blank == ""
Invalid == "invalid"
Null == "null"

Envelope == "v2"        \* masterKeyVersion
LegacyEnvelope == "v1"  \* written by an earlier release

CaptchaKeys == {"turnstile", "recaptcha", "hcaptcha", "cap"}

NotificationFields ==
  LET spec(p, s, o) == [public |-> p, secret |-> s, optional |-> o]
      webhook == {"webhook_url"}
      signing == {"signing_secret"} IN
  "notification.telegram" :> spec({}, {"bot_token", "chat_id"}, {}) @@
  "notification.feishu" :> spec({}, webhook, signing) @@
  "notification.dingtalk" :> spec({}, webhook, signing) @@
  "notification.bark" :> spec({"server_url"}, {"device_key"}, {}) @@
  "notification.slack" :> spec({}, webhook, {}) @@
  "notification.line" :> spec({}, {"channel_access_token", "target_id"}, {}) @@
  "notification.webhook" :> spec({}, webhook, signing) @@
  "notification.discord" :> spec({}, webhook, {})

SpamFields ==
  LET spec(p, s, b) == [public |-> p, secret |-> s, binary |-> b] IN
  "spam.local" :> spec({"check_nickname", "action"}, {}, TRUE) @@
  "spam.akismet" :> spec({"action"}, {"api_key"}, TRUE) @@
  "spam.aliyun" :> spec({"region", "biz_type"}, {"access_key_id", "access_key_secret"}, FALSE) @@
  "spam.tencent" :> spec({"region", "biz_type"}, {"secret_id", "secret_key"}, FALSE)

(* oauth.Catalog: kind, public fields, the secret field, preset public values and    *)
(* how the instance URL is filled in.                                                 *)
AuthCatalog ==
  LET spec(k, p, f, i) == [kind |-> k, public |-> {"client_id"} \cup p, secret |-> "client_secret",
                           fixed |-> f, instance |-> i]
      none == <<>> IN
  "apple" :> [spec("oidc", {"team_id", "key_id"}, none, "unused") EXCEPT !.secret = "private_key"] @@
  "discord" :> spec("oauth", {}, none, "unused") @@
  "gitea" :> spec("oidc", {"instance_url"}, none, "required") @@
  "github" :> spec("oauth", {"auth_url", "token_url"},
                   "auth_url" :> "github authorize" @@ "token_url" :> "github token", "unused") @@
  "gitlab" :> spec("oidc", {"instance_url"}, none, "default") @@
  "google" :> spec("oidc", {"issuer_url"}, "issuer_url" :> "google issuer", "unused") @@
  "line" :> spec("oidc", {}, none, "unused") @@
  "mastodon" :> spec("oauth", {"instance_url"}, none, "required") @@
  "microsoft" :> spec("oidc", {}, none, "unused") @@
  "twitter" :> spec("oauth", {}, none, "unused")

CustomOIDC == [kind |-> "oidc", public |-> {"client_id", "issuer_url"}, secret |-> "client_secret",
               fixed |-> <<>>, instance |-> "unused"]
AuthSpec(key) == IF key \in DOMAIN AuthCatalog THEN AuthCatalog[key] ELSE CustomOIDC

SpamKeys == DOMAIN SpamFields
NotificationKeys == DOMAIN NotificationFields

(* validateProviderKey: the names OAuth and CAPTCHA providers may not have.           *)
ReservedKey(key) == key \in {Blank, "captcha"} \cup SpamKeys \cup NotificationKeys

-----------------------------------------------------------------------------
(* Rows.  NoSecret stands for an empty ciphertext, Refused for a validation error.    *)
NoSecret == <<>>
NoProvider == [kind |-> "none", enabled |-> FALSE, public |-> <<>>, secret |-> NoSecret, version |-> Blank]
Refused == [NoProvider EXCEPT !.kind = "refused"]

Given(in, f) == IF f \in DOMAIN in THEN in[f] ELSE Blank
Filled(in, f) == Given(in, f) # Blank
Part(in, fields) == [f \in {g \in fields : Filled(in, g)} |-> in[f]]

(* decryptSecretEnvelope: only the current envelope version opens. *)
Opens(row) == row.secret # NoSecret /\ row.version = Envelope
Row(kind, enabled, public, secret) ==
  [kind |-> kind, enabled |-> enabled, public |-> public, secret |-> secret,
   version |-> IF secret = NoSecret THEN Blank ELSE Envelope]

(* The secret of an update that gives none: the envelope of the row it replaces.      *)
KeepSecret(row, old) == [row EXCEPT !.secret = old.secret, !.version = old.version]

(* CaptchaConfig.Validate and splitConfig *)
CaptchaOk(key, in) ==
  /\ key \in CaptchaKeys /\ Given(in, "provider") = key
  /\ Filled(in, "site_key") /\ Filled(in, "secret_key")
  /\ Given(in, "endpoint") # Invalid
  /\ key = "cap" => Filled(in, "endpoint")

CaptchaRow(key, in) ==
  IF ~CaptchaOk(key, in) THEN Refused
  ELSE Row("captcha", FALSE, Part(in, {"provider", "site_key", "endpoint"}), Part(in, {"secret_key"}))

(* applyAuthConfigDefaults and the default of validateAuthConfig *)
AuthFilled(key, in) ==
  LET spec == AuthSpec(key)
      preset == IF spec.instance = "default" /\ ~Filled(in, "instance_url")
                THEN "instance_url" :> "gitlab.com" ELSE <<>> IN
  spec.fixed @@ preset @@ in

AuthOk(key, kind, in) ==
  LET spec == AuthSpec(key) IN
  /\ kind = spec.kind /\ Filled(in, "client_id")
  /\ spec.instance = "required" => Filled(in, "instance_url")
  /\ Given(in, "instance_url") # Invalid
  /\ key = "apple" => Filled(in, "team_id") /\ (Filled(in, "private_key") => Filled(in, "key_id"))
  /\ key \notin DOMAIN AuthCatalog => Given(in, "issuer_url") \notin {Blank, Invalid}

(* UpsertAuth: a new row needs its secret, an update may leave it out. *)
AuthRow(key, kind, enabled, in, old) ==
  LET full == AuthFilled(key, in)
      row == Row(kind, enabled, Part(full, AuthSpec(key).public), Part(full, {AuthSpec(key).secret})) IN
  IF ~AuthOk(key, kind, full) THEN Refused
  ELSE IF row.secret # NoSecret THEN row
  ELSE IF old.kind \in {"oauth", "oidc"} /\ old.secret # NoSecret THEN KeepSecret(row, old)
  ELSE Refused

(* validateSpamConfig; the keyword file of spam.local is there.  A secret is given as  *)
(* a whole or not at all (secretSpamConfig).                                           *)
SpamOk(key, in) ==
  LET spec == SpamFields[key] IN
  /\ spec.binary => Given(in, "action") \in {"pending", "spam"}
  /\ key \in {"spam.aliyun", "spam.tencent"} => Filled(in, "region")
  /\ Part(in, spec.secret) # NoSecret => \A f \in spec.secret : Filled(in, f)

(* validateSpamRunnable *)
SpamRunnable(key, row) ==
  IF key = "spam.local" THEN Given(row.public, "action") \in {"pending", "spam"} ELSE row.secret # NoSecret

SpamRow(key, enabled, in, old) ==
  LET new == Row("spam", enabled, Part(in, SpamFields[key].public), Part(in, SpamFields[key].secret))
      row == IF new.secret = NoSecret /\ old.kind = "spam" THEN KeepSecret(new, old) ELSE new IN
  IF SpamOk(key, in) /\ (enabled => SpamRunnable(key, row)) THEN row ELSE Refused

(* effectiveNotificationConfig: field by field, a blank keeps what is stored; the       *)
(* optional signing secret goes with an explicit null.                                  *)
Merged(key, in, old) ==
  LET spec == NotificationFields[key]
      stored == IF old.kind = "notification" THEN old.secret @@ old.public ELSE <<>>
      kept == Part(in, spec.public \cup spec.secret \cup spec.optional) @@ stored IN
  Part(kept, {f \in DOMAIN kept : f \notin spec.optional \/ kept[f] # Null})

(* validateNotificationConfig, which is also what an enabled channel needs. *)
NotificationOk(key, cfg) ==
  LET spec == NotificationFields[key] IN
  /\ \A f \in spec.public \cup spec.secret : Filled(cfg, f)
  /\ \A f \in {"webhook_url", "server_url"} : Given(cfg, f) # Invalid

(* UpsertNotification: a stored secret that does not open refuses every update. *)
NotificationRow(key, enabled, in, old) ==
  LET spec == NotificationFields[key]
      cfg == Merged(key, in, old) IN
  IF (old.kind = "notification" => Opens(old)) /\ NotificationOk(key, cfg)
  THEN Row("notification", enabled, Part(cfg, spec.public), Part(cfg, spec.secret \cup spec.optional))
  ELSE Refused

(* The three upserts that look at the row they replace. *)
Replacement(key, kind, enabled, in, old) ==
  CASE kind = "captcha" -> IF ReservedKey(key) THEN Refused ELSE CaptchaRow(key, in)
    [] kind \in {"oauth", "oidc"} -> IF ReservedKey(key) THEN Refused ELSE AuthRow(key, kind, enabled, in, old)
    [] kind = "spam" -> IF key \in SpamKeys THEN SpamRow(key, enabled, in, old) ELSE Refused
    [] kind = "notification" ->
         IF key \in NotificationKeys THEN NotificationRow(key, enabled, in, old) ELSE Refused

(* convertRecords: one envelope of the migration tool. *)
Converted(row) == IF row.version = LegacyEnvelope THEN [row EXCEPT !.version = Envelope] ELSE row
=============================================================================
