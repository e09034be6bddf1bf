------------------------------ MODULE Settings ------------------------------
(* Instance settings and provider configurations (service/setting, repository/       *)
(* settings.go): one table of rows, a cached snapshot of the typed settings, and      *)
(* administrators who read, check and write in separate statements.                   *)
EXTENDS ProviderRules, Naturals

CONSTANTS
  Admins,         \* requests under way
  Patches,        \* bodies of PATCH /admin/settings: mode, other, captcha; Keep leaves a key out
  Submissions,    \* bodies of PUT /admin/providers: key, kind, enabled, config
  FirstRows,      \* provider rows the instance may start with
  Keep, Nothing,
  MaxSettingWrites \* bound on committed writes

ProviderKeys == {s.key : s \in Submissions}

(* The handler knows five kinds; rows of the past were validated like those to come. *)
ASSUME SettingsConstants ==
  /\ MaxSettingWrites \in Nat
  /\ \A s \in Submissions : s.kind \in {"captcha", "oauth", "oidc", "spam", "notification"}
  /\ \A f \in FirstRows :
       /\ DOMAIN f = ProviderKeys
       /\ \A k \in ProviderKeys :
            DOMAIN f[k] = DOMAIN NoProvider /\ f[k] # Refused /\ (f[k].kind = "captcha" => ~ReservedKey(k))

VARIABLES
  dialect,   \* "sqlite": transactions are serial; "postgres": statement by statement
  typed,     \* committed rows: comment_mode, everything else, captcha_provider, epoch, consent
  providers, \* committed provider rows
  snapshot,  \* Service.cached, or Nothing
  loading,   \* the snapshot a Get holds the mutex for, or Nothing
  step, work,   \* next step of a request and what it carries
  stalled,   \* administrators whose write is committed and whose invalidation is not done
  writes

settingsVars == <<dialect, typed, providers, snapshot, loading, step, work, stalled, writes>>

DefaultTyped == [mode |-> "anonymous", other |-> "default", captcha |-> Blank, epoch |-> 0, consent |-> 1]
NoWork == [what |-> Nothing, old |-> NoProvider, key |-> Blank, clear |-> FALSE]

(* Rows that are missing are seeded with their defaults by whoever comes first. *)
SettingsInit ==
  /\ dialect \in {"sqlite", "postgres"}
  /\ typed = DefaultTyped /\ providers \in FirstRows
  /\ snapshot = Nothing /\ loading = Nothing
  /\ step = [a \in Admins |-> "idle"] /\ work = [a \in Admins |-> NoWork]
  /\ stalled = {} /\ writes = 0

-----------------------------------------------------------------------------
(* Transactions.  SQLite lets one at a time read and write; on PostgreSQL only the    *)
(* rows that a request has locked wait for it.                                         *)
InTransaction(a) == step[a] \in {"checkSelection", "lockMode", "writePatch", "lockConsent", "writeConsent",
                                 "readSelection", "writeDelete", "convert"}
Alone(a) == dialect = "sqlite" => \A b \in Admins \ {a} : ~InTransaction(b)
(* Faulty variant: comment_mode and the epoch are read without FOR UPDATE. *)
ModeLockedNever(a) == FALSE

ModeLocked(a) == \E b \in Admins \ {a} : step[b] = "writePatch" /\ work[b].what.mode # Keep
ConsentLocked(a) == \E b \in Admins \ {a} : step[b] = "writeConsent"

Go(a, s, w) == step' = [step EXCEPT ![a] = s] /\ work' = [work EXCEPT ![a] = w]
End(a) == Go(a, "idle", NoWork)
Still == UNCHANGED <<dialect, typed, providers, snapshot, loading, stalled, writes>>

(* What SelectedCaptcha returns, Refused for an error. *)
CaptchaProvider(key) ==
  IF key \in ProviderKeys /\ providers[key].kind = "captcha" /\ Opens(providers[key])
  THEN providers[key] ELSE Refused

(* applyItems and Validate: the settings a patch results in must be valid as a whole. *)
Set(old, new) == IF new = Keep THEN old ELSE new
Applied(t, p) == [t EXCEPT !.mode = Set(@, p.mode), !.other = Set(@, p.other), !.captcha = Set(@, p.captcha)]
Valid(t) == t.mode \in {"anonymous", "authenticated"} /\ t.other # Invalid
PatchOk(p) == (\E k \in {"mode", "other", "captcha"} : p[k] # Keep) /\ Valid(Applied(typed, p))

BeginPatch(a, p) ==
  /\ step[a] = "idle" /\ Alone(a) /\ writes < MaxSettingWrites /\ PatchOk(p)
  /\ Go(a, IF p.captcha # Keep THEN "checkSelection" ELSE IF p.mode # Keep THEN "lockMode" ELSE "writePatch",
        [NoWork EXCEPT !.what = p])
  /\ Still

(* ValidateSelection *)
CheckSelection(a) ==
  /\ step[a] = "checkSelection"
  /\ LET p == work[a].what IN
     IF p.captcha # Blank /\ CaptchaProvider(p.captcha) = Refused THEN End(a)
     ELSE Go(a, IF p.mode # Keep THEN "lockMode" ELSE "writePatch", work[a])
  /\ Still

LockMode(a) ==
  /\ step[a] = "lockMode" /\ ~ModeLocked(a)
  /\ Go(a, "writePatch", [work[a] EXCEPT !.clear = typed.mode # work[a].what.mode])
  /\ Still

(* work.clear: the mode changes, so the epoch of widget credentials is raised. *)
Patched(a) == [Applied(typed, work[a].what) EXCEPT !.epoch = IF work[a].clear THEN @ + 1 ELSE @]

Committed(a) == stalled' = stalled \cup {a} /\ writes' = writes + 1 /\ Go(a, "invalidate", NoWork)

WritePatch(a) ==
  /\ step[a] = "writePatch" /\ (work[a].what.mode # Keep => ~ModeLocked(a))
  /\ typed' = Patched(a) /\ Committed(a)
  /\ UNCHANGED <<dialect, providers, snapshot, loading>>

(* ResetLegalConsent *)
BeginReset(a) ==
  /\ step[a] = "idle" /\ Alone(a) /\ writes < MaxSettingWrites
  /\ Go(a, "lockConsent", NoWork) /\ Still

(* Faulty variant: the version is read without FOR UPDATE. *)
LockConsentReading(a) ==
  /\ step[a] = "lockConsent"
  /\ Go(a, "writeConsent", [NoWork EXCEPT !.what = typed.consent + 1]) /\ Still

LockConsent(a) ==
  /\ step[a] = "lockConsent" /\ ~ConsentLocked(a)
  /\ Go(a, "writeConsent", [NoWork EXCEPT !.what = typed.consent + 1]) /\ Still

WriteConsent(a) ==
  /\ step[a] = "writeConsent"
  /\ typed' = [typed EXCEPT !.consent = work[a].what] /\ Committed(a)
  /\ UNCHANGED <<dialect, providers, snapshot, loading>>

-----------------------------------------------------------------------------
(* Providers.  An upsert reads the row it replaces before its transaction; the         *)
(* snapshot does not hold providers, so only a deletion invalidates it.                 *)
BeginUpsert(a, s) ==
  /\ step[a] = "idle" /\ writes < MaxSettingWrites
  /\ LET row == Replacement(s.key, s.kind, s.enabled, s.config, providers[s.key]) IN
     row # Refused /\ Go(a, "writeProvider", [NoWork EXCEPT !.old = row, !.key = s.key])
  /\ Still

WriteProvider(a) ==
  /\ step[a] = "writeProvider" /\ Alone(a)
  /\ providers' = [providers EXCEPT ![work[a].key] = work[a].old]
  /\ writes' = writes + 1 /\ End(a)
  /\ UNCHANGED <<dialect, typed, snapshot, loading, stalled>>

BeginDelete(a, key) ==
  /\ step[a] = "idle" /\ Alone(a) /\ writes < MaxSettingWrites
  /\ Go(a, IF providers[key].kind = "captcha" THEN "readSelection" ELSE "writeDelete", [NoWork EXCEPT !.key = key])
  /\ Still

(* Faulty variant: a deletion leaves the selection alone. *)
ReadSelectionNever(a) ==
  /\ step[a] = "readSelection" /\ Go(a, "writeDelete", work[a]) /\ Still

(* clearSelectionIfSelected *)
ReadSelection(a) ==
  /\ step[a] = "readSelection"
  /\ Go(a, "writeDelete", [work[a] EXCEPT !.clear = typed.captcha = work[a].key]) /\ Still

(* Nothing to delete is an error, and rolls the cleared selection back. *)
WriteDelete(a) ==
  /\ step[a] = "writeDelete"
  /\ IF providers[work[a].key].kind = "none" THEN End(a) /\ Still
     ELSE /\ providers' = [providers EXCEPT ![work[a].key] = NoProvider]
          /\ typed' = [typed EXCEPT !.captcha = IF work[a].clear THEN Blank ELSE @]
          /\ Committed(a) /\ UNCHANGED <<dialect, snapshot, loading>>

(* migrate-provider-secrets --execute: every envelope or none. *)
MigrateSecrets(a) ==
  /\ step[a] = "idle" /\ Alone(a) /\ writes < MaxSettingWrites
  /\ \E k \in ProviderKeys : providers[k].version = LegacyEnvelope
  /\ providers' = [k \in ProviderKeys |-> Converted(providers[k])]
  /\ writes' = writes + 1
  /\ UNCHANGED <<dialect, typed, snapshot, loading, step, work, stalled>>

(* A cancelled context, a lost connection or a refused statement before the commit. *)
Cancel(a) == step[a] \notin {"idle", "invalidate"} /\ End(a) /\ Still

-----------------------------------------------------------------------------
(* The snapshot: Get loads it under the mutex that Invalidate takes too. *)
View(t) == [mode |-> t.mode, other |-> t.other, captcha |-> t.captcha, epoch |-> t.epoch, consent |-> t.consent]

LoadSnapshot ==
  /\ snapshot = Nothing /\ loading = Nothing
  /\ loading' = View(typed)
  /\ UNCHANGED <<dialect, typed, providers, snapshot, step, work, stalled, writes>>

StoreSnapshot ==
  /\ loading # Nothing /\ snapshot' = loading /\ loading' = Nothing
  /\ UNCHANGED <<dialect, typed, providers, step, work, stalled, writes>>

(* Faulty variant: the invalidation does not wait for a load under way. *)
InvalidateAtOnce(a) ==
  /\ step[a] = "invalidate"
  /\ snapshot' = Nothing /\ stalled' = stalled \ {a} /\ End(a)
  /\ UNCHANGED <<dialect, typed, providers, loading, writes>>

Invalidate(a) ==
  /\ step[a] = "invalidate" /\ loading = Nothing
  /\ snapshot' = Nothing /\ stalled' = stalled \ {a} /\ End(a)
  /\ UNCHANGED <<dialect, typed, providers, loading, writes>>

(* The process stops: open transactions are rolled back and the cache is gone. *)
RestartSettings ==
  /\ snapshot' = Nothing /\ loading' = Nothing /\ stalled' = {}
  /\ step' = [a \in Admins |-> "idle"] /\ work' = [a \in Admins |-> NoWork]
  /\ UNCHANGED <<dialect, typed, providers, writes>>

SettingsNext ==
  \/ \E a \in Admins :
       \/ \E p \in Patches : BeginPatch(a, p)
       \/ CheckSelection(a) \/ LockMode(a) \/ WritePatch(a)
       \/ BeginReset(a) \/ LockConsent(a) \/ WriteConsent(a)
       \/ \E s \in Submissions : BeginUpsert(a, s)
       \/ WriteProvider(a)
       \/ \E k \in ProviderKeys : BeginDelete(a, k)
       \/ ReadSelection(a) \/ WriteDelete(a)
       \/ MigrateSecrets(a) \/ Cancel(a) \/ Invalidate(a)
  \/ LoadSnapshot \/ StoreSnapshot \/ RestartSettings

SettingsSpec == SettingsInit /\ [][SettingsNext]_settingsVars

-----------------------------------------------------------------------------
(* Types of the settings and of what requests carry. *)
SettingsTypeOK ==
  /\ typed.mode \in {"anonymous", "authenticated"} /\ typed.epoch \in 0..writes
  /\ typed.consent \in 1..(writes + 1)
  /\ \A k \in ProviderKeys : providers[k] # Refused
  /\ stalled = {a \in Admins : step[a] = "invalidate"}

(* Whatever a Get returns from its cache is what is committed, except between a       *)
(* commit and its invalidation (service.go Get, Patch, Invalidate).                     *)
SnapshotFresh ==
  stalled = {} => /\ snapshot # Nothing => snapshot = View(typed)
                  /\ loading # Nothing => loading = View(typed)

(* The epoch of the widget credentials goes up by one exactly when the comment mode    *)
(* changes, whichever patches run at once.                                               *)
EpochFollowsMode ==
  [][typed'.epoch = IF typed'.mode # typed.mode THEN typed.epoch + 1 ELSE typed.epoch]_settingsVars

(* Every reset of the legal consent is one version of its own: none is lost.            *)
ConsentsCounted ==
  [][\A a \in Admins : WriteConsent(a) => typed'.consent = typed.consent + 1]_settingsVars

(* On SQLite a selection is of a captcha provider that can be used, and no deletion,     *)
(* update or migration makes it useless: only a login provider put under the very same    *)
(* key takes its row (provider.go Delete, ValidateSelection, UpsertAuth).                  *)
SelectionOpens == typed.captcha # Blank => CaptchaProvider(typed.captcha) # Refused
LoginTakes(key) == providers'[key].kind \in {"oauth", "oidc"}
SelectionUsable ==
  [][dialect = "sqlite" =>
       /\ typed'.captcha # typed.captcha => SelectionOpens'
       /\ SelectionOpens => SelectionOpens' \/ LoginTakes(typed.captcha)]_settingsVars

=============================================================================
