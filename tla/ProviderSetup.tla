----------------------------- MODULE ProviderSetup -----------------------------
(***************************************************************************)
(* The settings of providers as the user works on them (settings-tab.ts),  *)
(* as they are tested (provider-auth-test.ts), saved and loaded (main.ts,  *)
(* utils/settings.ts), and as they let a provider be called.               *)
(*                                                                         *)
(* The settings in memory change once the file is written; of two saves at *)
(* a time the second is dropped.  Credentials live in memory only; a test  *)
(* asks for the one of its profile when it begins.                         *)
(***************************************************************************)
EXTENDS ProviderReadiness, ProviderInvocation

CONSTANTS
    Unreadable,  \* a settings file that is torn, or no JSON
    Files,       \* what the settings file holds at first
    OldRefs,     \* references of the files: their credentials are gone
    MaxRefs,     \* bound: credentials in memory
    MaxTests     \* bound: tests in course

VARIABLES
    running,   \* the plugin is loaded
    settings,  \* this.settings
    disk,      \* the settings file: None when there is none
    saving,    \* the save in course
    secrets,   \* references of the credentials in memory
    tests      \* the tests in course: of a provider, or (None) of all

vars == <<running, settings, disk, saving, secrets, tests, calls>>

NoSave == [by |-> "nobody", next |-> DefaultSettings]
Savers == {"toggle", "save-profile", "delete", "test", "reset"}

TestKeys == Users \cup {None}
NoTest == [todo |-> {}, got |-> {}, on |-> FALSE]
Untested == [id : Ids, profile : Profiles, has : BOOLEAN]
Tested == [id : Ids, status : Statuses]

ASSUME KeysAreRoles == Keys \subseteq Roles
ASSUME UnreadableIsNoFile == Unreadable # None /\ Unreadable \notin Settings
ASSUME FilesAreSettings == \A f \in Files : f = None \/ f = Unreadable \/ f \in Settings
ASSUME OldRefsAreRefs == OldRefs \subseteq Refs
ASSUME BoundsAreCounts == MaxRefs \in Nat /\ MaxTests \in Nat

TypeOK ==
    /\ running \in BOOLEAN
    /\ settings \in Settings
    /\ disk = None \/ disk = Unreadable \/ disk \in Settings
    /\ saving \in [by : Savers \cup {"nobody"}, next : Settings]
    /\ secrets \subseteq Refs
    /\ tests \in [TestKeys -> [todo : SUBSET Untested, got : SUBSET Tested, on : BOOLEAN]]
    /\ InvocationTypeOK

Init ==
    /\ running = FALSE /\ settings = DefaultSettings
    /\ disk \in Files
    /\ saving = NoSave /\ secrets = {}
    /\ tests = [k \in TestKeys |-> NoTest]
    /\ InitCalls

-----------------------------------------------------------------------------
(* Loading and saving.                                                     *)

Load ==
    /\ ~running
    /\ running' = TRUE
    /\ settings' = IF disk \in {None, Unreadable} THEN DefaultSettings ELSE ParseSettings(disk)
    /\ UNCHANGED <<disk, saving, secrets, tests, calls>>

(* persist: settings that do not parse are refused, as is a second save. *)
Saves(next) == saving = NoSave /\ ~ParseHasErrors(next)

Persist(next, by) ==
    saving' = IF Saves(next) THEN [by |-> by, next |-> next] ELSE saving

SaveEnds(onDisk, inMemory) ==
    /\ running /\ saving # NoSave
    /\ disk' = onDisk /\ settings' = inMemory
    /\ saving' = NoSave
    /\ tests' = [k \in TestKeys |-> IF tests[k].todo = {} THEN NoTest ELSE tests[k]]
    /\ UNCHANGED <<running, secrets, calls>>

SaveLands == SaveEnds(saving.next, saving.next)
SaveFails == \E torn \in {disk, Unreadable} : SaveEnds(torn, settings)

(* The plugin ends, with a save that may be whole, torn or not begun. *)
Unload ==
    /\ running
    /\ running' = FALSE
    /\ disk' \in {disk} \cup IF saving = NoSave THEN {} ELSE {saving.next, Unreadable}
    /\ saving' = NoSave /\ secrets' = {}
    /\ tests' = [k \in TestKeys |-> NoTest]
    /\ calls' = [k \in Keys |-> NoCall]
    /\ settings' = DefaultSettings

(* What the user does in the tab goes no further than a save. *)
Edit(next, by) ==
    /\ running
    /\ Persist(next, by)
    /\ UNCHANGED <<running, settings, disk, secrets, tests, calls>>

ActionInFlight ==
    saving.by \notin {"nobody", "toggle"} \/ \E k \in TestKeys : tests[k].on

-----------------------------------------------------------------------------
(* Profiles.                                                               *)

(* What the form makes of its fields. *)
Form(kind, endpoint, models) ==
    [kind |-> kind, cloud |-> kind # "local",
     trust |-> IF kind = "local" THEN "local-runtime" ELSE "trusted-cloud",
     declared |-> None, endpoint |-> endpoint, ref |-> None, models |-> models]

FormModels ==
    {{c, e} : c \in {m \in Models : RolesOf[m] = {"chat"}},
              e \in {m \in Models : RolesOf[m] = {"embedding"}}}

(* The profile is parsed before it has a reference, and again with it. *)
FormIsAccepted(profile, ref) ==
    ParseAccepts(profile) /\ ParseAccepts([profile EXCEPT !.ref = ref])

WithoutModels(roles, i) ==
    [r \in Roles |-> IF roles[r].provider = i THEN [roles[r] EXCEPT !.model = None] ELSE roles[r]]

(* A mutant of Replaced: the trust in the old profile is kept. *)
ReplacedWithTrust(s, i, profile) ==
    [s EXCEPT !.profiles[i] = profile, !.statuses[i] = None, !.roles = WithoutModels(@, i)]

Replaced(s, i, profile) ==
    [s EXCEPT !.profiles[i] = profile, !.trusted = @ \ {i}, !.statuses[i] = None,
              !.roles = WithoutModels(@, i)]

SaveProfile(i, kind, endpoint, models) ==
    LET profile == Form(kind, endpoint, models) IN
    /\ running /\ saving.by # "save-profile"
    /\ \E ref \in {None} \cup (Refs \ (secrets \cup OldRefs)) :
          /\ ref # None => Cardinality(secrets) < MaxRefs
          /\ FormIsAccepted(profile, ref)
          /\ secrets' = secrets \cup ({ref} \ {None})
          /\ Persist(Replaced(settings, i, [profile EXCEPT !.ref = ref]), "save-profile")
    /\ UNCHANGED <<running, settings, disk, tests, calls>>

(* The credential goes first, and stays away when the save is refused. *)
DeleteReference(i) ==
    /\ running /\ settings.profiles[i] # None /\ settings.profiles[i].ref # None
    /\ secrets' = secrets \ {settings.profiles[i].ref}
    /\ Persist([settings EXCEPT !.profiles[i].ref = None, !.statuses[i] = None], "delete")
    /\ UNCHANGED <<running, settings, disk, tests, calls>>

DeleteProfile(i) ==
    /\ running /\ settings.profiles[i] # None
    /\ secrets' = secrets \ {settings.profiles[i].ref}
    /\ Persist([settings EXCEPT
                   !.profiles[i] = None, !.trusted = @ \ {i}, !.statuses[i] = None,
                   !.roles = [r \in Roles |-> IF @[r].provider = i THEN NoSelection ELSE @[r]]],
               "delete")
    /\ UNCHANGED <<running, settings, disk, tests, calls>>

-----------------------------------------------------------------------------
(* Tests.                                                                  *)

Probe(profile) ==
    {[result |-> "passed", readiness |-> "ready", found |-> f] :
        f \in {ms \in SUBSET Models : \A r \in {"chat", "embedding"} :
                  \E m \in ms : Supports(m, r)}}
    \cup
    {[result |-> "failed", readiness |-> v, found |-> {}] : v \in {"warning", "not-ready"}}

(* What a test may find; the probe of a remote provider calls nobody. *)
TestResults(profile, has) ==
    CASE ~profile.cloud /\ profile.kind = "local" -> Probe(profile)
      [] ~profile.cloud /\ profile.kind # "local" ->
            {[result |-> "failed", readiness |-> "not-ready", found |-> {}]}
      [] profile.cloud ->
            {[result |-> IF has THEN "passed" ELSE "failed",
              readiness |-> "none", found |-> {}]}

(* Tests of one action run one after the other: what is left has the       *)
(* credentials of now, for one of it begins.                               *)
Begun(todo) ==
    {[id |-> u.id, profile |-> u.profile, has |-> u.profile.ref \in secrets] : u \in todo}

BeginTests(k, ids) ==
    /\ running /\ ~tests[k].on
    /\ Cardinality({j \in TestKeys : tests[j].on}) < MaxTests
    /\ ids # {}
    /\ tests' = [tests EXCEPT ![k] =
                    [todo |-> Begun({[id |-> i, profile |-> settings.profiles[i]] : i \in ids}),
                     got |-> {}, on |-> TRUE]]
    /\ UNCHANGED <<running, settings, disk, saving, secrets, calls>>

Test(i) == BeginTests(i, {i} \cap {j \in Ids : settings.profiles[j] # None})

Retest ==
    /\ ~ActionInFlight
    /\ BeginTests(None, {j \in Ids : settings.profiles[j] # None})

Statused(s, got) ==
    [s EXCEPT !.statuses =
        [i \in Ids |-> IF \E t \in got : t.id = i
                       THEN (CHOOSE t \in got : t.id = i).status ELSE @[i]]]

(* A test has ended; the last one of its action saves what all have found. *)
TestEnds(k) ==
    /\ running
    /\ \E u \in tests[k].todo : \E status \in TestResults(u.profile, u.has) :
          LET got == tests[k].got \cup {[id |-> u.id, status |-> status]}
              next == Statused(settings, got)
              last == tests[k].todo = {u}
          IN  /\ tests' = [tests EXCEPT ![k] =
                              IF last /\ ~Saves(next) THEN NoTest
                              ELSE [tests[k] EXCEPT !.todo = Begun(@ \ {u}), !.got = got]]
              /\ IF last THEN Persist(next, "test") ELSE UNCHANGED saving
    /\ UNCHANGED <<running, settings, disk, secrets, calls>>

-----------------------------------------------------------------------------
(* Choices, and calls.                                                     *)

ToggleTrust(i) ==
    /\ i \in Registered(settings)
    /\ Definition(settings, i).cloud /\ Definition(settings, i).trust = "trusted-cloud"
    /\ Edit([settings EXCEPT !.trusted = IF i \in @ THEN @ \ {i} ELSE @ \cup {i}], "toggle")

ToggleCloud == Edit([settings EXCEPT !.cloud = ~@], "toggle")

SelectProvider(role, i) ==
    /\ i \in Registered(settings) \cup {None}
    /\ Edit([settings EXCEPT !.roles[role] = [provider |-> i, model |-> None]], "toggle")

SelectModel(role, m) ==
    /\ settings.roles[role].provider \in Registered(settings)
    /\ m \in Definition(settings, settings.roles[role].provider).models \cup {None}
    /\ Edit([settings EXCEPT !.roles[role].model = m], "toggle")

ResetProviders ==
    /\ ~ActionInFlight
    /\ \E i \in Ids : settings.statuses[i] # None
    /\ Edit([settings EXCEPT !.statuses = [i \in Ids |-> None],
                             !.roles = [r \in Roles |-> [@[r] EXCEPT !.model = None]]],
            "reset")

ResetRuntimeSettings == Edit(DefaultSettings, "toggle")

(* The key of a call is that of its role here. *)
Ask(role) ==
    /\ running
    /\ PreflightProviderSetup(settings, role) = "allowed"
    /\ Begin(role)
    /\ UNCHANGED <<running, settings, disk, saving, secrets, tests>>

Invoke(role) ==
    InvocationStep(role) /\ UNCHANGED <<running, settings, disk, saving, secrets, tests>>

Next ==
    \/ Load \/ Unload \/ SaveLands \/ SaveFails
    \/ \E i \in Ids :
          \/ \E kind \in {"local", "openai-compatible"}, e \in Endpoints, ms \in FormModels :
                SaveProfile(i, kind, e, ms)
          \/ DeleteReference(i) \/ DeleteProfile(i)
          \/ ToggleTrust(i)
    \/ \E i \in Users : Test(i)
    \/ Retest
    \/ \E k \in TestKeys : TestEnds(k)
    \/ ToggleCloud \/ ResetProviders \/ ResetRuntimeSettings
    \/ \E role \in Keys :
          \/ \E i \in Ids \cup {None} : SelectProvider(role, i)
          \/ \E m \in Models \cup {None} : SelectModel(role, m)
          \/ Ask(role) \/ Invoke(role)

Spec == Init /\ [][Next]_vars

(* The timers of the calls fire as long as the plugin is there. *)
FairSpec == Spec /\ InvocationFairness

-----------------------------------------------------------------------------
(* Properties.                                                             *)

(* Whatever the settings come to be, a report that says all is ready is    *)
(* one the preflight agrees with.                                          *)
ReadyMeansAllowed == ReportsAgree(settings)

(* Trust is for the endpoint it was given to: a provider that is trusted   *)
(* is still one that may be, and never the local profile that took its     *)
(* place; a settings file that is read again says no more.                 *)
TrustIsForTheCloud ==
    \A s \in {settings} \cup {ParseSettings(f) : f \in {disk} \ {None, Unreadable}} :
        \A i \in s.trusted : i \in Registered(s) /\ Definition(s, i).trust = "trusted-cloud"

(* docs/provider-setup.md:101-106: an OpenAI-compatible provider that is   *)
(* not local is set up by entering its endpoint and a credential, and      *)
(* saving the profile.                                                     *)
DocumentedProfileIsSaved ==
    running => \A e \in Endpoints \ LocalEndpoints, ms \in FormModels :
        \E ref \in Refs : FormIsAccepted(Form("openai-compatible", e, ms), ref)

=============================================================================
