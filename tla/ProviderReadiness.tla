--------------------------- MODULE ProviderReadiness ---------------------------
(***************************************************************************)
(* What the settings say of the providers, and what the plugin concludes:  *)
(* which profiles and settings are valid (provider-profile-service.ts,     *)
(* openai-compatible-profiles.ts, utils/settings.ts), which roles are      *)
(* ready (provider-preflight.ts), what the two reports tell the user       *)
(* (provider-readiness-guidance.ts, provider-troubleshooting.ts), and what *)
(* the preflight lets out of the vault (privacy-guard.ts,                  *)
(* capability-selection.ts).                                               *)
(*                                                                         *)
(* A model has the same roles in every profile and at every runtime, with  *)
(* the capabilities of its roles.  The preferences that have no part in a  *)
(* decision about a provider are left out.                                 *)
(***************************************************************************)
EXTENDS Integers, FiniteSets

CONSTANTS
    Users,           \* ids of profiles a user makes
    Baselines,       \* ids of the registry
    BaselineOf,      \* their definitions
    Models,
    RolesOf,         \* the roles a model has
    Endpoints,
    LocalEndpoints,  \* those on this machine
    Refs,            \* references of credentials
    None

Ids == Users \cup Baselines
Roles == {"chat", "embedding", "utility"}
TrustLevels == {"local-runtime", "trusted-cloud", "untrusted-cloud"}
RemoteClasses == {"custom-remote", "trusted-cloud", "untrusted-cloud"}
Classes == RemoteClasses \cup {"local-compatible"}

Profiles ==
    [kind : {"local", "openai-compatible"}, cloud : BOOLEAN, trust : TrustLevels,
     declared : Classes \cup {None}, endpoint : Endpoints,
     ref : Refs \cup {None}, models : SUBSET Models]

(* Where the definition of a provider comes from, with its class if it has one. *)
Definitions ==
    [cloud : BOOLEAN, trust : TrustLevels, class : Classes \cup {None},
     mine : BOOLEAN, models : SUBSET Models]

ASSUME NoneIsNobody == None \notin Ids \cup Models \cup Refs \cup Classes
ASSUME NoneIsNoProfile == None \notin Profiles
ASSUME IdsDiffer == Users \cap Baselines = {}
ASSUME BaselinesAreDefinitions ==
    BaselineOf \in [Baselines -> {d \in Definitions : ~d.mine /\ d.class = None}]
ASSUME BaselinesAreSound ==
    \A b \in Baselines : BaselineOf[b].trust = "local-runtime" <=> ~BaselineOf[b].cloud
ASSUME RolesAreRoles == RolesOf \in [Models -> SUBSET Roles]

Supports(m, role) == role \in RolesOf[m]

(* The first default model that supports the role, or else the first. *)
FirstFor(models, role) ==
    IF \E m \in models : Supports(m, role)
    THEN CHOOSE m \in models : Supports(m, role)
    ELSE None

-----------------------------------------------------------------------------
(* Profiles and settings.                                                  *)

IsLocalHost(e) == e \in LocalEndpoints

ClassOf(profile) ==
    CASE profile.kind = "local" -> None
      [] profile.kind # "local" /\ IsLocalHost(profile.endpoint) -> "local-compatible"
      [] profile.kind # "local" /\ ~IsLocalHost(profile.endpoint) ->
            IF profile.declared \in RemoteClasses THEN profile.declared
            ELSE IF profile.trust = "trusted-cloud" THEN "trusted-cloud" ELSE "untrusted-cloud"

EndpointIsValid(profile) == profile.cloud <=> ~IsLocalHost(profile.endpoint)

KindIsValid(profile) ==
    /\ profile.kind = "local" => ~profile.cloud
    /\ profile.trust = "local-runtime" <=> ~profile.cloud

ModelsAreValid(profile) ==
    /\ profile.models # {}
    /\ profile.kind = "local" =>
          \A role \in {"chat", "embedding"} : \E m \in profile.models : Supports(m, role)

ClassIsValid(profile) ==
    profile.kind = "openai-compatible" =>
        /\ profile.declared = None \/ (profile.declared = "local-compatible" <=>
                                          IsLocalHost(profile.endpoint))
        /\ ClassOf(profile) = "local-compatible" <=> ~profile.cloud
        /\ ClassOf(profile) \in {"trusted-cloud", "untrusted-cloud"} =>
              profile.trust = ClassOf(profile)

CredentialIsValid(profile) ==
    ClassOf(profile) \in RemoteClasses => profile.ref # None

ParseAccepts(profile) ==
    /\ EndpointIsValid(profile)
    /\ KindIsValid(profile)
    /\ ModelsAreValid(profile)
    /\ ClassIsValid(profile)
    /\ CredentialIsValid(profile)

(* What a test of a provider leaves: its result (a timeout and a missing   *)
(* secret count as failed), and the models that were found at a local      *)
(* runtime that is ready.                                                  *)
Results == {"untested", "passed", "failed"}

Statuses ==
    [result : Results, readiness : {"none", "ready", "warning", "not-ready"},
     found : SUBSET Models]

Selections == [provider : Ids \cup {None}, model : Models \cup {None}]

NoSelection == [provider |-> None, model |-> None]

Settings ==
    [profiles : [Ids -> Profiles \cup {None}], trusted : SUBSET Ids, cloud : BOOLEAN,
     statuses : [Ids -> Statuses \cup {None}], roles : [Roles -> Selections]]

DefaultSettings ==
    [profiles |-> [i \in Ids |-> None], trusted |-> {}, cloud |-> FALSE,
     statuses |-> [i \in Ids |-> None], roles |-> [r \in Roles |-> NoSelection]]

ProfileToDefinition(profile) ==
    [cloud |-> profile.cloud, trust |-> profile.trust, class |-> ClassOf(profile),
     mine |-> TRUE, models |-> profile.models]

Registered(s) == Baselines \cup {i \in Ids : s.profiles[i] # None}

(* A profile whose id is in the registry is ignored. *)
Definition(s, i) ==
    IF i \in Baselines THEN BaselineOf[i] ELSE ProfileToDefinition(s.profiles[i])

KeptProfiles(raw) ==
    [i \in Ids |-> IF raw.profiles[i] # None /\ ParseAccepts(raw.profiles[i])
                   THEN raw.profiles[i] ELSE None]

KeptSelection(s, selection) ==
    CASE selection.provider \notin Registered(s) -> NoSelection
      [] selection.provider \in Registered(s) ->
            [selection EXCEPT !.model =
                IF selection.model \in Definition(s, selection.provider).models
                THEN selection.model ELSE None]

(* parsePluginSettings: an unknown id among the trusted ones takes all     *)
(* trust and the cloud with it.                                            *)
ParseSettings(raw) ==
    LET s == [raw EXCEPT !.profiles = KeptProfiles(raw)]
        trustIsKnown == raw.trusted \subseteq Registered(s)
    IN  [s EXCEPT
            !.trusted = IF trustIsKnown THEN raw.trusted ELSE {},
            !.cloud = raw.cloud /\ trustIsKnown,
            !.statuses = [i \in Ids |-> IF i \in Registered(s) THEN raw.statuses[i] ELSE None],
            !.roles = [r \in Roles |-> KeptSelection(s, raw.roles[r])]]

(* The errors of a parse; an id of the registry is not for a profile. *)
ParseHasErrors(raw) ==
    \/ \E i \in Ids : raw.profiles[i] # None /\ (i \in Baselines \/ ~ParseAccepts(raw.profiles[i]))
    \/ ~(raw.trusted \subseteq Registered(raw))
    \/ \E i \in Ids \ Registered(raw) : raw.statuses[i] # None
    \/ \E r \in Roles : KeptSelection(raw, raw.roles[r]) # raw.roles[r]

-----------------------------------------------------------------------------
(* The preflight.                                                          *)

StatusOf(s, i) ==
    IF s.statuses[i] = None THEN [result |-> "untested", readiness |-> "none", found |-> {}]
    ELSE s.statuses[i]

LocalReady(s, i) == StatusOf(s, i).readiness = "ready"

(* Without a model, any model of the role that was found will do. *)
LocalReadyForRole(s, i, role, model) ==
    LET found == {m \in StatusOf(s, i).found : Supports(m, role)} IN
    /\ LocalReady(s, i)
    /\ role # "utility" => IF model = None THEN found # {} ELSE model \in found

IsLocalRuntime(d) == ~d.cloud /\ d.mine /\ d.class = None

AuthReady(s, i) ==
    LET d == Definition(s, i) IN
    \/ ~d.cloud /\ ~d.mine
    \/ IsLocalRuntime(d) /\ LocalReady(s, i)
    \/ (d.cloud \/ d.class # None) /\ StatusOf(s, i).result = "passed"

ModelForRole(d, model, role) ==
    IF model = None THEN FirstFor(d.models, role)
    ELSE IF model \in d.models THEN model ELSE None

IsTrusted(s, i) == i \in s.trusted /\ Definition(s, i).trust = "trusted-cloud"

DecideVaultDisclosure(s, i) ==
    CASE ~Definition(s, i).cloud -> "allowed"
      [] Definition(s, i).cloud /\ ~s.cloud -> "cloud-disabled"
      [] Definition(s, i).cloud /\ s.cloud ->
            IF IsTrusted(s, i) THEN "allowed" ELSE "provider-not-trusted"

SelectProviderModel(d, model, role) ==
    LET chosen == ModelForRole(d, model, role)
    IN  IF chosen = None \/ ~Supports(chosen, role) THEN None ELSE chosen

Denials ==
    {"role-not-selected", "capability-denied", "local-readiness-not-ready",
     "auth-not-ready", "privacy-denied"}

PreflightProviderSetup(s, role) ==
    LET i == s.roles[role].provider
        model == s.roles[role].model
        d == Definition(s, i)
    IN  IF i = None THEN "role-not-selected"
        ELSE IF i \notin Registered(s) THEN "capability-denied"
        ELSE IF IsLocalRuntime(d) /\ ~LocalReadyForRole(s, i, role, model)
             THEN "local-readiness-not-ready"
        ELSE IF ~AuthReady(s, i) THEN "auth-not-ready"
        ELSE IF DecideVaultDisclosure(s, i) # "allowed" THEN "privacy-denied"
        ELSE IF SelectProviderModel(d, model, role) = None THEN "capability-denied"
        ELSE "allowed"

-----------------------------------------------------------------------------
(* What the reports say.                                                   *)

RoleStatus(s, role) ==
    LET i == s.roles[role].provider
        d == Definition(s, i)
        model == ModelForRole(d, s.roles[role].model, role)
    IN  IF i = None THEN "not-selected"
        ELSE IF i \notin Registered(s) THEN "provider-missing"
        ELSE IF model = None THEN "model-missing"
        ELSE IF ~Supports(model, role) THEN "capability-mismatch"
        ELSE IF \/ IsLocalRuntime(d) /\ ~LocalReadyForRole(s, i, role, model)
                \/ d.class # None /\ ~AuthReady(s, i)
             THEN "readiness-not-ready"
        ELSE "ready"

Selected(s) == {s.roles[r].provider : r \in Roles} \ {None}

RolesAt(s, i) == {r \in Roles : s.roles[r].provider = i}

ProblemRoles(s) == {r \in Roles : RoleStatus(s, r) \notin {"not-selected", "ready"}}

SetupSeverity(s) ==
    IF Selected(s) = {} THEN "missing"
    ELSE IF ProblemRoles(s) # {} THEN "error"
    ELSE IF \/ \E i \in Selected(s) : Definition(s, i).cloud /\ ~AuthReady(s, i)
            \/ s.cloud /\ \A i \in Registered(s) : Definition(s, i).cloud => i \notin s.trusted
         THEN "warning"
    ELSE "ready"

(* Whether the semantic index suits a provider, as far as it is known. *)
NoIndex == [provider |-> None, state |-> "unavailable"]

Compatibilities ==
    {NoIndex} \cup [provider : Ids, state : {"eligible", "lexical", "unavailable"}]

(* The path class of a provider: a remote or cloud path leaves the machine. *)
PathClass(d) ==
    CASE d.class # None -> d.class
      [] d.class = None /\ ~d.cloud -> "local-runtime"
      [] d.class = None /\ d.cloud ->
            IF d.trust = "trusted-cloud" THEN "trusted-cloud" ELSE "untrusted-cloud"

LeavesTheMachine(d) == PathClass(d) \in RemoteClasses

LocalityGate(d) == IF PathClass(d) = "untrusted-cloud" THEN "blocked" ELSE "ready"

TrustGate(s, i) ==
    IF ~LeavesTheMachine(Definition(s, i)) THEN "not-required"
    ELSE IF IsTrusted(s, i) THEN "ready" ELSE "blocked"

RuntimeGate(s, i) ==
    CASE StatusOf(s, i).readiness \in {"none", "warning"} -> "warning"
      [] StatusOf(s, i).readiness = "ready" -> "ready"
      [] StatusOf(s, i).readiness = "not-ready" -> "blocked"

AuthGate(s, i) ==
    LET d == Definition(s, i) IN
    IF ~d.cloud /\ ~d.mine THEN "ready"
    ELSE IF IsLocalRuntime(d) THEN RuntimeGate(s, i)
    ELSE IF StatusOf(s, i).result = "passed" THEN "ready"
    ELSE IF StatusOf(s, i).result = "untested" THEN "warning" ELSE "blocked"

CapabilityGate(s, i) ==
    IF RolesAt(s, i) = {} THEN "warning"
    ELSE IF \E r \in RolesAt(s, i) : RoleStatus(s, r) # "ready" THEN "blocked"
    ELSE "ready"

(* A mutant of DisclosureGate: the switch for all clouds is not looked at. *)
DisclosureGateOfTrust(s, i) ==
    IF ~LeavesTheMachine(Definition(s, i)) THEN "not-required"
    ELSE IF ~IsTrusted(s, i) THEN "blocked" ELSE "ready"

DisclosureGate(s, i) ==
    IF ~LeavesTheMachine(Definition(s, i)) THEN "not-required"
    ELSE IF ~s.cloud \/ ~IsTrusted(s, i) THEN "blocked" ELSE "ready"

SemanticGate(semantic, i) ==
    IF semantic.provider # i THEN "unknown"
    ELSE CASE semantic.state = "eligible" -> "ready"
           [] semantic.state = "lexical" -> "warning"
           [] semantic.state = "unavailable" -> "blocked"

(* The gates of a path; those that are blocked or warn are its blockers. *)
Gates(s, semantic, i) ==
    {LocalityGate(Definition(s, i)), TrustGate(s, i), AuthGate(s, i), CapabilityGate(s, i),
     DisclosureGate(s, i), SemanticGate(semantic, i)}

ActiveProviders(s) ==
    {i \in Registered(s) : s.profiles[i] # None \/ s.statuses[i] # None \/ i \in Selected(s)}

GuidanceSeverity(s, semantic) ==
    LET gates == UNION {Gates(s, semantic, i) : i \in ActiveProviders(s)}
    IN  IF ActiveProviders(s) = {} THEN "missing"
        ELSE IF "blocked" \in gates THEN "error"
        ELSE IF "warning" \in gates THEN "warning" ELSE "ready"

(* The diagnostics of the troubleshooting report, by kind and severity. *)
SetupDiagnostics(s) ==
    {[kind |-> "setup", severity |-> v] : v \in {SetupSeverity(s)} \cap {"missing", "warning"}}

AuthDiagnostics(s) ==
    {[kind |-> "auth", severity |-> "error"] :
        i \in {j \in Ids : StatusOf(s, j).result \notin {"passed", "untested"}}}

RuntimeDiagnostics(s) ==
    {[kind |-> "local-runtime",
      severity |-> IF StatusOf(s, i).readiness = "warning" THEN "warning" ELSE "error"] :
        i \in {j \in Ids : StatusOf(s, j).readiness \in {"warning", "not-ready"}}}

RoleDiagnostics(s) ==
    {[kind |-> "role-capability", severity |-> "error"] : r \in ProblemRoles(s)}

DisclosureDiagnostics(s) ==
    {[kind |-> "disclosure",
      severity |-> IF s.cloud /\ Definition(s, i).trust # "trusted-cloud"
                   THEN "error" ELSE "warning"] :
        i \in {j \in Selected(s) \cap Registered(s) :
                  Definition(s, j).cloud /\ (~s.cloud \/ ~IsTrusted(s, j))}}

SemanticDiagnostics(semantic) ==
    {[kind |-> "semantic-compatibility",
      severity |-> IF semantic.state = "lexical" THEN "warning" ELSE "error"] :
        x \in {semantic} \cap {c \in Compatibilities : c.provider # None /\ c.state # "eligible"}}

Diagnostics(s, semantic) ==
    SetupDiagnostics(s) \cup AuthDiagnostics(s) \cup RuntimeDiagnostics(s)
        \cup RoleDiagnostics(s) \cup DisclosureDiagnostics(s) \cup SemanticDiagnostics(semantic)

(* The item of the status view: the worst of the setup, of what was tested *)
(* and of the diagnostics.                                                 *)
ProviderItemSeverity(s, semantic) ==
    LET fails == \/ \E i \in Ids : StatusOf(s, i).result = "failed"
                 \/ \E r \in Roles : RoleStatus(s, r) \in
                       {"provider-missing", "model-missing", "capability-mismatch"}
        all == {d.severity : d \in Diagnostics(s, semantic)}
                 \cup {IF fails THEN "error" ELSE SetupSeverity(s)}
    IN  CASE "error" \in all -> "error"
          [] "error" \notin all /\ "warning" \in all -> "warning"
          [] all \cap {"error", "warning"} = {} ->
                IF "missing" \in all THEN "missing" ELSE "ready"

(* Whenever the guidance or the status view tells the user that all is     *)
(* ready, the preflight of every selected role lets private content        *)
(* through: neither hides what will be denied.                             *)
ReportsAgree(s) ==
    (\E role \in Roles : /\ s.roles[role].provider # None
                         /\ PreflightProviderSetup(s, role) # "allowed") =>
        \A semantic \in Compatibilities :
            /\ GuidanceSeverity(s, semantic) # "ready"
            /\ ProviderItemSeverity(s, semantic) # "ready"

=============================================================================
