------------------------- MODULE ProviderSetupProofs -------------------------
(***************************************************************************)
(* Theorems about ProviderSetup: the calls, for any number of roles and    *)
(* attempts and whatever is done with the settings while they run; and the *)
(* settings, for any providers, models, endpoints, credentials and files.  *)
(***************************************************************************)
EXTENDS ProviderSetup, TLAPS

(* A call that was aborted is in a pause: every other one ends at once.     *)
AbortedPauses == \A k \in Keys : calls[k].aborted => calls[k].stage = "pausing"

(* A call pauses only if it has an attempt left.                            *)
PausesForAttempt ==
    \A k \in Keys : calls[k].stage = "pausing" => calls[k].attempt < MaxAttempts

CallInv == InvocationTypeOK /\ AbortedPauses /\ PausesForAttempt

LEMMA NoCallIsCall ==
  NoCall \in Calls /\ NoCall.stage = "none" /\ NoCall.aborted = FALSE
BY MaxAttemptsIsCount DEF NoCall, Calls

LEMMA CallInvInit == InitCalls => CallInv
BY NoCallIsCall DEF InitCalls, CallInv, InvocationTypeOK, AbortedPauses, PausesForAttempt

(* A step of one call preserves the invariant if its new state is of the    *)
(* type, and paused when it has to be.                                      *)
LEMMA CallInvStep ==
  ASSUME CallInv, NEW k \in Keys, NEW call \in Calls, calls' = [calls EXCEPT ![k] = call],
         call.aborted => call.stage = "pausing",
         call.stage = "pausing" => call.attempt < MaxAttempts
  PROVE  CallInv'
BY DEF CallInv, InvocationTypeOK, AbortedPauses, PausesForAttempt

LEMMA EndsInv ==
  ASSUME CallInv, NEW k \in Keys, Ends(k)
  PROVE  CallInv'
BY NoCallIsCall, CallInvStep DEF Ends

LEMMA RetriesOrEndsInv ==
  ASSUME CallInv, NEW k \in Keys, calls[k].stage = "calling", RetriesOrEnds(k)
  PROVE  CallInv'
<1>1. CASE calls[k].attempt < MaxAttempts
  <2> DEFINE call == [calls[k] EXCEPT !.stage = "pausing"]
  <2>1. /\ call \in Calls /\ call.stage = "pausing"
        /\ call.aborted = calls[k].aborted /\ call.attempt = calls[k].attempt
    BY DEF CallInv, InvocationTypeOK, Calls
  <2>2. calls' = [calls EXCEPT ![k] = call]
    BY <1>1 DEF RetriesOrEnds
  <2> HIDE DEF call
  <2> QED
    BY <1>1, <2>1, <2>2, CallInvStep
<1>2. CASE ~(calls[k].attempt < MaxAttempts)
  BY <1>2, EndsInv DEF RetriesOrEnds
<1> QED
  BY <1>1, <1>2

LEMMA BeginInv ==
  ASSUME CallInv, NEW k \in Keys, Begin(k)
  PROVE  CallInv'
<1>1. [stage |-> "calling", attempt |-> 1, aborted |-> FALSE] \in Calls
  BY MaxAttemptsIsCount DEF Calls
<1> QED
  BY <1>1, CallInvStep DEF Begin

LEMMA AbortInv ==
  ASSUME CallInv, NEW k \in Keys, Abort(k)
  PROVE  CallInv'
<1>1. CASE calls[k].stage = "calling"
  BY <1>1, EndsInv DEF Abort
<1>2. CASE calls[k].stage = "pausing"
  <2> DEFINE call == [calls[k] EXCEPT !.aborted = TRUE]
  <2>1. /\ call \in Calls /\ call.stage = calls[k].stage
        /\ call.attempt = calls[k].attempt
    BY DEF CallInv, InvocationTypeOK, Calls
  <2>2. calls' = [calls EXCEPT ![k] = call]
    BY <1>2 DEF Abort
  <2>3. calls[k].attempt < MaxAttempts
    BY <1>2 DEF CallInv, PausesForAttempt
  <2> HIDE DEF call
  <2> QED
    BY <1>2, <2>1, <2>2, <2>3, CallInvStep
<1> QED
  BY <1>1, <1>2 DEF Abort, InFlight, CallInv, InvocationTypeOK, Calls

LEMMA WakeUpInv ==
  ASSUME CallInv, NEW k \in Keys, WakeUp(k)
  PROVE  CallInv'
<1>1. CASE calls[k].aborted
  BY <1>1, EndsInv DEF WakeUp
<1>2. CASE ~calls[k].aborted
  <2> DEFINE call == [calls[k] EXCEPT !.stage = "calling", !.attempt = @ + 1]
  <2>1. calls[k] \in Calls /\ calls[k].attempt < MaxAttempts
    BY DEF WakeUp, CallInv, InvocationTypeOK, PausesForAttempt
  <2>2. calls[k].attempt + 1 \in 0 .. MaxAttempts
    BY <2>1, MaxAttemptsIsCount DEF Calls
  <2>3. call \in Calls /\ call.stage = "calling" /\ call.aborted = calls[k].aborted
    BY <2>1, <2>2 DEF Calls
  <2>4. calls' = [calls EXCEPT ![k] = call]
    BY <1>2 DEF WakeUp
  <2> HIDE DEF call
  <2> QED
    BY <1>2, <2>3, <2>4, CallInvStep
<1> QED
  BY <1>1, <1>2

(* Everything else that the plugin does leaves the calls alone, or is their *)
(* end.                                                                     *)
LEMMA CallsOfStep ==
  ASSUME [Next]_vars
  PROVE  \/ UNCHANGED calls
         \/ calls' = [k \in Keys |-> NoCall]
         \/ \E k \in Keys : Begin(k) \/ InvocationStep(k)
BY DEF Next, vars, Load, Unload, SaveLands, SaveFails, SaveEnds, SaveProfile, DeleteReference,
       DeleteProfile, ToggleTrust, Test, Retest, BeginTests, TestEnds, ToggleCloud,
       ResetProviders, ResetRuntimeSettings, SelectProvider, SelectModel, Edit, Ask, Invoke

LEMMA CallInvNext ==
  ASSUME CallInv, [Next]_vars
  PROVE  CallInv'
<1>1. CASE UNCHANGED calls
  BY <1>1 DEF CallInv, InvocationTypeOK, AbortedPauses, PausesForAttempt
<1>2. CASE calls' = [k \in Keys |-> NoCall]
  BY <1>2, NoCallIsCall DEF CallInv, InvocationTypeOK, AbortedPauses, PausesForAttempt
<1>3. ASSUME NEW k \in Keys, Begin(k) \/ InvocationStep(k)
      PROVE  CallInv'
  BY <1>3, BeginInv, AbortInv, WakeUpInv, EndsInv, RetriesOrEndsInv
  DEF InvocationStep, TransportSettles, TimerFires
<1> QED
  BY <1>1, <1>2, <1>3, CallsOfStep

-----------------------------------------------------------------------------
(* invokeProvider starts no attempt for one who has aborted, whatever the   *)
(* settings, the pauses and the number of attempts: the abort is looked at  *)
(* after each pause, and during an attempt it ends the call.                *)
THEOREM AbortedCallsStay == Spec => NoCallAfterAbort
<1> DEFINE Quiet == \A k \in Keys : calls[k].aborted => calls'[k].stage # "calling"
<1>1. ASSUME CallInv, [Next]_vars
      PROVE  Quiet
  <2> SUFFICES ASSUME NEW k \in Keys, calls[k].aborted
               PROVE  calls'[k].stage # "calling"
    OBVIOUS
  <2>1. calls[k].stage = "pausing"
    BY <1>1 DEF CallInv, AbortedPauses
  <2>2. CASE UNCHANGED calls
    BY <2>1, <2>2
  <2>3. CASE calls' = [n \in Keys |-> NoCall]
    BY <2>3, NoCallIsCall
  <2>4. ASSUME NEW n \in Keys, n # k, Begin(n) \/ InvocationStep(n)
        PROVE  calls'[k] = calls[k]
    BY <1>1, <2>4
    DEF CallInv, InvocationTypeOK, Begin, InvocationStep, TransportSettles, TimerFires, Abort,
        WakeUp, RetriesOrEnds, Ends
  <2>5. CASE Begin(k) \/ InvocationStep(k)
    <3>1. Ends(k)
      BY <2>1, <2>5
      DEF Begin, InFlight, InvocationStep, TransportSettles, TimerFires, Abort, WakeUp
    <3> QED
      BY <1>1, <3>1, NoCallIsCall DEF Ends, CallInv, InvocationTypeOK
  <2> QED
    BY <1>1, <2>1, <2>2, <2>3, <2>4, <2>5, CallsOfStep
<1>2. CallInv /\ [Next]_vars => CallInv' /\ [Quiet]_calls
  BY <1>1, CallInvNext
<1>3. Init => CallInv
  BY CallInvInit DEF Init
<1> QED
  BY <1>2, <1>3, PTL DEF Spec, NoCallAfterAbort

-----------------------------------------------------------------------------
(* The settings as values *)

(* What every parse leaves: profiles that are valid, and roles that have a  *)
(* provider there is, or none.                                              *)
Sound(s) ==
    /\ \A i \in Ids : s.profiles[i] # None => ParseAccepts(s.profiles[i])
    /\ \A r \in Roles : s.roles[r].provider = None \/ s.roles[r].provider \in Registered(s)

(* Trust is given to providers there are, and that may be trusted.          *)
TrustSound(s) ==
    \A i \in s.trusted : i \in Registered(s) /\ Definition(s, i).trust = "trusted-cloud"

LEMMA NoSelectionIsSelection == NoSelection \in Selections /\ NoSelection.provider = None
BY DEF NoSelection, Selections

LEMMA DefaultsAreSettings ==
  /\ DefaultSettings \in Settings
  /\ Sound(DefaultSettings) /\ TrustSound(DefaultSettings) /\ ~ParseHasErrors(DefaultSettings)
<1>1. DefaultSettings \in Settings
  BY NoSelectionIsSelection DEF DefaultSettings, Settings
<1>2. /\ \A i \in Ids : DefaultSettings.profiles[i] = None /\ DefaultSettings.statuses[i] = None
      /\ DefaultSettings.trusted = {}
      /\ \A r \in Roles : DefaultSettings.roles[r] = NoSelection
  BY DEF DefaultSettings
<1>3. None \notin Registered(DefaultSettings)
  BY NoneIsNobody DEF Registered, Ids
<1>4. Sound(DefaultSettings) /\ TrustSound(DefaultSettings)
  BY <1>2, NoSelectionIsSelection DEF Sound, TrustSound
<1>5. \A r \in Roles : KeptSelection(DefaultSettings, DefaultSettings.roles[r]) = NoSelection
  BY <1>2, <1>3, NoSelectionIsSelection DEF KeptSelection
<1>6. ~ParseHasErrors(DefaultSettings)
  BY <1>2, <1>5 DEF ParseHasErrors
<1> QED
  BY <1>1, <1>4, <1>6

LEMMA KeptSelectionIsSelection ==
  ASSUME NEW s, NEW selection \in Selections
  PROVE  /\ KeptSelection(s, selection) \in Selections
         /\ \/ KeptSelection(s, selection).provider = None
            \/ KeptSelection(s, selection).provider \in Registered(s)
<1>1. CASE selection.provider \notin Registered(s)
  BY <1>1, NoSelectionIsSelection DEF KeptSelection
<1>2. CASE selection.provider \in Registered(s)
  <2> DEFINE model == IF selection.model \in Definition(s, selection.provider).models
                      THEN selection.model ELSE None
  <2>1. model \in Models \cup {None}
    BY DEF Selections
  <2> HIDE DEF model
  <2>2. /\ [selection EXCEPT !.model = model] \in Selections
        /\ [selection EXCEPT !.model = model].provider = selection.provider
    BY <2>1 DEF Selections
  <2>3. KeptSelection(s, selection) = [selection EXCEPT !.model = model]
    BY <1>2 DEF KeptSelection, model
  <2> QED
    BY <1>2, <2>2, <2>3
<1> QED
  BY <1>1, <1>2

(* The fields of the settings that a parse makes of what it reads.          *)
LEMMA ParsedSettings ==
  ASSUME NEW raw \in Settings
  PROVE  /\ ParseSettings(raw) \in Settings
         /\ ParseSettings(raw).profiles = KeptProfiles(raw)
         /\ ParseSettings(raw).trusted \in {raw.trusted, {}}
         /\ Sound(ParseSettings(raw))
<1> DEFINE s == [raw EXCEPT !.profiles = KeptProfiles(raw)]
           known == raw.trusted \subseteq Registered(s)
           trusted == IF known THEN raw.trusted ELSE {}
           cloud == raw.cloud /\ known
           statuses == [i \in Ids |-> IF i \in Registered(s) THEN raw.statuses[i] ELSE None]
           roles == [r \in Roles |-> KeptSelection(s, raw.roles[r])]
<1>1. KeptProfiles(raw) \in [Ids -> Profiles \cup {None}]
  BY DEF KeptProfiles, Settings
<1>2. s \in Settings /\ s.profiles = KeptProfiles(raw)
  BY <1>1 DEF Settings
<1>3. ParseSettings(raw) = [s EXCEPT !.trusted = trusted, !.cloud = cloud,
                                     !.statuses = statuses, !.roles = roles]
  BY DEF ParseSettings
<1>4. trusted \in SUBSET Ids /\ cloud \in BOOLEAN /\ trusted \in {raw.trusted, {}}
  BY DEF Settings
<1>5. statuses \in [Ids -> Statuses \cup {None}]
  BY DEF Settings
<1>6. \A r \in Roles :
         /\ KeptSelection(s, raw.roles[r]) \in Selections
         /\ \/ KeptSelection(s, raw.roles[r]).provider = None
            \/ KeptSelection(s, raw.roles[r]).provider \in Registered(s)
  BY KeptSelectionIsSelection DEF Settings
<1>7. roles \in [Roles -> Selections] /\ \A r \in Roles : roles[r] = KeptSelection(s, raw.roles[r])
  BY <1>6
<1> HIDE DEF s, trusted, cloud, statuses, roles
<1>8. /\ ParseSettings(raw) \in Settings
      /\ ParseSettings(raw).profiles = s.profiles
      /\ ParseSettings(raw).trusted = trusted
      /\ ParseSettings(raw).roles = roles
  BY <1>2, <1>3, <1>4, <1>5, <1>7 DEF Settings
<1>9. Registered(ParseSettings(raw)) = Registered(s)
  BY <1>8 DEF Registered
<1>10. \A i \in Ids : s.profiles[i] # None => ParseAccepts(s.profiles[i])
  BY <1>2 DEF KeptProfiles
<1>11. Sound(ParseSettings(raw))
  BY <1>6, <1>7, <1>8, <1>9, <1>10 DEF Sound
<1> QED
  BY <1>2, <1>4, <1>8, <1>11

(* What a save accepts is sound, and parsed again it has the same profiles. *)
LEMMA SavedIsSound ==
  ASSUME NEW s \in Settings, ~ParseHasErrors(s)
  PROVE  Sound(s) /\ KeptProfiles(s) = s.profiles
<1>1. \A i \in Ids : s.profiles[i] # None => ParseAccepts(s.profiles[i])
  BY DEF ParseHasErrors
<1>2. \A r \in Roles : s.roles[r].provider = None \/ s.roles[r].provider \in Registered(s)
  <2> SUFFICES ASSUME NEW r \in Roles
               PROVE  s.roles[r].provider = None \/ s.roles[r].provider \in Registered(s)
    OBVIOUS
  <2>1. KeptSelection(s, s.roles[r]) = s.roles[r] /\ s.roles[r] \in Selections
    BY DEF ParseHasErrors, Settings
  <2> QED
    BY <2>1, KeptSelectionIsSelection
<1>3. KeptProfiles(s) = s.profiles
  BY <1>1 DEF KeptProfiles, Settings
<1> QED
  BY <1>1, <1>2, <1>3 DEF Sound

(* Trust depends on the profiles and on who is trusted.                     *)
LEMMA TrustOfProfiles ==
  ASSUME NEW s, NEW t, TrustSound(s), t.profiles = s.profiles, t.trusted \subseteq s.trusted
  PROVE  TrustSound(t)
BY DEF TrustSound, Registered, Definition

LEMMA ParsedTrust ==
  ASSUME NEW s \in Settings, ~ParseHasErrors(s), TrustSound(s)
  PROVE  TrustSound(ParseSettings(s))
BY ParsedSettings, SavedIsSound, TrustOfProfiles

-----------------------------------------------------------------------------
(* The reports agree with the preflight in all sound settings *)

LEMMA BaselineDefinition ==
  ASSUME NEW i \in Baselines
  PROVE  BaselineOf[i] \in Definitions /\ ~BaselineOf[i].mine /\ BaselineOf[i].class = None
BY BaselinesAreDefinitions

LEMMA ClassOfProfile ==
  ASSUME NEW profile \in Profiles
  PROVE  /\ ClassOf(profile) \in Classes \cup {None}
         /\ profile.kind # "local" => ClassOf(profile) # None
         /\ profile.kind = "local" => ClassOf(profile) = None
BY NoneIsNobody DEF ClassOf, Profiles, Classes, RemoteClasses

(* A definition is that of the registry, or of a profile.                   *)
LEMMA DefinitionOfProvider ==
  ASSUME NEW s \in Settings, NEW i \in Registered(s)
  PROVE  /\ i \in Ids
         /\ Definition(s, i) \in Definitions
         /\ i \in Baselines => ~Definition(s, i).mine /\ Definition(s, i).class = None
         /\ i \notin Baselines => /\ Definition(s, i).mine
                                  /\ s.profiles[i] \in Profiles /\ s.profiles[i] # None
                                  /\ Definition(s, i).cloud = s.profiles[i].cloud
                                  /\ Definition(s, i).class = ClassOf(s.profiles[i])
<1>1. CASE i \in Baselines
  BY <1>1, BaselineDefinition DEF Definition, Ids
<1>2. CASE i \notin Baselines
  <2>1. i \in Ids /\ s.profiles[i] # None /\ s.profiles[i] \in Profiles
    BY <1>2 DEF Registered, Settings
  <2>2. Definition(s, i) = ProfileToDefinition(s.profiles[i])
    BY <1>2 DEF Definition
  <2> QED
    BY <1>2, <2>1, <2>2, ClassOfProfile DEF ProfileToDefinition, Definitions, Profiles
<1> QED
  BY <1>1, <1>2

(* A cloud leaves the machine: a profile that is local but for its host is  *)
(* never accepted as a cloud.                                               *)
LEMMA CloudsLeaveTheMachine ==
  ASSUME NEW s \in Settings, Sound(s), NEW i \in Registered(s), Definition(s, i).cloud
  PROVE  LeavesTheMachine(Definition(s, i))
<1>1. CASE Definition(s, i).class = None
  BY <1>1 DEF LeavesTheMachine, PathClass, RemoteClasses
<1>2. CASE Definition(s, i).class # None
  <2>1. /\ i \in Ids /\ s.profiles[i] # None /\ s.profiles[i] \in Profiles
        /\ s.profiles[i].cloud /\ Definition(s, i).class = ClassOf(s.profiles[i])
    BY <1>2, DefinitionOfProvider
  <2>2. ParseAccepts(s.profiles[i]) /\ s.profiles[i].kind = "openai-compatible"
    BY <1>2, <2>1, ClassOfProfile DEF Sound, Profiles
  <2>3. ClassOf(s.profiles[i]) # "local-compatible"
    BY <2>1, <2>2 DEF ParseAccepts, ClassIsValid
  <2>4. ClassOf(s.profiles[i]) \in Classes
    BY <1>2, <2>1, ClassOfProfile
  <2> QED
    BY <1>2, <2>1, <2>3, <2>4 DEF LeavesTheMachine, PathClass, Classes
<1> QED
  BY <1>1, <1>2

(* A model that is chosen for a role will do for a local runtime whenever   *)
(* the preflight finds one that does.                                       *)
LEMMA ChosenModelNotReadier ==
  ASSUME NEW s, NEW i, NEW role, NEW model,
         NEW chosen, chosen # None, Supports(chosen, role), model = None \/ model = chosen,
         LocalReadyForRole(s, i, role, chosen)
  PROVE  LocalReadyForRole(s, i, role, model)
BY DEF LocalReadyForRole

(* A role that looks ready and is denied: its provider is a cloud that did  *)
(* not pass its test, or the private content may not go there.              *)
LEMMA DeniedRoles ==
  ASSUME NEW s \in Settings, Sound(s), NEW role \in Roles, s.roles[role].provider # None,
         PreflightProviderSetup(s, role) # "allowed", RoleStatus(s, role) = "ready"
  PROVE  LET i == s.roles[role].provider
             d == Definition(s, i)
         IN  /\ i \in Registered(s)
             /\ \/ d.cloud /\ d.class = None /\ ~AuthReady(s, i)
                \/ DecideVaultDisclosure(s, i) # "allowed"
<1> DEFINE i == s.roles[role].provider
           d == Definition(s, i)
           model == s.roles[role].model
           chosen == ModelForRole(d, model, role)
<1>1. i \in Registered(s)
  BY DEF Sound
<1>2. /\ chosen # None /\ Supports(chosen, role)
      /\ ~(IsLocalRuntime(d) /\ ~LocalReadyForRole(s, i, role, chosen))
      /\ d.class # None => AuthReady(s, i)
  BY <1>1 DEF RoleStatus
<1>3. model = None \/ model = chosen
  BY <1>2 DEF ModelForRole
<1>4. ~(IsLocalRuntime(d) /\ ~LocalReadyForRole(s, i, role, model))
  BY <1>2, <1>3, ChosenModelNotReadier
<1>5. SelectProviderModel(d, model, role) # None
  BY <1>2 DEF SelectProviderModel
<1>6. ~AuthReady(s, i) \/ DecideVaultDisclosure(s, i) # "allowed"
  BY <1>1, <1>4, <1>5 DEF PreflightProviderSetup
<1>7. ~AuthReady(s, i) => d.cloud /\ d.class = None
  <2>1. d \in Definitions
    BY <1>1, DefinitionOfProvider
  <2>2. d.cloud \in BOOLEAN /\ d.mine \in BOOLEAN
    BY <2>1 DEF Definitions
  <2>3. IsLocalRuntime(d) => LocalReady(s, i)
    BY <1>4 DEF LocalReadyForRole
  <2> QED
    BY <1>2, <2>2, <2>3 DEF AuthReady, IsLocalRuntime
<1> QED
  BY <1>1, <1>6, <1>7

LEMMA GuidanceTells ==
  ASSUME NEW s \in Settings, Sound(s), NEW role \in Roles, s.roles[role].provider # None,
         PreflightProviderSetup(s, role) # "allowed", NEW semantic
  PROVE  GuidanceSeverity(s, semantic) # "ready"
<1> DEFINE i == s.roles[role].provider
           d == Definition(s, i)
<1>1. i \in Registered(s) /\ i \in ActiveProviders(s) /\ role \in RolesAt(s, i)
  BY DEF Sound, ActiveProviders, Selected, RolesAt
<1>2. SUFFICES Gates(s, semantic, i) \cap {"blocked", "warning"} # {}
  BY <1>1 DEF GuidanceSeverity
<1>3. CASE RoleStatus(s, role) # "ready"
  BY <1>1, <1>3 DEF CapabilityGate, Gates
<1>4. ASSUME d.cloud, d.class = None, ~AuthReady(s, i)
      PROVE  AuthGate(s, i) \in {"blocked", "warning"}
  BY <1>4 DEF AuthGate, AuthReady, IsLocalRuntime
<1>5. ASSUME DecideVaultDisclosure(s, i) # "allowed"
      PROVE  DisclosureGate(s, i) = "blocked"
  <2>1. d.cloud /\ (~s.cloud \/ ~IsTrusted(s, i))
    <3>1. d.cloud \in BOOLEAN /\ s.cloud \in BOOLEAN
      BY <1>1, DefinitionOfProvider DEF Definitions, Settings
    <3> QED
      BY <1>5, <3>1 DEF DecideVaultDisclosure
  <2> QED
    BY <1>1, <2>1, CloudsLeaveTheMachine DEF DisclosureGate
<1>6. CASE RoleStatus(s, role) = "ready"
  BY <1>4, <1>5, <1>6, DeniedRoles DEF Gates
<1> QED
  BY <1>3, <1>6

LEMMA ItemTells ==
  ASSUME NEW s \in Settings, Sound(s), NEW role \in Roles, s.roles[role].provider # None,
         PreflightProviderSetup(s, role) # "allowed", NEW semantic
  PROVE  ProviderItemSeverity(s, semantic) # "ready"
<1> DEFINE i == s.roles[role].provider
           d == Definition(s, i)
           fails == \/ \E n \in Ids : StatusOf(s, n).result = "failed"
                    \/ \E r \in Roles : RoleStatus(s, r) \in
                          {"provider-missing", "model-missing", "capability-mismatch"}
           all == {g.severity : g \in Diagnostics(s, semantic)}
                     \cup {IF fails THEN "error" ELSE SetupSeverity(s)}
<1>1. SUFFICES "error" \in all \/ "warning" \in all
  BY DEF ProviderItemSeverity
<1>2. i \in Registered(s) /\ i \in Selected(s)
  BY DEF Sound, Selected
<1>3. CASE RoleStatus(s, role) # "ready"
  <2>1. role \in ProblemRoles(s)
    BY <1>3 DEF ProblemRoles, RoleStatus
  <2>2. [kind |-> "role-capability", severity |-> "error"] \in Diagnostics(s, semantic)
    BY <2>1 DEF RoleDiagnostics, Diagnostics
  <2> QED
    BY <2>2
<1>4. ASSUME d.cloud, ~AuthReady(s, i)
      PROVE  "error" \in all \/ "warning" \in all
  <2>1. SetupSeverity(s) \in {"error", "warning"}
    BY <1>2, <1>4 DEF SetupSeverity
  <2> QED
    BY <2>1
<1>5. ASSUME DecideVaultDisclosure(s, i) # "allowed"
      PROVE  "error" \in all \/ "warning" \in all
  <2>1. d.cloud \in BOOLEAN /\ s.cloud \in BOOLEAN /\ i \in Ids
    BY <1>2, DefinitionOfProvider DEF Definitions, Settings
  <2>2. d.cloud /\ (~s.cloud \/ ~IsTrusted(s, i))
    BY <1>5, <2>1 DEF DecideVaultDisclosure
  <2>3. \E g \in DisclosureDiagnostics(s) : g.severity \in {"error", "warning"}
    <3> DEFINE hidden == {j \in Selected(s) \cap Registered(s) :
                             Definition(s, j).cloud /\ (~s.cloud \/ ~IsTrusted(s, j))}
               diagnostic(j) ==
                   [kind |-> "disclosure",
                    severity |-> IF s.cloud /\ Definition(s, j).trust # "trusted-cloud"
                                 THEN "error" ELSE "warning"]
    <3>1. i \in hidden
      BY <1>2, <2>2
    <3>2. DisclosureDiagnostics(s) = {diagnostic(j) : j \in hidden}
      BY DEF DisclosureDiagnostics
    <3>3. diagnostic(i).severity \in {"error", "warning"}
      OBVIOUS
    <3> HIDE DEF hidden, diagnostic
    <3> QED
      BY <3>1, <3>2, <3>3
  <2> QED
    BY <2>3 DEF Diagnostics
<1>6. CASE RoleStatus(s, role) = "ready"
  BY <1>4, <1>5, <1>6, DeniedRoles
<1> QED
  BY <1>3, <1>6

(* The guidance and the status view never call ready what the preflight     *)
(* denies, in all settings that a parse leaves or a save accepts.           *)
LEMMA SoundSettingsAgree ==
  ASSUME NEW s \in Settings, Sound(s)
  PROVE  ReportsAgree(s)
BY GuidanceTells, ItemTells DEF ReportsAgree

-----------------------------------------------------------------------------
(* What the user makes of the settings *)

(* Settings that may be saved, and trust no one the settings did not.       *)
Follows(next) == next \in Settings /\ (TrustSound(settings) => TrustSound(next))

LEMMA SettingsFields ==
  ASSUME NEW s \in Settings
  PROVE  /\ s.profiles \in [Ids -> Profiles \cup {None}]
         /\ s.trusted \in SUBSET Ids
         /\ s.cloud \in BOOLEAN
         /\ s.statuses \in [Ids -> Statuses \cup {None}]
         /\ s.roles \in [Roles -> Selections]
BY DEF Settings

(* Other statuses and roles; the profiles and the trust stay.               *)
LEMMA PreferencesFollow ==
  ASSUME settings \in Settings,
         NEW cloud \in BOOLEAN, NEW statuses \in [Ids -> Statuses \cup {None}],
         NEW roles \in [Roles -> Selections]
  PROVE  /\ Follows([settings EXCEPT !.cloud = cloud])
         /\ Follows([settings EXCEPT !.statuses = statuses])
         /\ Follows([settings EXCEPT !.roles = roles])
         /\ Follows([settings EXCEPT !.statuses = statuses, !.roles = roles])
<1> DEFINE a == [settings EXCEPT !.cloud = cloud]
           b == [settings EXCEPT !.statuses = statuses]
           c == [settings EXCEPT !.roles = roles]
           d == [settings EXCEPT !.statuses = statuses, !.roles = roles]
<1>1. a \in Settings /\ b \in Settings /\ c \in Settings /\ d \in Settings
  BY DEF Settings
<1>2. \A t \in {a, b, c, d} : t.profiles = settings.profiles /\ t.trusted \subseteq settings.trusted
  BY DEF Settings
<1> HIDE DEF a, b, c, d
<1>3. \A t \in {a, b, c, d} : Follows(t)
  BY <1>1, <1>2, TrustOfProfiles DEF Follows
<1> QED
  BY <1>3 DEF a, b, c, d

(* The profile of i is another one, or gone, and i is no longer trusted.    *)
LEMMA ProfileChangeFollows ==
  ASSUME settings \in Settings, NEW i \in Ids, NEW profile \in Profiles \cup {None},
         NEW roles \in [Roles -> Selections]
  PROVE  Follows([settings EXCEPT !.profiles[i] = profile, !.trusted = @ \ {i},
                                  !.statuses[i] = None, !.roles = roles])
<1> DEFINE profiles == [settings.profiles EXCEPT ![i] = profile]
           statuses == [settings.statuses EXCEPT ![i] = None]
           next == [settings EXCEPT !.profiles = profiles, !.trusted = settings.trusted \ {i},
                                    !.statuses = statuses, !.roles = roles]
<1>1. /\ profiles \in [Ids -> Profiles \cup {None}]
      /\ \A j \in Ids \ {i} : profiles[j] = settings.profiles[j]
  BY SettingsFields
<1>2. statuses \in [Ids -> Statuses \cup {None}] /\ settings.trusted \ {i} \in SUBSET Ids
  BY SettingsFields
<1> HIDE DEF profiles, statuses
<1>3. next \in Settings /\ next.profiles = profiles /\ next.trusted = settings.trusted \ {i}
  BY <1>1, <1>2 DEF Settings
<1> HIDE DEF next
<1>4. ASSUME TrustSound(settings), NEW j \in next.trusted
      PROVE  j \in Registered(next) /\ Definition(next, j).trust = "trusted-cloud"
  <2>1. j \in settings.trusted /\ j # i /\ j \in Ids
    BY <1>3, <1>4, SettingsFields
  <2>2. next.profiles[j] = settings.profiles[j]
    BY <1>1, <1>3, <2>1
  <2> QED
    BY <1>4, <2>1, <2>2 DEF TrustSound, Registered, Definition
<1>5. Follows(next)
  BY <1>3, <1>4 DEF Follows, TrustSound
<1> QED
  BY <1>5 DEF next, profiles, statuses

LEMMA SelectionsOfProvider ==
  ASSUME settings \in Settings, NEW i \in Ids
  PROVE  /\ WithoutModels(settings.roles, i) \in [Roles -> Selections]
         /\ [r \in Roles |-> IF settings.roles[r].provider = i THEN NoSelection
                             ELSE settings.roles[r]] \in [Roles -> Selections]
         /\ [r \in Roles |-> [settings.roles[r] EXCEPT !.model = None]] \in [Roles -> Selections]
<1>1. ASSUME NEW r \in Roles
      PROVE  settings.roles[r] \in Selections
             /\ [settings.roles[r] EXCEPT !.model = None] \in Selections
  BY SettingsFields DEF Selections
<1> QED
  BY <1>1, NoSelectionIsSelection DEF WithoutModels

LEMMA SaveProfileFollows ==
  ASSUME settings \in Settings, NEW i \in Ids, NEW profile \in Profiles
  PROVE  Follows(Replaced(settings, i, profile))
BY ProfileChangeFollows, SelectionsOfProvider DEF Replaced

LEMMA DeleteProfileFollows ==
  ASSUME settings \in Settings, NEW i \in Ids
  PROVE  Follows([settings EXCEPT
                     !.profiles[i] = None, !.trusted = @ \ {i}, !.statuses[i] = None,
                     !.roles = [r \in Roles |-> IF @[r].provider = i THEN NoSelection ELSE @[r]]])
BY ProfileChangeFollows, SelectionsOfProvider

(* A profile without its credential is trusted as before.                   *)
LEMMA DeleteReferenceFollows ==
  ASSUME settings \in Settings, NEW i \in Ids, settings.profiles[i] # None
  PROVE  Follows([settings EXCEPT !.profiles[i].ref = None, !.statuses[i] = None])
<1> DEFINE profile == [settings.profiles[i] EXCEPT !.ref = None]
           profiles == [settings.profiles EXCEPT ![i] = profile]
           statuses == [settings.statuses EXCEPT ![i] = None]
           next == [settings EXCEPT !.profiles = profiles, !.statuses = statuses]
<1>1. settings.profiles[i] \in Profiles
  BY SettingsFields
<1>2. profile \in Profiles /\ profile.trust = settings.profiles[i].trust
  BY <1>1 DEF Profiles
<1>3. profile # None
  BY <1>2, NoneIsNoProfile
<1> HIDE DEF profile
<1>4. /\ profiles \in [Ids -> Profiles \cup {None}] /\ profiles[i] = profile
      /\ \A j \in Ids \ {i} : profiles[j] = settings.profiles[j]
  BY <1>2, SettingsFields
<1>5. statuses \in [Ids -> Statuses \cup {None}]
  BY SettingsFields
<1> HIDE DEF profiles, statuses
<1>6. next \in Settings /\ next.profiles = profiles /\ next.trusted = settings.trusted
  BY <1>4, <1>5 DEF Settings
<1> HIDE DEF next
<1>7. ASSUME TrustSound(settings), NEW j \in next.trusted
      PROVE  j \in Registered(next) /\ Definition(next, j).trust = "trusted-cloud"
  <2>1. j \in settings.trusted /\ j \in Ids
    BY <1>6, <1>7, SettingsFields
  <2>2. j \in Registered(settings) /\ Definition(settings, j).trust = "trusted-cloud"
    BY <1>7, <2>1 DEF TrustSound
  <2>3. CASE j # i
    BY <1>4, <1>6, <2>1, <2>2, <2>3 DEF Registered, Definition
  <2>4. CASE j = i
    BY <1>2, <1>3, <1>4, <1>6, <2>1, <2>2, <2>4 DEF Registered, Definition, ProfileToDefinition
  <2> QED
    BY <2>3, <2>4
<1>8. Follows(next)
  BY <1>6, <1>7 DEF Follows, TrustSound
<1> QED
  BY <1>8 DEF next, profiles, statuses, profile

LEMMA ToggleTrustFollows ==
  ASSUME settings \in Settings, NEW i \in Registered(settings),
         Definition(settings, i).trust = "trusted-cloud"
  PROVE  Follows([settings EXCEPT !.trusted = IF i \in @ THEN @ \ {i} ELSE @ \cup {i}])
<1> DEFINE trusted == IF i \in settings.trusted THEN settings.trusted \ {i}
                      ELSE settings.trusted \cup {i}
           next == [settings EXCEPT !.trusted = trusted]
<1>1. i \in Ids
  BY DefinitionOfProvider
<1>2. trusted \in SUBSET Ids /\ trusted \subseteq settings.trusted \cup {i}
  BY <1>1, SettingsFields
<1> HIDE DEF trusted
<1>3. next \in Settings /\ next.profiles = settings.profiles /\ next.trusted = trusted
  BY <1>2 DEF Settings
<1> HIDE DEF next
<1>4. TrustSound(settings) => TrustSound(next)
  BY <1>2, <1>3 DEF TrustSound, Registered, Definition
<1>5. Follows(next)
  BY <1>3, <1>4 DEF Follows
<1> QED
  BY <1>5 DEF next, trusted

-----------------------------------------------------------------------------
(* The steps of the plugin, as the settings see them *)

Saving == [by : Savers \cup {"nobody"}, next : Settings]

TestStates == [todo : SUBSET Untested, got : SUBSET Tested, on : BOOLEAN]

LEMMA NoTestIsTest ==
  NoTest \in TestStates /\ NoSave \in Saving
BY DefaultsAreSettings DEF NoTest, TestStates, NoSave, Saving

(* A save that begins is of settings that parse and follow from those there *)
(* are, and one that is refused changes nothing.                            *)
SavingStep ==
    \/ saving' \in {saving, NoSave}
    \/ \E by \in Savers : \E next :
          /\ saving' = [by |-> by, next |-> next]
          /\ Follows(next) /\ ~ParseHasErrors(next)

LEMMA PersistSaves ==
  ASSUME NEW next, Follows(next), NEW by \in Savers, Persist(next, by)
  PROVE  SavingStep
BY DEF Persist, Saves, SavingStep

LEMMA FormIsProfile ==
  ASSUME NEW kind \in {"local", "openai-compatible"}, NEW e \in Endpoints, NEW ms \in FormModels,
         NEW ref \in Refs \cup {None}
  PROVE  [Form(kind, e, ms) EXCEPT !.ref = ref] \in Profiles
<1>1. ms \in SUBSET Models
  BY DEF FormModels
<1> QED
  BY <1>1 DEF Form, Profiles, TrustLevels

LEMMA ResultsAreStatuses ==
  ASSUME NEW profile \in Profiles, NEW has, NEW status \in TestResults(profile, has)
  PROVE  status \in Statuses
<1>1. profile.cloud \in BOOLEAN
  BY DEF Profiles
<1>2. Probe(profile) \subseteq Statuses
  BY DEF Probe, Statuses, Results
<1>3. [result |-> "failed", readiness |-> "not-ready", found |-> {}] \in Statuses
  BY DEF Statuses, Results
<1>4. \A result \in {"passed", "failed"} :
         [result |-> result, readiness |-> "none", found |-> {}] \in Statuses
  BY DEF Statuses, Results
<1>5. CASE profile.cloud
  BY <1>4, <1>5 DEF TestResults
<1>6. CASE ~profile.cloud /\ profile.kind = "local"
  BY <1>2, <1>6 DEF TestResults
<1>7. CASE ~profile.cloud /\ profile.kind # "local"
  BY <1>3, <1>7 DEF TestResults
<1> QED
  BY <1>1, <1>5, <1>6, <1>7

LEMMA StatusedFollows ==
  ASSUME settings \in Settings, NEW got \in SUBSET Tested
  PROVE  Follows(Statused(settings, got))
<1> DEFINE statuses == [i \in Ids |-> IF \E t \in got : t.id = i
                                      THEN (CHOOSE t \in got : t.id = i).status
                                      ELSE settings.statuses[i]]
<1>1. ASSUME NEW i \in Ids, \E t \in got : t.id = i
      PROVE  (CHOOSE t \in got : t.id = i).status \in Statuses
  <2>1. (CHOOSE t \in got : t.id = i) \in Tested
    BY <1>1
  <2> QED
    BY <2>1 DEF Tested
<1>2. statuses \in [Ids -> Statuses \cup {None}]
  BY <1>1, SettingsFields
<1>3. Statused(settings, got) = [settings EXCEPT !.statuses = statuses]
  BY DEF Statused
<1> HIDE DEF statuses
<1>4. FALSE \in BOOLEAN /\ settings.roles \in [Roles -> Selections]
  BY SettingsFields
<1> QED
  BY <1>2, <1>3, <1>4, PreferencesFollow

(* A test that begins has an answer about its credential.                   *)
LEMMA BegunIsUntested ==
  ASSUME NEW todo, \A u \in todo : u.id \in Ids /\ u.profile \in Profiles
  PROVE  Begun(todo) \subseteq Untested
<1> SUFFICES ASSUME NEW b \in Begun(todo) PROVE b \in Untested
  OBVIOUS
<1>1. PICK u \in todo :
         b = [id |-> u.id, profile |-> u.profile, has |-> u.profile.ref \in secrets]
  BY DEF Begun
<1>2. (u.profile.ref \in secrets) \in BOOLEAN
  OBVIOUS
<1> QED
  BY <1>1, <1>2 DEF Untested

(* The test of u in the action k ends with this status.                     *)
EndsWith(k, u, status) ==
    LET got == tests[k].got \cup {[id |-> u.id, status |-> status]}
        next == Statused(settings, got)
        last == tests[k].todo = {u}
    IN  /\ tests' = [tests EXCEPT ![k] =
                        IF last /\ ~Saves(next) THEN NoTest
                        ELSE [tests[k] EXCEPT !.todo = Begun(@ \ {u}), !.got = got]]
        /\ IF last THEN Persist(next, "test") ELSE UNCHANGED saving

(* A test that ends leaves tests of the type, and may begin a save.         *)
LEMMA TestEndsStep ==
  ASSUME TypeOK, NEW k \in TestKeys, TestEnds(k)
  PROVE  SavingStep /\ tests' \in [TestKeys -> TestStates]
<1>1. tests \in [TestKeys -> TestStates] /\ settings \in Settings
  BY DEF TypeOK, TestStates
<1>2. PICK u \in tests[k].todo : \E status \in TestResults(u.profile, u.has) : EndsWith(k, u, status)
  BY DEF TestEnds, EndsWith
<1>3. PICK status \in TestResults(u.profile, u.has) : EndsWith(k, u, status)
  BY <1>2
<1> DEFINE got == tests[k].got \cup {[id |-> u.id, status |-> status]}
           after == [tests[k] EXCEPT !.todo = Begun(@ \ {u}), !.got = got]
<1>4. tests[k] \in TestStates /\ tests[k].todo \subseteq Untested /\ tests[k].got \subseteq Tested
  BY <1>1 DEF TestStates
<1>5. u.id \in Ids /\ u.profile \in Profiles
  BY <1>4 DEF Untested
<1>6. got \in SUBSET Tested
  BY <1>4, <1>5, ResultsAreStatuses DEF Tested
<1> HIDE DEF got
<1>7. after \in TestStates
  <2>1. tests[k].todo \ {u} \in SUBSET Untested
    BY <1>4
  <2>2. Begun(tests[k].todo \ {u}) \subseteq Untested
    BY <2>1, BegunIsUntested DEF Untested
  <2> QED
    BY <1>4, <1>6, <2>2 DEF TestStates
<1>8. SavingStep
  BY <1>1, <1>3, <1>6, StatusedFollows, PersistSaves DEF SavingStep, Savers, EndsWith, got
<1>9. tests' = [tests EXCEPT ![k] = NoTest] \/ tests' = [tests EXCEPT ![k] = after]
  BY <1>3 DEF EndsWith, got
<1> HIDE DEF after
<1>10. tests' \in [TestKeys -> TestStates]
  BY <1>1, <1>7, <1>9, NoTestIsTest
<1> QED
  BY <1>8, <1>10

(* What the user does in the tab: at most a save, and its credentials.      *)
TabStep ==
    /\ UNCHANGED <<running, settings, disk, tests, calls>>
    /\ secrets' \subseteq Refs
    /\ SavingStep

LEMMA EditIsTabStep ==
  ASSUME TypeOK, NEW next, Follows(next), NEW by \in Savers, Edit(next, by)
  PROVE  TabStep
<1>1. SavingStep
  BY PersistSaves DEF Edit
<1> QED
  BY <1>1 DEF TabStep, Edit, TypeOK

LEMMA SaveProfileStep ==
  ASSUME TypeOK, NEW i \in Ids, NEW kind \in {"local", "openai-compatible"}, NEW e \in Endpoints,
         NEW ms \in FormModels, SaveProfile(i, kind, e, ms)
  PROVE  TabStep
<1>1. PICK ref \in {None} \cup (Refs \ (secrets \cup OldRefs)) :
         /\ secrets' = secrets \cup ({ref} \ {None})
         /\ Persist(Replaced(settings, i, [Form(kind, e, ms) EXCEPT !.ref = ref]), "save-profile")
  BY DEF SaveProfile
<1>2. Follows(Replaced(settings, i, [Form(kind, e, ms) EXCEPT !.ref = ref]))
  BY FormIsProfile, SaveProfileFollows DEF TypeOK
<1>3. SavingStep
  BY <1>1, <1>2, PersistSaves DEF Savers
<1>4. secrets' \subseteq Refs
  BY <1>1 DEF TypeOK
<1> QED
  BY <1>3, <1>4 DEF TabStep, SaveProfile

LEMMA DeletesStep ==
  ASSUME TypeOK, NEW i \in Ids, DeleteReference(i) \/ DeleteProfile(i)
  PROVE  TabStep
<1>1. settings \in Settings /\ secrets' \subseteq Refs
  BY DEF TypeOK, DeleteReference, DeleteProfile
<1>2. SavingStep
  <2>1. CASE DeleteReference(i)
    <3>1. Persist([settings EXCEPT !.profiles[i].ref = None, !.statuses[i] = None], "delete")
          /\ settings.profiles[i] # None
      BY <2>1 DEF DeleteReference
    <3> QED
      BY <1>1, <3>1, DeleteReferenceFollows, PersistSaves DEF Savers
  <2>2. CASE DeleteProfile(i)
    <3>1. Persist([settings EXCEPT
                      !.profiles[i] = None, !.trusted = @ \ {i}, !.statuses[i] = None,
                      !.roles = [r \in Roles |-> IF @[r].provider = i THEN NoSelection
                                                 ELSE @[r]]], "delete")
      BY <2>2 DEF DeleteProfile
    <3> QED
      BY <1>1, <3>1, DeleteProfileFollows, PersistSaves DEF Savers
  <2> QED
    BY <2>1, <2>2
<1> QED
  BY <1>1, <1>2 DEF TabStep, DeleteReference, DeleteProfile

LEMMA ChoicesStep ==
  ASSUME TypeOK,
         \/ \E i \in Ids : ToggleTrust(i)
         \/ ToggleCloud \/ ResetProviders \/ ResetRuntimeSettings
         \/ \E role \in Keys :
               \/ \E i \in Ids \cup {None} : SelectProvider(role, i)
               \/ \E m \in Models \cup {None} : SelectModel(role, m)
  PROVE  TabStep
<1>1. settings \in Settings
  BY DEF TypeOK
<1>2. ASSUME NEW i \in Ids, ToggleTrust(i)
      PROVE  TabStep
  <2>1. Follows([settings EXCEPT !.trusted = IF i \in @ THEN @ \ {i} ELSE @ \cup {i}])
    BY <1>1, <1>2, ToggleTrustFollows DEF ToggleTrust
  <2> QED
    BY <1>2, <2>1, EditIsTabStep DEF ToggleTrust, Savers
<1>3. CASE ToggleCloud
  <2>1. (~settings.cloud) \in BOOLEAN
    OBVIOUS
  <2>2. settings.statuses \in [Ids -> Statuses \cup {None}]
        /\ settings.roles \in [Roles -> Selections]
    BY <1>1, SettingsFields
  <2>3. Follows([settings EXCEPT !.cloud = ~@])
    BY <1>1, <2>1, <2>2, PreferencesFollow
  <2> QED
    BY <1>3, <2>3, EditIsTabStep DEF ToggleCloud, Savers
<1>4. CASE ResetProviders
  <2> DEFINE statuses == [i \in Ids |-> None]
             roles == [r \in Roles |-> [settings.roles[r] EXCEPT !.model = None]]
  <2>1. /\ statuses \in [Ids -> Statuses \cup {None}] /\ roles \in [Roles -> Selections]
        /\ settings.cloud \in BOOLEAN
    <3>1. statuses \in [Ids -> Statuses \cup {None}] /\ settings.cloud \in BOOLEAN
      BY <1>1, SettingsFields
    <3>2. ASSUME NEW r \in Roles
          PROVE  [settings.roles[r] EXCEPT !.model = None] \in Selections
      BY <1>1, SettingsFields DEF Selections
    <3> QED
      BY <3>1, <3>2
  <2>2. Edit([settings EXCEPT !.statuses = statuses, !.roles = roles], "reset")
    BY <1>4 DEF ResetProviders
  <2> HIDE DEF statuses, roles
  <2>3. Follows([settings EXCEPT !.statuses = statuses, !.roles = roles])
    BY <1>1, <2>1, PreferencesFollow
  <2> QED
    BY <2>2, <2>3, EditIsTabStep DEF Savers
<1>5. CASE ResetRuntimeSettings
  <2>1. Follows(DefaultSettings)
    BY DefaultsAreSettings DEF Follows
  <2> QED
    BY <1>5, <2>1, EditIsTabStep DEF ResetRuntimeSettings, Savers
<1>6. ASSUME NEW roles \in [Roles -> Selections],
             Edit([settings EXCEPT !.roles = roles], "toggle")
      PROVE  TabStep
  <2>1. settings.cloud \in BOOLEAN /\ settings.statuses \in [Ids -> Statuses \cup {None}]
    BY <1>1, SettingsFields
  <2>2. Follows([settings EXCEPT !.roles = roles])
    BY <1>1, <2>1, PreferencesFollow
  <2> QED
    BY <1>6, <2>2, EditIsTabStep DEF Savers
<1>7. ASSUME NEW role \in Keys, NEW i \in Ids \cup {None}, SelectProvider(role, i)
      PROVE  TabStep
  <2> DEFINE roles == [settings.roles EXCEPT ![role] = [provider |-> i, model |-> None]]
  <2>1. roles \in [Roles -> Selections]
    BY <1>1, SettingsFields DEF Selections
  <2>2. Edit([settings EXCEPT !.roles = roles], "toggle")
    BY <1>7 DEF SelectProvider
  <2> HIDE DEF roles
  <2> QED
    BY <1>6, <2>1, <2>2
<1>8. ASSUME NEW role \in Keys, NEW m \in Models \cup {None}, SelectModel(role, m)
      PROVE  TabStep
  <2> DEFINE roles == [settings.roles EXCEPT ![role].model = m]
  <2>1. roles \in [Roles -> Selections]
    <3>1. settings.roles \in [Roles -> Selections] /\ role \in Roles
      BY <1>1, SettingsFields, KeysAreRoles
    <3>2. [settings.roles[role] EXCEPT !.model = m] \in Selections
      BY <3>1 DEF Selections
    <3> QED
      BY <3>1, <3>2
  <2>2. Edit([settings EXCEPT !.roles = roles], "toggle")
    BY <1>8 DEF SelectModel
  <2> HIDE DEF roles
  <2> QED
    BY <1>6, <2>1, <2>2
<1> QED
  BY <1>2, <1>3, <1>4, <1>5, <1>7, <1>8

(* What is in memory and on disk is what it was, or comes from one place.   *)
SettingsStep ==
    /\ \/ settings' \in {settings, DefaultSettings, saving.next}
       \/ disk \notin {None, Unreadable} /\ settings' = ParseSettings(disk)
    /\ disk' \in {disk, saving.next, Unreadable}
    /\ SavingStep

LEMMA SettingsChange ==
  ASSUME TypeOK, [Next]_vars
  PROVE  SettingsStep /\ secrets' \subseteq Refs /\ tests' \in [TestKeys -> TestStates]
         /\ running' \in BOOLEAN
<1>1. /\ running \in BOOLEAN /\ secrets \subseteq Refs /\ tests \in [TestKeys -> TestStates]
      /\ settings \in Settings
  BY DEF TypeOK, TestStates
<1>2. CASE TabStep
  BY <1>1, <1>2 DEF TabStep, SettingsStep
<1>3. CASE Load
  BY <1>1, <1>3 DEF Load, SettingsStep, SavingStep
<1>4. CASE Unload
  BY <1>1, <1>4, NoTestIsTest DEF Unload, SettingsStep, SavingStep
<1>5. ASSUME NEW onDisk \in {disk, saving.next, Unreadable},
             NEW inMemory \in {settings, saving.next}, SaveEnds(onDisk, inMemory)
      PROVE  SettingsStep /\ secrets' \subseteq Refs /\ tests' \in [TestKeys -> TestStates]
             /\ running' \in BOOLEAN
  BY <1>1, <1>5, NoTestIsTest DEF SaveEnds, SettingsStep, SavingStep
<1>6. ASSUME NEW k \in TestKeys, NEW ids \in SUBSET {j \in Ids : settings.profiles[j] # None},
             BeginTests(k, ids)
      PROVE  SettingsStep /\ secrets' \subseteq Refs /\ tests' \in [TestKeys -> TestStates]
             /\ running' \in BOOLEAN
  <2> DEFINE todo == {[id |-> i, profile |-> settings.profiles[i]] : i \in ids}
             t == [todo |-> Begun(todo), got |-> {}, on |-> TRUE]
  <2>0. \A u \in todo : u.id \in Ids /\ u.profile \in Profiles
    BY <1>1, SettingsFields
  <2>1. Begun(todo) \in SUBSET Untested
    BY <2>0, BegunIsUntested
  <2>2. t \in TestStates
    BY <2>1 DEF TestStates
  <2>3. tests' = [tests EXCEPT ![k] = t]
    BY <1>6 DEF BeginTests
  <2> HIDE DEF t
  <2>4. tests' \in [TestKeys -> TestStates]
    BY <1>1, <2>2, <2>3
  <2> QED
    BY <1>1, <1>6, <2>4 DEF BeginTests, SettingsStep, SavingStep
<1>7. ASSUME NEW k \in TestKeys, TestEnds(k)
      PROVE  SettingsStep /\ secrets' \subseteq Refs /\ tests' \in [TestKeys -> TestStates]
             /\ running' \in BOOLEAN
  BY <1>1, <1>7, TestEndsStep DEF TestEnds, SettingsStep
<1>8. CASE \/ \E role \in Keys : Ask(role) \/ Invoke(role)
           \/ UNCHANGED vars
  BY <1>1, <1>8 DEF Ask, Invoke, vars, SettingsStep, SavingStep
<1>9. CASE SaveLands \/ SaveFails
  BY <1>5, <1>9 DEF SaveLands, SaveFails
<1>10. CASE (\E i \in Users : Test(i)) \/ Retest
  <2>1. None \in TestKeys /\ Users \subseteq TestKeys
    BY DEF TestKeys
  <2> QED
    BY <1>6, <1>10, <2>1 DEF Test, Retest
<1> QED
  BY <1>2, <1>3, <1>4, <1>7, <1>8, <1>9, <1>10, SaveProfileStep, DeletesStep, ChoicesStep DEF Next

-----------------------------------------------------------------------------
(* Types, and what the settings say of readiness and trust *)

(* What is saved parses without an error.                                   *)
SavesParse == ~ParseHasErrors(saving.next)

SetupInv == TypeOK /\ CallInv /\ SavesParse /\ Sound(settings)

LEMMA SetupInit == Init => SetupInv
<1> SUFFICES ASSUME Init
             PROVE  SetupInv
  OBVIOUS
<1>1. disk = None \/ disk = Unreadable \/ disk \in Settings
  BY FilesAreSettings DEF Init
<1>2. tests \in [TestKeys -> TestStates] /\ saving \in Saving
  BY NoTestIsTest DEF Init
<1>3. CallInv
  BY CallInvInit DEF Init
<1>4. saving.next = DefaultSettings
  BY DEF Init, NoSave
<1> QED
  BY <1>1, <1>2, <1>3, <1>4, DefaultsAreSettings
  DEF SetupInv, TypeOK, Init, CallInv, SavesParse, TestStates, Saving

LEMMA SavingIsSound ==
  ASSUME TypeOK, SavesParse, SavingStep
  PROVE  saving' \in Saving /\ SavesParse'
<1>1. CASE saving' \in {saving, NoSave}
  <2>1. NoSave.next = DefaultSettings
    BY DEF NoSave
  <2> QED
    BY <1>1, <2>1, NoTestIsTest, DefaultsAreSettings DEF TypeOK, SavesParse, Saving
<1>2. ASSUME NEW by \in Savers, NEW next, saving' = [by |-> by, next |-> next],
             Follows(next), ~ParseHasErrors(next)
      PROVE  saving' \in Saving /\ SavesParse'
  BY <1>2 DEF Saving, SavesParse, Follows
<1> QED
  BY <1>1, <1>2 DEF SavingStep

LEMMA SetupStep ==
  ASSUME SetupInv, [Next]_vars
  PROVE  SetupInv'
<1>1. /\ SettingsStep /\ secrets' \subseteq Refs /\ tests' \in [TestKeys -> TestStates]
      /\ running' \in BOOLEAN
  BY SettingsChange DEF SetupInv
<1>2. saving' \in Saving /\ SavesParse'
  BY <1>1, SavingIsSound DEF SetupInv, SettingsStep
<1>3. CallInv'
  BY CallInvNext DEF SetupInv
<1>4. saving.next \in Settings /\ Sound(saving.next)
  BY SavedIsSound DEF SetupInv, TypeOK, SavesParse
<1>5. settings' \in Settings /\ Sound(settings')
  BY <1>1, <1>4, DefaultsAreSettings, ParsedSettings DEF SetupInv, SettingsStep, TypeOK
<1>6. disk' = None \/ disk' = Unreadable \/ disk' \in Settings
  BY <1>1, <1>4 DEF SetupInv, SettingsStep, TypeOK
<1>7. TypeOK'
  BY <1>1, <1>2, <1>3, <1>5, <1>6 DEF TypeOK, TestStates, Saving, CallInv
<1>8. Sound(settings)'
  BY <1>5 DEF Sound, Registered
<1> QED
  BY <1>2, <1>3, <1>7, <1>8 DEF SetupInv

(* The settings in memory and on disk, the save in course, the tests and    *)
(* the calls keep their types, whatever the user does and a file holds.     *)
THEOREM TypeCorrect == Spec => []TypeOK
<1>1. Init => SetupInv
  BY SetupInit
<1>2. SetupInv /\ [Next]_vars => SetupInv'
  BY SetupStep
<1>3. SetupInv => TypeOK
  BY DEF SetupInv
<1> QED
  BY <1>1, <1>2, <1>3, PTL DEF Spec

(* Neither report ever calls ready what the preflight would deny: profiles, *)
(* roles and tests may change in any order, and saves fail or be dropped.   *)
THEOREM ReportsTellTheTruth == Spec => []ReadyMeansAllowed
<1>1. Init => SetupInv
  BY SetupInit
<1>2. SetupInv /\ [Next]_vars => SetupInv'
  BY SetupStep
<1>3. SetupInv => ReadyMeansAllowed
  BY SoundSettingsAgree DEF SetupInv, TypeOK, ReadyMeansAllowed
<1> QED
  BY <1>1, <1>2, <1>3, PTL DEF Spec

-----------------------------------------------------------------------------
(* The files that the plugin finds at first give no trust to a provider     *)
(* that may not have it; one made by hand might, as a parse does not look.  *)
FilesTrustSoundly == \A f \in Files \ {None, Unreadable} : TrustSound(ParseSettings(f))

TrustInv ==
    /\ TrustSound(settings) /\ TrustSound(saving.next)
    /\ disk \notin {None, Unreadable} => TrustSound(ParseSettings(disk))

LEMMA TrustInit == FilesTrustSoundly /\ Init => TrustInv
<1> SUFFICES ASSUME FilesTrustSoundly, Init
             PROVE  TrustInv
  OBVIOUS
<1>1. saving.next = DefaultSettings /\ settings = DefaultSettings /\ disk \in Files
  BY DEF Init, NoSave
<1> QED
  BY <1>1, DefaultsAreSettings DEF TrustInv, FilesTrustSoundly

LEMMA TrustStep ==
  ASSUME SetupInv, TrustInv, [Next]_vars
  PROVE  TrustInv'
<1>1. SettingsStep
  BY SettingsChange DEF SetupInv
<1>2. TrustSound(settings')
  BY <1>1, DefaultsAreSettings DEF SettingsStep, TrustInv
<1>3. TrustSound(saving'.next)
  <2>1. NoSave.next = DefaultSettings
    BY DEF NoSave
  <2>2. CASE saving' \in {saving, NoSave}
    BY <2>1, <2>2, DefaultsAreSettings DEF TrustInv
  <2>3. CASE saving' \notin {saving, NoSave}
    BY <1>1, <2>3 DEF SettingsStep, SavingStep, Follows, TrustInv
  <2> QED
    BY <2>2, <2>3
<1>4. ASSUME disk' \notin {None, Unreadable}
      PROVE  TrustSound(ParseSettings(disk'))
  <2>1. TrustSound(ParseSettings(saving.next))
    BY ParsedTrust DEF SetupInv, TypeOK, SavesParse, TrustInv
  <2> QED
    BY <1>1, <1>4, <2>1 DEF SettingsStep, TrustInv
<1> QED
  BY <1>2, <1>3, <1>4 DEF TrustInv, TrustSound, Registered, Definition

(* Trust stays with providers that may be trusted, in memory and in what a  *)
(* restart reads, from any files where it does: a profile that is replaced  *)
(* or deleted loses it, also when that save fails, is dropped or is torn.   *)
THEOREM TrustStays == FilesTrustSoundly /\ Spec => []TrustIsForTheCloud
<1>1. FilesTrustSoundly /\ Init => SetupInv /\ TrustInv
  BY SetupInit, TrustInit
<1>2. SetupInv /\ TrustInv /\ [Next]_vars => (SetupInv /\ TrustInv)'
  BY SetupStep, TrustStep
<1>3. SetupInv /\ TrustInv => TrustIsForTheCloud
  BY DEF TrustInv, TrustIsForTheCloud, TrustSound
<1> QED
  BY <1>1, <1>2, <1>3, PTL DEF Spec

=============================================================================
