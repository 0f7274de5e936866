---------------------------- MODULE MCProviderSetup ----------------------------
(***************************************************************************)
(* Constants for model checking ProviderSetup: a provider of the user, and *)
(* the local provider of the registry.                                     *)
(***************************************************************************)
EXTENDS ProviderSetup, TLC

CONSTANTS mine, fixture, talk, embed, here, away, key, old

MCBaselineOf ==
    fixture :> [cloud |-> FALSE, trust |-> "local-runtime", class |-> None, mine |-> FALSE,
                models |-> {talk}]

MCRolesOf == talk :> {"chat"} @@ embed :> {"embedding"}

(* A file made by hand: a remote provider, tested and trusted. *)
MadeByHand ==
    [DefaultSettings EXCEPT
        !.profiles[mine] = [kind |-> "openai-compatible", cloud |-> TRUE,
                            trust |-> "trusted-cloud", declared |-> None,
                            endpoint |-> away, ref |-> old, models |-> {talk, embed}],
        !.trusted = {mine}, !.cloud = TRUE,
        !.statuses[mine] = [result |-> "passed", readiness |-> "none", found |-> {}],
        !.roles["chat"] = [provider |-> mine, model |-> talk]]

SomeFiles == {None, MadeByHand}

=============================================================================
