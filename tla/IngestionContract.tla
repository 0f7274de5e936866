-------------------------- MODULE IngestionContract --------------------------
(***************************************************************************)
(* What a batch of sources promises, whatever workers, providers, signals  *)
(* and other batches do: the outcome of an item is decided once and for    *)
(* all, and the changes of exactly the staged items reach the list of      *)
(* staged changes, together, when every item is decided; or the batch is   *)
(* given up and none does.                                                 *)
(***************************************************************************)
EXTENDS Naturals, Sequences

CONSTANTS
    Runs,       \* runs of the queue
    Positions,  \* positions in a batch
    Targets,    \* paths of the notes that sources become
    TargetsOf,  \* those of each source
    Batches     \* batches that may be submitted, sequences of sources

VARIABLES
    batch,      \* what each run was given
    outcome,    \* of each of its items
    verdict,    \* on the run as a whole
    listed      \* paths with an active change on the list

vars == <<batch, outcome, verdict, listed>>

Outcomes == {"staged", "failed", "canceled", "skipped"}

Init ==
    /\ batch = [r \in Runs |-> <<>>]
    /\ outcome = [r \in Runs |-> [i \in Positions |-> "open"]]
    /\ verdict = [r \in Runs |-> "open"]
    /\ listed = {}

Submit(r, b) ==
    /\ batch[r] = <<>>
    /\ verdict[r] = "open"
    /\ batch' = [batch EXCEPT ![r] = b]
    /\ UNCHANGED <<outcome, verdict, listed>>

SettleItems ==
    /\ outcome' \in [Runs -> [Positions -> Outcomes \cup {"open"}]]
    /\ \A r \in Runs, i \in Positions :
          outcome[r][i] # "open" => outcome'[r][i] = outcome[r][i]

DecideItems ==
    /\ SettleItems
    /\ UNCHANGED <<batch, verdict, listed>>

(* The plugin is unloaded: the list lives in memory. *)
Unload ==
    /\ SettleItems
    /\ listed' = {}
    /\ UNCHANGED <<batch, verdict>>

Staged(r) == {i \in DOMAIN batch[r] : outcome[r][i] = "staged"}

Publish(r) ==
    /\ verdict[r] = "open"
    /\ batch[r] # <<>>
    /\ \A i \in DOMAIN batch[r] : outcome[r][i] # "open"
    /\ verdict' = [verdict EXCEPT ![r] = "published"]
    /\ listed' = listed \cup UNION {TargetsOf[batch[r][i]] : i \in Staged(r)}
    /\ UNCHANGED <<batch, outcome>>

GiveUp(r) ==
    /\ verdict[r] = "open"
    /\ verdict' = [verdict EXCEPT ![r] = "givenUp"]
    /\ UNCHANGED <<batch, outcome, listed>>

(* Other flows stage changes, and the user decides on them. *)
OthersChange(t) ==
    /\ listed' \in {listed \cup {t}, listed \ {t}}
    /\ UNCHANGED <<batch, outcome, verdict>>

Next ==
    \/ DecideItems \/ Unload
    \/ \E r \in Runs : Publish(r) \/ GiveUp(r) \/ \E b \in Batches : Submit(r, b)
    \/ \E t \in Targets : OthersChange(t)

Spec == Init /\ [][Next]_vars

=============================================================================
