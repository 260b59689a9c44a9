----------------------------- MODULE Deployment -----------------------------
(***************************************************************************)
(* What athena-js migrate promises (docs/migrations.md): however runs      *)
(* overlap and fail, files take effect whole, one at a time, each once and *)
(* in order of their versions, and only onto a history that agrees with    *)
(* the files of the run.  Locks, ledger, transactions and connections are  *)
(* the means of Migrations, which implements this.                         *)
(***************************************************************************)
EXTENDS Integers

CONSTANTS Runners, Versions, Sums, Setups, NoFile

VARIABLES
    setup,    \* each run's mode and files
    ran,      \* how often the SQL of each file took effect
    outcome   \* how each run ended

vars == <<setup, ran, outcome>>

Local(r) == setup[r].files
InEffect(v) == {s \in Sums : ran[v][s] > 0}

Init ==
    /\ setup \in Setups
    /\ ran = [v \in Versions |-> [s \in Sums |-> 0]]
    /\ outcome = [r \in Runners |-> "running"]

\* The next file of a migrate.
Deploy(r) ==
    /\ outcome[r] = "running" /\ setup[r].mode = "apply"
    /\ \A v \in Versions : InEffect(v) \subseteq {Local(r)[v]}
    /\ \E v \in Versions :
        /\ Local(r)[v] # NoFile /\ InEffect(v) = {}
        /\ \A u \in Versions : u < v /\ Local(r)[u] # NoFile => InEffect(u) # {}
        /\ ran' = [ran EXCEPT ![v][Local(r)[v]] = 1]
    /\ UNCHANGED <<setup, outcome>>

\* A migrate succeeds when all its files are in effect.
End(r) ==
    /\ outcome[r] = "running"
    /\ \E how \in {"resolved", "rejected", "crashed"} :
        /\ how = "resolved" /\ setup[r].mode = "apply" =>
              \A v \in Versions : Local(r)[v] # NoFile => InEffect(v) = {Local(r)[v]}
        /\ outcome' = [outcome EXCEPT ![r] = how]
    /\ UNCHANGED <<setup, ran>>

Next == \E r \in Runners : Deploy(r) \/ End(r)
Spec == Init /\ [][Next]_vars
=============================================================================
