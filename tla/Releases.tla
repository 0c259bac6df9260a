------------------------------- MODULE Releases -------------------------------
(***************************************************************************)
(* What is deployed: the migration files each deployer has checked out.    *)
(***************************************************************************)
EXTENDS Naturals, Sequences

CONSTANTS
    Deployers,          \* the runs of `pnpm provision`, one after a release
    Checkout,           \* of each deployer, its files in the order of names
    MaxTries            \* bound: how often a deployer is started

File == UNION {{Checkout[d][i] : i \in DOMAIN Checkout[d]} : d \in Deployers}

ASSUME CheckoutsAreLists ==
    /\ MaxTries \in Nat
    /\ \A d \in Deployers : Checkout[d] \in Seq(File)

=============================================================================
