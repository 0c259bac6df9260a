------------------------------- MODULE Service --------------------------------
(***************************************************************************)
(* The API on a database that is being provisioned: the migrations in      *)
(* force are what Tenancy's statements meet, and the rows Tenancy has      *)
(* committed are what a migration's constraints meet.                      *)
(***************************************************************************)
EXTENDS Tenancy, Releases

VARIABLES
    role, recorded, dep,    \* see Installation
    up                      \* the API process serves

Install == INSTANCE Installation
    WITH applied <- schema,
         LanguagesFile <- "0012_languages",
         locales <- {r.locale : r \in tenants \cup users},
         writing <- \E q \in Requests :
                       /\ req[q].staged # {}
                       /\ op[q].kind \in {"signup", "language"}

installed == <<schema, role, recorded, dep>>
serviceVars == <<service, schema, role, recorded, dep, up>>

\* assertRlsEnforced, once and before anything is served: a role that steps
\* around Row Level Security stops the process.
Starts ==
    /\ ~ up /\ role = "plain"
    /\ up' = TRUE
    /\ UNCHANGED <<service, installed>>

Serves == up /\ Next /\ UNCHANGED <<installed, up>>

Provisions == Install!InstallationNext /\ UNCHANGED <<service, up>>

ServiceNext == Starts \/ Serves \/ Provisions

\* The process runs, the database answers, and the pool's timer fires.
ServiceFairness ==
    /\ \A q \in Requests :
           WF_serviceVars(up /\ Step(q) /\ UNCHANGED <<installed, up>>)
    /\ WF_serviceVars(/\ up /\ UNCHANGED <<installed, up>>
                      /\ \E t \in Task : CheckoutTimesOut(t))

\* A database that is ready stays ready for the checkout that made it so.
ReadyIsCurrent == Install!ReadyIsCurrent

\* A database of earlier deployments: those who ran them have come through, or
\* have yet to start.
Deployed ==
    /\ role \in {"plain", "bypass"} /\ recorded \in Install!Record
    /\ dep \in [Deployers -> [pc : {"idle", "ready"}, already : Install!Record,
                              at : Nat \ {0}, tries : Nat]]
    /\ ReadyIsCurrent

\* The service starts on a virgin database, or where it left off.
ServiceInit ==
    /\ Init /\ (Install!InstallationInit \/ Deployed)
    /\ up \in BOOLEAN /\ (up => role = "plain")

ServiceSpec == ServiceInit /\ [][ServiceNext]_serviceVars

=============================================================================
