----------------------------- MODULE Installation -----------------------------
(***************************************************************************)
(* How a database becomes one the service may run on: provision.ts, the    *)
(* migrations runner and the check of the application role.  Several       *)
(* deployers, each with its own checkout of the migration files, may run   *)
(* it beside each other, may be interrupted at every step and may be       *)
(* started again.                                                          *)
(***************************************************************************)
EXTENDS Releases

CONSTANTS
    LanguagesFile,      \* 0012, which constrains rows that are there already
    Supported           \* the locales 0012 accepts

VARIABLES
    role,               \* the application role: absent, plain or bypass
    applied,            \* the migrations whose statements took effect
    recorded,           \* schema_migrations: name -> sha256
    dep,                \* the deployers
    locales,            \* the locales of the accounts there are; not ours
    writing             \* a transaction is writing to accounts; not ours

installation == <<role, applied, recorded, dep>>

\* A record of migrations: from names to digests.
Record == UNION {[N -> {f.sha256 : f \in File}] : N \in SUBSET {f.name : f \in File}}
NoRecord == [n \in {} |-> n]

InstallationInit ==
    /\ role \in {"absent", "plain", "bypass"}
    /\ applied = {} /\ recorded = NoRecord
    /\ dep = [d \in Deployers |->
                 [pc |-> "idle", already |-> NoRecord, at |-> 1, tries |-> 0]]

-----------------------------------------------------------------------------

Ends(d, pc) == dep' = [dep EXCEPT ![d].pc = pc]

\* The owner runs the script: first it counts the roles of that name.
LookForRole(d) ==
    /\ dep[d].pc \in {"idle", "failed"} /\ dep[d].tries < MaxTries
    /\ dep' = [dep EXCEPT ![d] =
                  [pc |-> IF role = "absent" THEN "create" ELSE "read",
                   already |-> NoRecord, at |-> 1, tries |-> @.tries + 1]]
    /\ UNCHANGED <<role, applied, recorded>>

\* CREATE ROLE, which fails when somebody created it since.
CreateRole(d) ==
    /\ dep[d].pc = "create"
    /\ role' = IF role = "absent" THEN "plain" ELSE role
    /\ Ends(d, IF role = "absent" THEN "read" ELSE "failed")
    /\ UNCHANGED <<applied, recorded>>

\* The grants, the extensions and the table; then what has been applied is
\* read, once for the whole run.
ReadApplied(d) ==
    /\ dep[d].pc = "read"
    /\ dep' = [dep EXCEPT ![d].pc = "files", ![d].already = recorded]
    /\ UNCHANGED <<role, applied, recorded>>

AtFile(d) == dep[d].pc = "files" /\ dep[d].at <= Len(Checkout[d])
Current(d) == Checkout[d][dep[d].at]
Moves(d) == dep' = [dep EXCEPT ![d].at = @ + 1]

\* A file that was applied is skipped, and one that changed since is refused.
SkipOrRefuse(d) ==
    /\ AtFile(d) /\ Current(d).name \in DOMAIN dep[d].already
    /\ IF dep[d].already[Current(d).name] = Current(d).sha256
       THEN Moves(d)
       ELSE Ends(d, "failed")
    /\ UNCHANGED <<role, applied, recorded>>

\* A constraint on a table waits for the transactions that write to it.
Waits(f) == f.name = LanguagesFile /\ writing

\* What the statements of a file need of the database: that they have not
\* run (a table or a column cannot be added twice, and the record is a
\* primary key), and that the rows satisfy a constraint that is added.
Runs(f) ==
    /\ f.name \notin applied /\ f.name \notin DOMAIN recorded
    /\ f.name = LanguagesFile => locales \subseteq Supported

\* INSERT INTO schema_migrations.
With(f) == [n \in DOMAIN recorded \cup {f.name} |->
               IF n = f.name THEN f.sha256 ELSE recorded[n]]

\* Variant: the record is written before the statements, outside of their
\* transaction, and stays when they fail.
ApplyMigrationRecordsFirst(d) ==
    /\ AtFile(d) /\ Current(d).name \notin DOMAIN dep[d].already
    /\ Current(d).name \notin DOMAIN recorded /\ ~ Waits(Current(d))
    /\ recorded' = With(Current(d))
    /\ IF Runs(Current(d))
       THEN Moves(d) /\ applied' = applied \cup {Current(d).name}
       ELSE Ends(d, "failed") /\ UNCHANGED applied
    /\ UNCHANGED role

\* One transaction for a file and its record.
ApplyMigration(d) ==
    /\ AtFile(d) /\ Current(d).name \notin DOMAIN dep[d].already
    /\ ~ Waits(Current(d))
    /\ Runs(Current(d))
    /\ applied' = applied \cup {Current(d).name}
    /\ recorded' = With(Current(d))
    /\ Moves(d)
    /\ UNCHANGED role

\* ROLLBACK: the database is left on the last complete migration.
MigrationFails(d) ==
    /\ AtFile(d) /\ Current(d).name \notin DOMAIN dep[d].already
    /\ ~ Waits(Current(d))
    /\ ~ Runs(Current(d))
    /\ Ends(d, "failed")
    /\ UNCHANGED <<role, applied, recorded>>

\* Connected as the application role: Row Level Security binds it, the
\* history tables give it no UPDATE and no DELETE, and the triggers that
\* protect documents are there.  What the last two read is what the
\* migrations left.
Verify(d) ==
    /\ dep[d].pc = "files" /\ dep[d].at > Len(Checkout[d])
    /\ Ends(d, IF role = "plain" THEN "ready" ELSE "failed")
    /\ UNCHANGED <<role, applied, recorded>>

\* The connection is lost, the process is stopped or the password does not
\* fit: whatever transaction was open is gone.
Interrupted(d) ==
    /\ dep[d].pc \in {"create", "read", "files"}
    /\ Ends(d, "failed")
    /\ UNCHANGED <<role, applied, recorded>>

InstallationNext ==
    \E d \in Deployers :
        \/ LookForRole(d)    \/ CreateRole(d)     \/ ReadApplied(d)
        \/ SkipOrRefuse(d)   \/ ApplyMigration(d) \/ MigrationFails(d)
        \/ Verify(d)         \/ Interrupted(d)

InstallationSpec == InstallationInit /\ [][InstallationNext]_installation

-----------------------------------------------------------------------------

\* A deployer that says "Ready" leaves a database in which every file of its
\* checkout took effect, word for word as it has it, under a role that Row
\* Level Security binds; and schema_migrations never says of a file that it
\* was applied when it was not, nor leaves one out, however many deployers
\* run, fail and run again.
ReadyIsCurrent ==
    /\ DOMAIN recorded = applied
    /\ \A d \in Deployers : dep[d].pc = "ready" =>
           /\ role = "plain"
           /\ \A i \in DOMAIN Checkout[d] :
                  /\ Checkout[d][i].name \in applied
                  /\ recorded[Checkout[d][i].name] = Checkout[d][i].sha256

=============================================================================
