------------------------------ MODULE MCService -------------------------------
(***************************************************************************)
(* A few days in the life of a service, each an initial state.             *)
(***************************************************************************)
EXTENDS Service, TLC

CONSTANTS p1, p2, p3, d1, d2, c1, c2

MCDeployers == {d1, d2}

M(name, sha) == [name |-> name, sha256 |-> sha]

\* The second checkout has one file more, or has edited the first.
MCCheckout ==
    d1 :> <<M("0001_core", 1), M("0011_provision_tenant", 1)>>
 @@ d2 :> <<M("0001_core", 1), M("0011_provision_tenant", 1), M("0012_languages", 1)>>

MCSupported == {"de", "tr"}

Email(folded) == [folded |-> folded, valid |-> TRUE]

Ask(kind, session, key, target) ==
    [kind |-> kind, session |-> session, key |-> key, target |-> target,
     password |-> TRUE, locale |-> "tr", wants |-> None, malformed |-> FALSE]

Signup(name, suffix, email, locale) ==
    [kind |-> "signup", name |-> name, suffix |-> suffix, email |-> Email(email),
     locale |-> locale, taxId |-> "vat", password |-> TRUE,
     session |-> None, key |-> None, target |-> None, malformed |-> FALSE]

-----------------------------------------------------------------------------

\* An account that is there already, with a document of its own.
Account ==
    [tenants |-> {[tenant |-> "t0", slug |-> "Alt", locale |-> "de",
                   tax |-> [vatId |-> "vat", taxNumber |-> None]]},
     inboxes |-> {[tenant |-> "t0", address |-> <<"Alt", 0>>]},
     users |-> {[tenant |-> "t0", email |-> "alt", role |-> "owner",
                 locale |-> "de", mfa |-> FALSE]},
     keys |-> {[id |-> "k0", tenant |-> "t0", revokedAt |-> {}]},
     documents |-> {[id |-> "doc0", tenant |-> "t0"]}]

Empty == [tenants |-> {}, inboxes |-> {}, users |-> {}, keys |-> {}, documents |-> {}]

Rows(a) == /\ tenants = a.tenants /\ inboxes = a.inboxes /\ users = a.users
           /\ keys = a.keys /\ documents = a.documents

Script(a, b, c) == op = (p1 :> a @@ p2 :> b @@ p3 :> c)

All == {"0001_core", "0011_provision_tenant", "0012_languages"}

\* Two people sign up at a time, with one name or one address; the first one
\* looks at the account, or at the other's document.
SigningUp ==
    /\ Rows([Empty EXCEPT !.documents = {[id |-> "doc2", tenant |-> p2]}])
    /\ \E name \in {"A", "B", "long"}, email \in {"a", "b"}, locale \in {"de", "fi"},
          view \in {Ask("tenant", p1, None, None), Ask("document", p1, None, "doc2"),
                    Ask("document", p2, None, "doc2")} :
          Script(Signup("A", 1, "a", "de"), Signup(name, 2, email, locale), view)

\* The account is used from several places, by its owner or by a colleague.
Using ==
    /\ \E part \in {"owner", "viewer"} :
           Rows([Account EXCEPT !.users = {[u EXCEPT !.role = part] : u \in @}])
    /\ \E s \in {<<Ask("tenant", "t0", None, None), Ask("document", "t0", None, "doc0"),
                   Ask("tenant", None, "k0", None)>>,
                 <<Ask("language", "t0", None, None), Ask("tenant", "t0", None, None),
                   Ask("ready", None, None, None)>>,
                 <<Ask("language", "t0", None, None),
                   [Ask("language", "t0", None, None) EXCEPT !.locale = "fi"],
                   Ask("language", None, "k0", None)>>,
                 <<Ask("revokeKey", "t0", None, "k0"), Ask("revokeKey", "t0", None, "k0"),
                   Ask("document", None, "k0", "doc0")>>,
                 <<Ask("createKey", "t0", None, None), Ask("tenant", None, p1, None),
                   Ask("listKeys", "t0", None, None)>>,
                 <<Ask("revokeKey", "t0", None, "k0"), Ask("tenant", None, None, None),
                   Ask("tenant", None, "k0", None)>>,
                 <<[Ask("createKey", "t0", None, None) EXCEPT !.password = FALSE],
                   [Ask("document", "t0", None, "other") EXCEPT !.malformed = TRUE],
                   [Ask("document", "t0", None, "doc0") EXCEPT !.wants = "de"]>>} :
          Script(s[1], s[2], s[3])

\* The database has the files in `names`, put there by the deployers in `by`.
Provisioned(names, by) ==
    /\ schema = names
    /\ recorded = [n \in names |-> 1]
    /\ role = "plain" /\ up = TRUE
    /\ dep = [d \in Deployers |->
                 IF d \in by
                 THEN [pc |-> "ready", already |-> Install!NoRecord, at |-> 1,
                       tries |-> MaxTries]
                 ELSE [pc |-> "idle", already |-> Install!NoRecord, at |-> 1,
                       tries |-> 0]]

\* The next release is deployed while a customer comes, and asks for a
\* language that it does not have.
Upgrading ==
    /\ Rows(Empty) /\ Provisioned(All \ {"0012_languages"}, {d1})
    /\ \E locale \in {"de", "fi"} :
          Script(Signup("A", 1, "a", locale),
                 [Ask("language", p1, None, None) EXCEPT !.locale = "fi"],
                 Ask("ready", None, None, None))

\* A virgin database: two deployers of two releases, and somebody who comes
\* while they are at it.
Deploying ==
    /\ Rows(Empty) /\ Install!InstallationInit /\ up = FALSE
    /\ Script(Signup("A", 1, "a", "fi"),
              Ask("tenant", None, None, None), Ask("tenant", None, None, None))

MCInit ==
    /\ \/ Provisioned(All, Deployers) /\ (SigningUp \/ Using)
       \/ Upgrading \/ Deploying
    /\ ServiceInit

MCSpec == MCInit /\ [][ServiceNext]_serviceVars /\ ServiceFairness

=============================================================================
