------------------------------- MODULE Tenancy --------------------------------
(***************************************************************************)
(* The API beside its database: a pool of few connections, the scope a     *)
(* connection carries while a request works in a tenant, and the requests  *)
(* that make tenants, look at them and change their settings.              *)
(*                                                                         *)
(* A request runs to its next await in one step.  A task is a request and  *)
(* what it wants a connection for: its own work ("main"), the second       *)
(* authentication a view makes while it holds a connection already         *)
(* ("inner"), and the updates of a session's last use that nobody awaits,  *)
(* one for each authentication ("touch" and "retouch").  The migrations up *)
(* to 0010 are one here, under the name of the first.                      *)
(***************************************************************************)
EXTENDS Naturals, Sequences, FiniteSets, SequencesExt

CONSTANTS
    Requests,           \* the requests; a signup's name is its tenant's id
    Connections,        \* the connections of the pool
    Supported,          \* the locales migration 0012 accepts
    MaxLosses,          \* bound: connections lost
    None

Roles == {"main", "inner", "touch", "retouch"}

ASSUME NobodyAssumption == None \notin Requests /\ None \notin Requests \X Roles

VARIABLES
    op,                 \* what each request asks
    req,                \* how far each request is
    pool,               \* connections and the queue for them
    tenants, inboxes, users, keys, documents,       \* committed rows
    losses,             \* connections lost so far
    schema              \* the migrations in force; not ours

tables == <<tenants, inboxes, users, keys, documents>>
service == <<op, req, pool, tables, losses>>

Task == Requests \X Roles

-----------------------------------------------------------------------------
(* The pool.                                                               *)

Clean == [holder |-> None, scope |-> None, tx |-> "none"]

Idle(p) == {c \in Connections : p.conn[c].holder = None}

\* pool.connect(): an idle connection, or a place in the queue.
Connect(p, t) ==
    IF Idle(p) # {}
    THEN [p EXCEPT !.conn[CHOOSE c \in Idle(p) : TRUE].holder = t]
    ELSE [p EXCEPT !.waiting = Append(@, t)]

Has(p, t) == \E c \in Connections : p.conn[c].holder = t
Of(p, t) == CHOOSE c \in Connections : p.conn[c].holder = t

\* client.release(): to the next in the queue, or idle.
Release(p, t) ==
    IF p.waiting = <<>>
    THEN [p EXCEPT !.conn[Of(p, t)].holder = None]
    ELSE [p EXCEPT !.conn[Of(p, t)].holder = Head(p.waiting),
                   !.waiting = Tail(@)]

\* BEGIN and set_config('app.tenant_id', id, true).
Scope(p, t, tenant) ==
    [p EXCEPT !.conn[Of(p, t)] =
        [holder |-> t, scope |-> tenant, tx |-> "open"]]

\* Variant: set_config(..., false), a setting of the session.
EndScopeOfSession(p, t) ==
    Release([p EXCEPT !.conn[Of(p, t)].tx = "none"], t)

\* COMMIT or ROLLBACK ends the transaction and the setting that is local to
\* it; the connection is released.
EndScope(p, t) ==
    Release([p EXCEPT !.conn[Of(p, t)] = [Clean EXCEPT !.holder = t]], t)

\* A broken connection is dropped on release, and a new one takes its place.
Replace(p, t) == EndScope(p, t)

InnerHeld(p, q) == Has(p, <<q, "inner">>)

-----------------------------------------------------------------------------
(* Who asks.                                                               *)

\* authenticate_session: the session of the owner of a tenant.
AuthenticateSession(tenant) == {u \in users : u.tenant = tenant}

\* authenticate_api_key.
AuthenticateApiKey(key) == {k \in keys : k.id = key /\ k.revokedAt = {}}

\* Both credentials lead to a tenant, and only a session to a person.
KeyPrincipals(key) ==
    {[tenant |-> k.tenant, role |-> None, locale |-> None] :
        k \in AuthenticateApiKey(key)}
SessionPrincipals(session) ==
    {[tenant |-> u.tenant, role |-> u.role, locale |-> u.locale] :
        u \in AuthenticateSession(session)}

Authenticate(o) ==
    IF o.key # None THEN KeyPrincipals(o.key) ELSE SessionPrincipals(o.session)

\* Routes that ask for a person, and of those, for the owner.
ForOwners == {"listKeys", "createKey", "revokeKey"}
ForPersons == {"language"} \cup ForOwners

\* What keeps a caller who is known from going on: a route for persons, a
\* route for the owner, a request that makes no sense.
Refused(o, who) ==
    IF o.kind \in ForPersons /\ who.role = None THEN 401
    ELSE IF o.kind \in ForOwners /\ who.role # "owner" THEN 403
    ELSE IF o.malformed THEN 400 ELSE 0

\* Row Level Security: what a connection with this scope sees of a table.
Visible(rows, scope) == {r \in rows : r.tenant = scope}

-----------------------------------------------------------------------------
(* A request's record.                                                     *)

Fresh == [pc |-> "new", tenant |-> None, language |-> None, seen |-> {},
          staged |-> {}, answer |-> 0, told |-> "nothing"]

\* Every tenant has its inbox and every inbox its tenant; an address is one
\* person's; and the languages are those 0012 accepts, once it is in force.
InboxesMatch == {t.tenant : t \in tenants} = {i.tenant : i \in inboxes}
EmailsDiffer == \A u, v \in users : u.email = v.email => u = v
LocalesAccepted ==
    "0012_languages" \in schema =>
        \A r \in tenants \cup users : r.locale \in Supported

IsUser(u) == u = [tenant |-> u.tenant, email |-> u.email, role |-> u.role,
                  locale |-> u.locale, mfa |-> u.mfa]

\* What there is before: keys, each of some tenant and with an id of its own,
\* none of which is the id of one that is minted later; and accounts, none of
\* which is one that is signed up later.
Possible ==
    /\ \A k \in keys : k.tenant # None /\ k.id \notin Requests
    /\ \A k, l \in keys : k.id = l.id => k = l
    /\ InboxesMatch /\ EmailsDiffer /\ LocalesAccepted
    /\ \A u \in users : IsUser(u) /\ u.tenant \notin Requests

Init ==
    /\ Possible
    /\ req = [q \in Requests |-> Fresh]
    /\ pool = [conn |-> [c \in Connections |-> Clean], waiting |-> <<>>]
    /\ losses = 0

ScopeOf(q) == pool.conn[Of(pool, <<q, "main">>)].scope
At(q, pc) == req[q].pc = pc /\ Has(pool, <<q, "main">>)

\* The request is answered and has nothing left to do.
Done(r, code) == [r EXCEPT !.pc = "done", !.staged = {},
                           !.answer = IF @ = 0 THEN code ELSE @]

Ends(q, code) == req' = [req EXCEPT ![q] = Done(@, code)]

\* A statement failed: ROLLBACK, then the error is answered.
Fails(q, code) ==
    /\ req' = [req EXCEPT ![q].pc = "rollback", ![q].answer = code,
                          ![q].staged = {}]
    /\ UNCHANGED <<pool, tables>>

-----------------------------------------------------------------------------
(* Arrival.                                                                *)

\* The checks of a signup that need no database: a name of at most 200
\* letters, an address with an @, a password that can be hashed, a locale of
\* two letters.
WellFormed(o) ==
    /\ o.name \notin {"empty", "long"}
    /\ o.email.valid
    /\ o.password
    /\ o.locale # "malformed"

NeedsDatabase(o) ==
    CASE o.kind = "signup"   -> WellFormed(o)
      [] OTHER               -> o.key # None \/ o.session # None
                                  \/ o.kind = "ready"

FirstStep(o) == CASE o.kind = "signup" -> "provision"
                  [] o.kind = "ready"  -> "probe"
                  [] OTHER             -> "authenticate"

\* A key that was revoked, and the caller told so, before this request came
\* with it.
ToldRevoked(o) ==
    /\ o.kind \notin {"signup", "ready"} /\ o.key # None
    /\ \E q \in Requests : /\ op[q].kind = "revokeKey" /\ op[q].target = o.key
                           /\ req[q].answer = 200

Arrive(q) ==
    /\ req[q].pc = "new"
    /\ IF NeedsDatabase(op[q])
       THEN /\ req' = [req EXCEPT ![q].pc = FirstStep(op[q]),
                                  ![q].told = IF ToldRevoked(op[q])
                                              THEN "revoked" ELSE "nothing"]
            /\ pool' = Connect(pool, <<q, "main">>)
       ELSE /\ Ends(q, IF op[q].kind = "signup" THEN 400 ELSE 401)
            /\ UNCHANGED pool
    /\ UNCHANGED <<op, tables, losses>>

-----------------------------------------------------------------------------
(* Signing up: two transactions.                                           *)

\* The address: the slug of the name and a random suffix.
GenerateInboxAddress(o) == <<o.name, o.suffix>>

\* One field is asked for, and its shape decides the column.
TaxColumns(o) == [vatId     |-> IF o.taxId = "vat" THEN o.taxId ELSE None,
                  taxNumber |-> IF o.taxId = "number" THEN o.taxId ELSE None]

TenantRow(q, o) ==
    [tenant |-> q, slug |-> o.name, locale |-> o.locale, tax |-> TaxColumns(o)]

InboxRow(q, o) == [tenant |-> q, address |-> GenerateInboxAddress(o)]

\* Migration 0012 is in force, and the locale is not in its list.
Unsupported(locale) == "0012_languages" \in schema /\ locale \notin Supported

SlugTaken(o) == \E t \in tenants : t.slug = o.name
AddressTaken(o) == \E i \in inboxes : i.address = GenerateInboxAddress(o)

\* The answer of provision_tenant: both rows, or the code of its error.
ProvisionError(o) ==
    IF "0011_provision_tenant" \notin schema THEN 500
    ELSE IF Unsupported(o.locale) THEN 400
    ELSE IF SlugTaken(o) \/ AddressTaken(o) THEN 409 ELSE 0

\* Variant: two inserts that commit one by one, of which the second may fail.
ProvisionInTwo(q) ==
    /\ tenants' = tenants \cup {TenantRow(q, op[q])}
    /\ inboxes' \in {inboxes, inboxes \cup {InboxRow(q, op[q])}}
    /\ UNCHANGED <<users, keys, documents>>

ProvisionTenant(q) ==
    /\ tenants' = tenants \cup {TenantRow(q, op[q])}
    /\ inboxes' = inboxes \cup {InboxRow(q, op[q])}
    /\ UNCHANGED <<users, keys, documents>>

\* The function is called outside any scope, as a transaction of its own.
Provision(q) ==
    /\ At(q, "provision")
    /\ IF ProvisionError(op[q]) # 0
       THEN /\ Ends(q, ProvisionError(op[q]))
            /\ pool' = Release(pool, <<q, "main">>)
            /\ UNCHANGED tables
       ELSE /\ ProvisionTenant(q)
            /\ req' = [req EXCEPT ![q].pc = "begin", ![q].tenant = q]
            /\ pool' = Connect(Release(pool, <<q, "main">>), <<q, "main">>)
    /\ UNCHANGED <<op, losses>>

OwnerRow(q, o) ==
    [tenant |-> q, email |-> o.email.folded, role |-> "owner",
     locale |-> o.locale, mfa |-> FALSE]

\* A unique index on lower(email): a row of a transaction that has not ended
\* makes the next one wait for its end.
EmailStaged(o) ==
    \E p \in Requests : \E u \in req[p].staged :
        op[p].kind = "signup" /\ u.email = o.email.folded

EmailTaken(o) == \E u \in users : u.email = o.email.folded

InsertOwner(q) ==
    /\ op[q].kind = "signup" /\ At(q, "body")
    /\ ~ EmailStaged(op[q])
    /\ IF Unsupported(op[q].locale) THEN Fails(q, 400)
       ELSE IF EmailTaken(op[q]) THEN Fails(q, 409)
       ELSE /\ req' = [req EXCEPT ![q].pc = "commit",
                                  ![q].staged = {OwnerRow(q, op[q])}]
            /\ UNCHANGED <<pool, tables>>
    /\ UNCHANGED <<op, losses>>

-----------------------------------------------------------------------------
(* Every other request authenticates first, on a connection of its own.    *)

Touches(o) == o.key = None

\* The caller is known, or is not, and may be refused all the same.  What
\* follows runs before anything else can: the touch asks for its connection,
\* then the transaction for the next.
Authenticates(q) ==
    /\ At(q, "authenticate")
    /\ LET freed == Release(pool, <<q, "main">>)
           who == Authenticate(op[q])
       IN  IF "0001_core" \notin schema
           THEN Ends(q, 500) /\ pool' = freed
           ELSE IF who = {}
           THEN Ends(q, 401) /\ pool' = freed
           ELSE \E w \in who :
               LET touched == IF Touches(op[q])
                              THEN Connect(freed, <<q, "touch">>) ELSE freed
               IN  IF Refused(op[q], w) # 0
                   THEN Ends(q, Refused(op[q], w)) /\ pool' = touched
                   ELSE /\ req' = [req EXCEPT ![q].pc = "begin",
                                              ![q].tenant = w.tenant]
                        /\ pool' = Connect(touched, <<q, "main">>)
    /\ UNCHANGED <<op, tables, losses>>

\* touch_session, which nobody waits for.
Touch(q) ==
    /\ \E role \in {"touch", "retouch"} :
           /\ Has(pool, <<q, role>>)
           /\ pool' = Release(pool, <<q, role>>)
    /\ UNCHANGED <<op, req, tables, losses>>

Begin(q) ==
    /\ At(q, "begin")
    /\ pool' = Scope(pool, <<q, "main">>, req[q].tenant)
    /\ req' = [req EXCEPT ![q].pc = "body"]
    /\ UNCHANGED <<op, tables, losses>>

-----------------------------------------------------------------------------
(* The views.                                                              *)

\* GET /v1/tenant and GET /v1/documents/:id read their row.  The one that is
\* not visible and the one that does not exist are answered alike.  Then the
\* caller's language is asked for: a second authentication, on a second
\* connection, while the first is held.
SubjectOf(o, scope) ==
    IF o.kind = "document"
    THEN {d \in Visible(documents, scope) : d.id = o.target}
    ELSE {t \in Visible(tenants, scope) : t.tenant = scope}

ReadSubject(q) ==
    /\ op[q].kind \in {"tenant", "document"} /\ At(q, "body")
    /\ LET rows == SubjectOf(op[q], ScopeOf(q))
       IN  IF rows = {}
           THEN /\ req' = [req EXCEPT ![q].pc = "commit", ![q].answer = 404]
                /\ UNCHANGED pool
           ELSE /\ req' = [req EXCEPT ![q].pc = "language", ![q].seen = rows]
                /\ pool' = Connect(pool, <<q, "inner">>)
    /\ UNCHANGED <<op, tables, losses>>

\* resolveLanguage: a person's own setting, and none of a key, nor of a
\* caller whose credential has ended in the meantime.
ResolveLanguage(q) ==
    /\ req[q].pc = "language" /\ InnerHeld(pool, q)
    /\ LET freed == Release(pool, <<q, "inner">>)
           who == Authenticate(op[q])
       IN  /\ pool' = IF who # {} /\ Touches(op[q])
                      THEN Connect(freed, <<q, "retouch">>) ELSE freed
           /\ \E l \in IF who = {} THEN {None} ELSE {w.locale : w \in who} :
                  req' = [req EXCEPT ![q].pc = "rest", ![q].language = l]
    /\ UNCHANGED <<op, tables, losses>>

\* The rest is read and the answer is sent: before COMMIT.  The tenant's
\* locale is for callers who have none; explanations exist in German and
\* Turkish, and the language a request names wins.
TenantLocale(scope) ==
    (CHOOSE t \in Visible(tenants, scope) : t.tenant = scope).locale

LanguageOf(o, preferred) ==
    IF o.kind = "tenant" THEN preferred
    ELSE IF o.wants \in {"de", "tr"} THEN o.wants
    ELSE IF preferred = "tr" THEN "tr" ELSE "de"

AnswerView(q) ==
    /\ At(q, "rest")
    /\ LET scope == ScopeOf(q)
           own == req[q].language
           preferred == IF own = None THEN TenantLocale(scope) ELSE own
       IN  req' = [req EXCEPT
                      ![q].pc = "commit", ![q].answer = 200,
                      ![q].seen = req[q].seen \cup Visible(inboxes, scope),
                      ![q].language = LanguageOf(op[q], preferred)]
    /\ UNCHANGED <<op, pool, tables, losses>>

-----------------------------------------------------------------------------
(* The account.                                                            *)

\* A row another transaction has changed is waited for.
RowStaged(rows) ==
    \E p \in Requests : \E r \in req[p].staged :
        op[p].kind # "signup" /\ r \in rows

\* The statements, in the scope of a transaction: what each of them reads, or
\* the rows it writes.  A tenant has one person, the owner who signed
\* up, so the id in setUserLocale's WHERE names the one row in the scope.
GetAccountUser(scope) == Visible(users, scope)
SetUserLocale(scope, locale) ==
    {[u EXCEPT !.locale = locale] : u \in GetAccountUser(scope)}
ListApiKeys(scope) == Visible(keys, scope)
CreateApiKey(scope, id) == {[id |-> id, tenant |-> scope, revokedAt |-> {}]}

\* A key that is revoked is left alone.
RevokeApiKey(scope, id) ==
    {[id |-> id, tenant |-> scope, revokedAt |-> {"now"}] :
        k \in {k \in ListApiKeys(scope) : k.id = id /\ k.revokedAt = {}}}

Writes(q, rows) ==
    req' = [req EXCEPT ![q].pc = "commit", ![q].staged = rows]

\* PUT /v1/account/language.
SetLanguage(q) ==
    /\ op[q].kind = "language" /\ At(q, "body")
    /\ \A l \in Supported : ~ RowStaged(SetUserLocale(ScopeOf(q), l))
    /\ IF Unsupported(op[q].locale)
       THEN Fails(q, 400)
       ELSE /\ Writes(q, SetUserLocale(ScopeOf(q), op[q].locale))
            /\ UNCHANGED <<pool, tables>>
    /\ UNCHANGED <<op, losses>>

ListKeys(q) ==
    /\ op[q].kind = "listKeys" /\ At(q, "body")
    /\ req' = [req EXCEPT ![q].pc = "commit", ![q].answer = 200,
                          ![q].seen = ListApiKeys(ScopeOf(q))]
    /\ UNCHANGED <<op, pool, tables, losses>>

\* Minting a key asks for the password again, in a transaction of its own.
Reauthenticate(q) ==
    /\ op[q].kind = "createKey" /\ At(q, "body")
    /\ req[q].seen = {}
    /\ req' = [req EXCEPT ![q].pc = "commit",
                          ![q].seen = GetAccountUser(ScopeOf(q))]
    /\ UNCHANGED <<op, pool, tables, losses>>

CreateKey(q) ==
    /\ op[q].kind = "createKey" /\ At(q, "body")
    /\ req[q].seen # {}
    /\ Writes(q, CreateApiKey(ScopeOf(q), q))
    /\ UNCHANGED <<op, pool, tables, losses>>

\* DELETE /v1/api-keys/:id: a key of another tenant is not visible, and is
\* answered like one that is revoked already.
RevokeKey(q) ==
    /\ op[q].kind = "revokeKey" /\ At(q, "body")
    /\ ~ RowStaged(RevokeApiKey(ScopeOf(q), op[q].target))
    /\ Writes(q, RevokeApiKey(ScopeOf(q), op[q].target))
    /\ UNCHANGED <<op, pool, tables, losses>>

-----------------------------------------------------------------------------
(* The end of a transaction.                                               *)

Key(r) == r.id
Upsert(rows, new, key(_)) ==
    {r \in rows : \A n \in new : key(n) # key(r)} \cup new

TenantOf(r) == r.tenant

\* What COMMIT makes of the rows a request has written.
Committed(q) ==
    /\ users' = IF op[q].kind \in {"signup", "language"}
                THEN Upsert(users, req[q].staged, TenantOf) ELSE users
    /\ keys' = IF op[q].kind \in {"createKey", "revokeKey"}
               THEN Upsert(keys, req[q].staged, Key) ELSE keys
    /\ UNCHANGED <<tenants, inboxes, documents>>

AnswerOf(q) ==
    CASE op[q].kind \in {"signup", "createKey"} -> 201
      [] OTHER -> IF req[q].staged = {} THEN 404 ELSE 200

\* The password was right, so the key is minted; or the user is gone.
MintsNext(q) == op[q].kind = "createKey" /\ req[q].staged = {}

Commit(q) ==
    /\ At(q, "commit")
    /\ Committed(q)
    /\ IF MintsNext(q) /\ op[q].password /\ req[q].seen # {}
       THEN /\ req' = [req EXCEPT ![q].pc = "begin"]
            /\ pool' = Connect(EndScope(pool, <<q, "main">>), <<q, "main">>)
       ELSE /\ Ends(q, IF MintsNext(q) THEN 401 ELSE AnswerOf(q))
            /\ pool' = EndScope(pool, <<q, "main">>)
    /\ UNCHANGED <<op, losses>>

Rollback(q) ==
    /\ At(q, "rollback")
    /\ Ends(q, 500)
    /\ pool' = EndScope(pool, <<q, "main">>)
    /\ UNCHANGED <<op, tables, losses>>

\* GET /health/ready.
Probe(q) ==
    /\ At(q, "probe")
    /\ Ends(q, 200)
    /\ pool' = Release(pool, <<q, "main">>)
    /\ UNCHANGED <<op, tables, losses>>

-----------------------------------------------------------------------------
(* What goes wrong.                                                        *)

ErrorOf(o) == IF o.kind = "ready" THEN 503 ELSE 500

\* Variant: no connectionTimeoutMillis; who waits, waits.
NeverTimesOut(t) == FALSE /\ UNCHANGED service

\* Ten seconds in the queue.  A view that waited for its second connection
\* rolls back what it holds.
CheckoutTimesOut(t) ==
    /\ \E i \in DOMAIN pool.waiting :
           /\ pool.waiting[i] = t
           /\ pool' = [pool EXCEPT !.waiting = RemoveAt(@, i)]
    /\ req' = CASE t[2] = "main"  ->
                     [req EXCEPT ![t[1]] = Done(@, ErrorOf(op[t[1]]))]
                [] t[2] = "inner" ->
                     [req EXCEPT ![t[1]].pc = "rollback", ![t[1]].answer = 500]
                [] OTHER          -> req
    /\ UNCHANGED <<op, tables, losses>>

\* A connection breaks under a statement.  Of one that was to commit, nobody
\* knows whether it did.
Effects(q) ==
    \/ UNCHANGED tables
    \/ req[q].pc = "provision" /\ ProvisionError(op[q]) = 0 /\ ProvisionTenant(q)
    \/ req[q].pc = "commit" /\ Committed(q)

ConnectionLost(c) ==
    /\ losses < MaxLosses /\ losses' = losses + 1
    /\ pool.conn[c].holder # None
    /\ LET t == pool.conn[c].holder
           q == t[1]
       IN  CASE t[2] = "main" ->
                  /\ req[q].pc # "language"
                  /\ Effects(q)
                  /\ Ends(q, ErrorOf(op[q]))
                  /\ pool' = Replace(pool, t)
             [] t[2] = "inner" ->
                  /\ req' = [req EXCEPT ![q].pc = "rollback", ![q].answer = 500]
                  /\ pool' = Replace(pool, t)
                  /\ UNCHANGED tables
             [] OTHER ->
                  /\ pool' = Replace(pool, t)
                  /\ UNCHANGED <<req, tables>>
    /\ UNCHANGED op

-----------------------------------------------------------------------------

Step(q) ==
    \/ Provision(q)       \/ InsertOwner(q)      \/ Authenticates(q)
    \/ Touch(q)           \/ Begin(q)            \/ ReadSubject(q)
    \/ ResolveLanguage(q) \/ AnswerView(q)       \/ SetLanguage(q)
    \/ ListKeys(q)        \/ Reauthenticate(q)   \/ CreateKey(q)
    \/ RevokeKey(q)       \/ Commit(q)           \/ Rollback(q)
    \/ Probe(q)

Next ==
    \/ \E q \in Requests : Arrive(q) \/ Step(q)
    \/ \E t \in Task : CheckoutTimesOut(t)
    \/ \E c \in Connections : ConnectionLost(c)

-----------------------------------------------------------------------------

\* An account is whole or it was not answered with success: every tenant has
\* its inbox and every inbox its tenant, although its owner comes in a later
\* transaction; who reads 201 has a tenant, an address to give suppliers and
\* an owner who can sign in; nobody else has that owner's address, however
\* it was typed; and once 0012 is in force, no account is in a language the
\* interface does not have.
AccountsAreWhole ==
    /\ InboxesMatch /\ EmailsDiffer /\ LocalesAccepted
    /\ \A q \in Requests :
           op[q].kind = "signup" /\ req[q].answer = 201 =>
               \E t \in tenants, u \in users :
                   /\ t.tenant = q /\ u.tenant = q /\ u.role = "owner"
                   /\ u.email = op[q].email.folded

\* Nothing of a request is left on a connection that goes to the next: an
\* idle one has no transaction and no tenant, a transaction has the tenant
\* its request authenticated for, and every connection that is out, or is
\* waited for, belongs to work that still runs.
PoolIsClean ==
    /\ \A c \in Connections :
           LET k == pool.conn[c]
           IN  IF k.holder = None
               THEN k.scope = None /\ k.tx = "none" /\ pool.waiting = <<>>
               ELSE /\ k.tx = "open" <=> (k.scope # None)
                    /\ k.tx = "open" => /\ k.holder[2] = "main"
                                        /\ k.scope = req[k.holder[1]].tenant
                    /\ k.holder[2] \in {"main", "inner"} =>
                           req[k.holder[1]].pc \notin {"new", "done"}
    /\ \A t \in ToSet(pool.waiting) :
           t[2] \in {"main", "inner"} => req[t[1]].pc \notin {"new", "done"}

\* A credential reaches its own tenant and nothing beyond it: every row a
\* request was shown is of the tenant its session or key belongs to, a key
\* that is gone when a request comes gets it nothing, and whoever was told
\* that a key is revoked finds it revoked.
AnswersAreTheTenantsOwn ==
    /\ \A q \in Requests :
           /\ \A row \in req[q].seen : row.tenant = req[q].tenant
           /\ op[q].kind # "signup" /\ req[q].tenant # None =>
                  IF op[q].key = None THEN req[q].tenant = op[q].session
                  ELSE \E k \in keys : k.id = op[q].key /\ k.tenant = req[q].tenant
           /\ req[q].told = "revoked" => req[q].answer \notin {200, 201, 404}
           /\ op[q].kind = "revokeKey" /\ req[q].answer = 200 =>
                  \E k \in keys : k.id = op[q].target /\ k.revokedAt # {}

\* However the pool's connections go from hand to hand and whichever breaks, no
\* tenant is shown another's rows, now or on a connection that is left to it.
TenantsStayApart == PoolIsClean /\ AnswersAreTheTenantsOwn

\* Every request that arrived is answered and every connection comes back,
\* though views hold one connection while they wait for a second: the
\* queue's timeout ends what would otherwise be a circle.  (Requests are
\* finitely many, so a last one is answered.)
EveryRequestIsAnswered ==
    []<>(/\ \A q \in Requests : req[q].pc \in {"new", "done"}
         /\ Idle(pool) = Connections)

=============================================================================
