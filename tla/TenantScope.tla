----------------------------- MODULE TenantScope -----------------------------
(***************************************************************************)
(* The tenant boundary: requests name a tenant, and every read and write   *)
(* they make goes through a pooled connection whose transaction has set    *)
(* app.tenant_id, which the policies of the tables compare with each row.  *)
(* No query names a tenant; nothing else keeps the tenants apart.          *)
(*                                                                         *)
(* A parent is a conversation or a collection; its children are the        *)
(* messages and usage records, or the documents and chunks.  A request     *)
(* runs one transaction, or several for a turn and an upload.  Rows are    *)
(* never deleted, so the queries of a transaction are one step.            *)
(***************************************************************************)
EXTENDS Integers, FiniteSets

CONSTANTS
    Tenants,     \* the rows of tenants
    Unknown,     \* a slug that is none of theirs
    Parents,     \* ids of conversations and collections
    Existing,    \* those that exist at the start, with their tenants
    MaxRequests, \* bound: requests
    Inputs,      \* bound: what they may ask
    Conns,       \* the pool
    Null, Blank, \* an app.tenant_id never touched, and one that reverted to ''
    NoConn

Request ==
    LET Slugs == Tenants \cup {Unknown}
    IN  [slug : Slugs, op : {"create", "list"}]
        \cup [slug : Slugs, op : {"get", "upload"}, id : Parents]
        \cup [slug : Slugs, op : {"turn"}, id : Parents, collection : Parents]

ASSUME ScopeAssumption ==
    /\ Existing \in SUBSET (Parents \X Tenants)
    /\ MaxRequests \in Nat /\ Inputs \subseteq Request
    /\ Unknown \notin Tenants /\ Null \notin Tenants /\ Blank \notin Tenants /\ Null # Blank
    /\ NoConn \notin Conns

Requests == 1..MaxRequests

VARIABLES
    request,   \* what each request asks, and in whose name
    place,     \* where it is
    phase,     \* the transaction it is in or waits for
    tenant,    \* its TenantContext
    conn,      \* the connection it holds
    seen,      \* the tenants of the rows it has read
    writing,   \* the rows its open transaction has inserted
    guc,       \* app.tenant_id on each connection
    rows       \* what is committed

request_vars == <<request, place, phase, tenant, conn, seen, writing>>
vars == <<request_vars, guc, rows>>

Parent(p, t) == [kind |-> "parent", of |-> p, tenant |-> t]
Child(p, t) == [kind |-> "child", of |-> p, tenant |-> t]
Row == [kind : {"parent", "child"}, of : Parents, tenant : Tenants]

NoRequest == [slug |-> Unknown, op |-> "none"]

Places == {"idle", "arrived", "lookup", "resolved", "begun", "queried", "missing",
           "ended", "answered", "unauthorized", "not_found", "failed"}
Holding == {"lookup", "begun", "queried", "missing", "ended"}
Over == {"answered", "unauthorized", "not_found", "failed"}

Init ==
    /\ request = [r \in Requests |-> NoRequest]
    /\ place = [r \in Requests |-> "idle"]
    /\ phase = [r \in Requests |-> 1]
    /\ tenant = [r \in Requests |-> Null]
    /\ conn = [r \in Requests |-> NoConn]
    /\ seen = [r \in Requests |-> {}]
    /\ writing = [r \in Requests |-> {}]
    /\ guc = [c \in Conns |-> Null]
    /\ rows = {Parent(e[1], e[2]) : e \in Existing}

-----------------------------------------------------------------------------
(* PostgreSQL: the setting, the policies and the foreign keys.             *)

\* NULLIF(current_setting('app.tenant_id', true), '')::uuid.  Each definition
\* named X_Something is X with a plausible bug: the properties are tried
\* against it.
Setting_Raw(g) == g
Setting(g) == IF g = Blank THEN Null ELSE g

Casts(g) == Setting(g) # Blank

\* USING, which FORCE ROW LEVEL SECURITY applies to the owner of the tables as
\* well; a comparison with NULL is never true.
Policy_OwnerExempt(g, x) == TRUE
Policy(g, x) == Setting(g) # Null /\ x.tenant = Setting(g)

Readable(c, own) == {x \in rows \cup own : Policy(guc[c], x)}

\* What the queries of a request can see, its own inserts included.
Visible(r) == Readable(conn[r], writing[r])

\* WITH CHECK sees the row; a foreign key finds the parent whatever the
\* policies say, since its check bypasses row security.
MayInsert(r, x) ==
    /\ Policy(guc[conn[r]], x)
    /\ x.kind = "child" => \E y \in rows : y.kind = "parent" /\ y.of = x.of

-----------------------------------------------------------------------------
Goto(r, p) == place' = [place EXCEPT ![r] = p]
Idle(c) == \A r \in Requests : conn[r] # c
Hold(r, c) == conn' = [conn EXCEPT ![r] = c]

Arrive(r) ==
    /\ place[r] = "idle" /\ \A s \in 1..(r - 1) : place[s] # "idle"
    /\ \E q \in Inputs : request' = [request EXCEPT ![r] = q]
    /\ Goto(r, "arrived")
    /\ UNCHANGED <<phase, tenant, conn, seen, writing, guc, rows>>

\* get_tenant_context: a connection of its own, outside any transaction, given
\* back before the route asks for another.
AcquireForLookup(r) ==
    /\ place[r] = "arrived"
    /\ \E c \in Conns : Idle(c) /\ Hold(r, c)
    /\ Goto(r, "lookup")
    /\ UNCHANGED <<request, phase, tenant, seen, writing, guc, rows>>

Lookup_Holds(r) ==
    /\ place[r] = "lookup"
    /\ Goto(r, IF request[r].slug \in Tenants THEN "resolved" ELSE "unauthorized")
    /\ tenant' = [tenant EXCEPT ![r] = IF request[r].slug \in Tenants
                                         THEN request[r].slug ELSE Null]
    /\ UNCHANGED <<request, phase, conn, seen, writing, guc, rows>>
Lookup(r) ==
    /\ place[r] = "lookup"
    /\ Goto(r, IF request[r].slug \in Tenants THEN "resolved" ELSE "unauthorized")
    /\ tenant' = [tenant EXCEPT ![r] = IF request[r].slug \in Tenants
                                         THEN request[r].slug ELSE Null]
    /\ Hold(r, NoConn)
    /\ UNCHANGED <<request, phase, seen, writing, guc, rows>>

\* tenant_connection: acquire, BEGIN, set_config(..., is_local = true).
Begin_Unset(r) ==
    /\ place[r] = "resolved"
    /\ \E c \in Conns : Idle(c) /\ Hold(r, c) /\ UNCHANGED guc
    /\ Goto(r, "begun")
    /\ UNCHANGED <<request, phase, tenant, seen, writing, rows>>
Begin(r) ==
    /\ place[r] = "resolved"
    /\ \E c \in Conns : Idle(c) /\ Hold(r, c) /\ guc' = [guc EXCEPT ![c] = tenant[r]]
    /\ Goto(r, "begun")
    /\ UNCHANGED <<request, phase, tenant, seen, writing, rows>>

\* The get() before anything else is done with an id that came from outside.
Found_TrustsUpload(r) ==
    \/ request[r].op = "upload"
    \/ \E x \in Visible(r) : x.kind = "parent" /\ x.of = request[r].id
Found(r) == \E x \in Visible(r) : x.kind = "parent" /\ x.of = request[r].id

Read(r, what) == seen' = [seen EXCEPT ![r] = @ \cup {x.tenant : x \in what}]
Insert(r, x) == MayInsert(r, x) /\ writing' = [writing EXCEPT ![r] = @ \cup {x}]

\* create: a new id, in nobody else's transaction either.
Create(r) ==
    /\ place[r] = "begun" /\ request[r].op = "create"
    /\ \E p \in Parents :
         /\ \A x \in rows \cup UNION {writing[s] : s \in Requests} : x.of # p
         /\ Insert(r, Parent(p, tenant[r]))
    /\ Goto(r, "queried")
    /\ UNCHANGED <<request, phase, tenant, conn, seen, guc, rows>>

List(r) ==
    /\ place[r] = "begun" /\ request[r].op = "list"
    /\ Read(r, {x \in Visible(r) : x.kind = "parent"})
    /\ Goto(r, "queried")
    /\ UNCHANGED <<request, phase, tenant, conn, writing, guc, rows>>

NotFound(r) ==
    /\ place[r] = "begun" /\ request[r].op \in {"get", "turn", "upload"} /\ phase[r] = 1
    /\ ~Found(r)
    /\ Goto(r, "missing")
    /\ UNCHANGED <<request, phase, tenant, conn, seen, writing, guc, rows>>

\* The parent and its children; an upload only asks whether it is there.
Get(r) ==
    /\ place[r] = "begun" /\ request[r].op \in {"get", "upload"} /\ phase[r] = 1
    /\ Found(r)
    /\ Read(r, {x \in Visible(r) : x.of = request[r].id})
    /\ Goto(r, "queried")
    /\ UNCHANGED <<request, phase, tenant, conn, writing, guc, rows>>

\* prepare_turn: the question, the chunks of whatever collection the request
\* names, the history.
PrepareTurn(r) ==
    /\ place[r] = "begun" /\ request[r].op = "turn" /\ phase[r] = 1
    /\ Found(r)
    /\ Insert(r, Child(request[r].id, tenant[r]))
    /\ Read(r, {x \in Visible(r) : x.of \in {request[r].id, request[r].collection}})
    /\ Goto(r, "queried")
    /\ UNCHANGED <<request, phase, tenant, conn, guc, rows>>

\* The later transactions, which trust the first: the reply and its usage
\* record; the document; its chunks.
Store(r) ==
    /\ place[r] = "begun" /\ phase[r] > 1
    /\ Insert(r, Child(request[r].id, tenant[r]))
    /\ Goto(r, "queried")
    /\ UNCHANGED <<request, phase, tenant, conn, seen, guc, rows>>

\* The end of a transaction reverts the setting, to '' and not to NULL.
Reverted(r) == [guc EXCEPT ![conn[r]] = Blank]

Commit(r) ==
    /\ place[r] = "queried"
    /\ rows' = rows \cup writing[r]
    /\ writing' = [writing EXCEPT ![r] = {}]
    /\ guc' = Reverted(r)
    /\ Goto(r, "ended")
    /\ UNCHANGED <<request, phase, tenant, conn, seen>>

\* The 404 raised inside the transaction rolls it back (an upload raises it
\* after its own, which has written nothing: the same).
RollBack(r) ==
    /\ place[r] = "missing"
    /\ guc' = Reverted(r)
    /\ Hold(r, NoConn)
    /\ Goto(r, "not_found")
    /\ UNCHANGED <<request, phase, tenant, seen, writing, rows>>

Phases(op) == CASE op = "turn" -> 2 [] op = "upload" -> 3 [] OTHER -> 1

Release(r) ==
    /\ place[r] = "ended"
    /\ Hold(r, NoConn)
    /\ IF phase[r] < Phases(request[r].op)
         THEN phase' = [phase EXCEPT ![r] = @ + 1] /\ Goto(r, "resolved")
         ELSE Goto(r, "answered") /\ UNCHANGED phase
    /\ UNCHANGED <<request, tenant, seen, writing, guc, rows>>

\* An exception or a cancellation, at any await: the transaction is rolled
\* back, and whatever the request held is given back.
Fail(r) ==
    /\ place[r] \notin {"idle"} \cup Over
    /\ writing' = [writing EXCEPT ![r] = {}]
    /\ guc' = IF place[r] \in {"begun", "queried", "missing"} THEN Reverted(r) ELSE guc
    /\ Hold(r, NoConn)
    /\ Goto(r, "failed")
    /\ UNCHANGED <<request, phase, tenant, seen, rows>>

\* The pool closes a connection that was idle for long, and opens a new one.
Reconnect(c) ==
    /\ Idle(c) /\ guc[c] # Null
    /\ guc' = [guc EXCEPT ![c] = Null]
    /\ UNCHANGED <<request_vars, rows>>

Step(r) ==
    \/ AcquireForLookup(r) \/ Lookup(r) \/ Begin(r)
    \/ Create(r) \/ List(r) \/ NotFound(r) \/ Get(r) \/ PrepareTurn(r) \/ Store(r)
    \/ Commit(r) \/ RollBack(r) \/ Release(r)

Next ==
    \/ \E r \in Requests : Arrive(r) \/ Step(r) \/ Fail(r)
    \/ \E c \in Conns : Reconnect(c)

Spec == Init /\ [][Next]_vars

\* The event loop runs every request, the pool serves whoever waits, and the
\* database answers.
FairSpec == Spec /\ \A r \in Requests : WF_vars(Step(r))
-----------------------------------------------------------------------------
InScope(c) == \E r \in Requests : conn[r] = c /\ place[r] \in {"begun", "queried", "missing"}

\* Every variable has its type, and a request holds one connection, shared with
\* nobody, exactly while it queries (pool.py:38-45, tenant.py:41-46).
TypeOK ==
    /\ request \in [Requests -> Request \cup {NoRequest}]
    /\ place \in [Requests -> Places]
    /\ phase \in [Requests -> 1..3]
    /\ tenant \in [Requests -> Tenants \cup {Null}]
    /\ conn \in [Requests -> Conns \cup {NoConn}]
    /\ seen \in [Requests -> SUBSET Tenants]
    /\ writing \in [Requests -> SUBSET Row]
    /\ guc \in [Conns -> Tenants \cup {Null, Blank}]
    /\ rows \subseteq Row
    /\ \A r \in Requests : conn[r] # NoConn <=> place[r] \in Holding
    /\ \A r, s \in Requests : conn[r] = conn[s] /\ conn[r] # NoConn => r = s

\* On a connection that is in no tenant's transaction, never used, used before
\* or still being looked up on, a query without a filter finds nothing, and is
\* not an error either (pool.py:15-21, 002_notes.sql:24-34).
FailsClosed ==
    \A c \in Conns : ~InScope(c) => Casts(guc[c]) /\ Readable(c, {}) = {}

\* A request reads only rows of the tenant it named, whatever ids it was given
\* and whoever had its connection before, the collection of a turn included
\* (chat.py:178, App.tsx:23).
ReadsStayHome == \A r \in Requests : seen[r] \subseteq {request[r].slug}

\* A message, document or chunk belongs to the tenant of its conversation or
\* collection, although no key and no policy says so: each is written some
\* transactions after the get() that checked (collections.py:79-82, chat.py:161).
ReferencesStayHome ==
    \A x \in rows : x.kind = "child" => Parent(x.of, x.tenant) \in rows

\* A tenant is never told that what it owns does not exist, on whichever
\* connection it is looked for (conversations.py:55-60).
OwnRowsAreFound ==
    [][\A r \in Requests :
         place[r] # "missing" /\ place'[r] = "missing" =>
            Parent(request[r].id, request[r].slug) \notin rows]_vars

\* Every request ends: none holds a connection while it waits for another, so
\* two that arrive together do not starve a pool of two (tenant.py:42-46).
RequestsEnd == \A r \in Requests : place[r] = "arrived" ~> place[r] \in Over
=============================================================================
