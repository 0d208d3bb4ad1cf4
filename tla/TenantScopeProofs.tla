-------------------------- MODULE TenantScopeProofs --------------------------
(***************************************************************************)
(* Theorems about TenantScope, for any tenants, rows, requests and pool.   *)
(***************************************************************************)
EXTENDS TenantScope, TLAPS

Resolved == {"resolved", "begun", "queried", "missing", "ended"}
Scoped == {"begun", "queried", "missing"}

\* The context of a request is the tenant it named; within a transaction the
\* setting of its connection is that tenant.
ContextInv(r) ==
    /\ place[r] \in {"idle", "arrived", "lookup"} => tenant[r] = Null
    /\ place[r] \in Resolved => tenant[r] \in Tenants /\ tenant[r] = request[r].slug
    /\ place[r] \in Scoped => guc[conn[r]] = tenant[r]

\* What it has read and inserted is that tenant's, and it checked the parent
\* before the first insert.
DataInv(r) ==
    /\ seen[r] \subseteq {request[r].slug}
    /\ place[r] = "idle" => seen[r] = {}
    /\ place[r] # "queried" => writing[r] = {}
    /\ \A x \in writing[r] :
          /\ x.tenant = tenant[r]
          /\ x.kind = "child" => Parent(x.of, x.tenant) \in rows
    /\ place[r] \in {"idle", "arrived", "lookup"} => phase[r] = 1
    /\ phase[r] > 1 => request[r].op \in {"turn", "upload"}
    /\ /\ place[r] \in Resolved \ {"missing"} /\ request[r].op \in {"turn", "upload"}
       /\ phase[r] > 1 \/ place[r] \in {"queried", "ended"}
       => Parent(request[r].id, tenant[r]) \in rows

\* No setting outlives its transaction.
Reset == \A c \in Conns : ~InScope(c) => guc[c] \in {Null, Blank}

IInv ==
    /\ TypeOK /\ Reset /\ ReferencesStayHome
    /\ \A r \in Requests : ContextInv(r) /\ DataInv(r)

Moves(r) == Arrive(r) \/ Step(r) \/ Fail(r)

LEMMA SettingOfTenant ==
    ASSUME NEW t \in Tenants
    PROVE  Setting(t) = t /\ Setting(t) # Null
  BY ScopeAssumption DEF Setting

\* A transaction sees only rows of its tenant, and inserts no other.
LEMMA VisibleIsOwn ==
    ASSUME NEW r \in Requests, IInv, place[r] \in Scoped
    PROVE  /\ \A x \in Visible(r) : x \in Row /\ x.tenant = request[r].slug
           /\ \A x : MayInsert(r, x) => x.tenant = tenant[r]
  <1>1. tenant[r] \in Tenants /\ guc[conn[r]] = tenant[r] /\ tenant[r] = request[r].slug
    BY DEF IInv, ContextInv, Scoped, Resolved
  <1>2. Setting(guc[conn[r]]) = tenant[r]
    BY <1>1, SettingOfTenant
  <1> QED
    BY <1>1, <1>2 DEF Visible, Readable, Policy, MayInsert, IInv, TypeOK

\* So what it reads is its tenant's.
LEMMA ReadsOwn ==
    ASSUME NEW r \in Requests, IInv, place[r] \in Scoped, NEW what \in SUBSET Visible(r),
           Read(r, what)
    PROVE  /\ seen' = [seen EXCEPT ![r] = seen'[r]]
           /\ seen'[r] \subseteq {request[r].slug} /\ seen'[r] \subseteq Tenants
  <1>1. seen' = [seen EXCEPT ![r] = @ \cup {x.tenant : x \in what}]
    BY DEF Read
  <1>2. seen \in [Requests -> SUBSET Tenants] /\ seen[r] \subseteq {request[r].slug}
    BY DEF IInv, TypeOK, DataInv
  <1>3. \A x \in what : x.tenant = request[r].slug /\ x.tenant \in Tenants
    BY VisibleIsOwn DEF Row
  <1> QED
    BY <1>1, <1>2, <1>3

LEMMA HasId ==
    ASSUME NEW q \in Request \cup {NoRequest}, q.op \in {"get", "turn", "upload"}
    PROVE  q.id \in Parents
  BY DEF Request, NoRequest

\* What it inserts is a row of its tenant.
LEMMA InsertsOwn ==
    ASSUME NEW r \in Requests, IInv, place[r] = "begun", NEW x \in Row, Insert(r, x)
    PROVE  /\ writing' = [writing EXCEPT ![r] = {x}]
           /\ x.tenant = tenant[r]
  BY VisibleIsOwn DEF IInv, TypeOK, DataInv, Insert, Scoped

LEMMA RowsAreRows ==
    ASSUME NEW r \in Requests, IInv, place[r] = "begun", NEW p \in Parents
    PROVE  Parent(p, tenant[r]) \in Row /\ Child(p, tenant[r]) \in Row
  BY DEF IInv, ContextInv, Resolved, Parent, Child, Row

\* What get() finds is a committed row of the tenant.
LEMMA FoundIsOwn ==
    ASSUME NEW r \in Requests, IInv, place[r] = "begun", Found(r)
    PROVE  Parent(request[r].id, tenant[r]) \in rows
  <1>1. PICK x \in Visible(r) : x.kind = "parent" /\ x.of = request[r].id
    BY DEF Found
  <1>2. x \in rows /\ x \in Row
    BY <1>1 DEF Visible, Readable, IInv, DataInv, TypeOK
  <1>3. x.tenant = tenant[r]
    BY <1>1, VisibleIsOwn DEF IInv, ContextInv, Scoped, Resolved
  <1>4. x = [kind |-> x.kind, of |-> x.of, tenant |-> x.tenant]
    BY <1>2 DEF Row
  <1> QED
    BY <1>1, <1>2, <1>3, <1>4 DEF Parent

LEMMA InitIInv == Init => IInv
  <1> SUFFICES ASSUME Init PROVE IInv
    OBVIOUS
  <1>1. TypeOK
    BY ScopeAssumption DEF Init, TypeOK, Row, Parent, Places, Holding
  <1>2. Reset
    BY DEF Init, Reset
  <1>3. ReferencesStayHome
    BY DEF Init, ReferencesStayHome, Parent
  <1>4. \A r \in Requests : ContextInv(r) /\ DataInv(r)
    BY DEF Init, ContextInv, DataInv, Resolved, Scoped
  <1> QED
    BY <1>1, <1>2, <1>3, <1>4 DEF IInv

LEMMA MoveTypeOK ==
    ASSUME IInv, NEW r \in Requests, Moves(r)
    PROVE  TypeOK'
  <1> USE ScopeAssumption DEF IInv, TypeOK, Goto, Hold, Idle, Places, Holding, Requests
  <1>1. CASE Arrive(r)
    BY ZenonT(60), <1>1 DEF Arrive
  <1>2. CASE AcquireForLookup(r)
    BY <1>2 DEF AcquireForLookup
  <1>3. CASE Lookup(r)
    BY <1>3 DEF Lookup
  <1>4. CASE Begin(r)
    BY <1>4 DEF Begin
  <1>5. CASE Create(r)
    <2>1. PICK p \in Parents : Insert(r, Parent(p, tenant[r]))
      BY <1>5 DEF Create
    <2>2. writing' = [writing EXCEPT ![r] = {Parent(p, tenant[r])}]
      BY <1>5, <2>1, RowsAreRows, InsertsOwn DEF Create
    <2>3. writing' \in [Requests -> SUBSET Row]
      BY <1>5, <2>2, RowsAreRows DEF Create
    <2> QED
      BY <1>5, <2>3 DEF Create
  <1>6. CASE List(r)
    <2>1. seen' \in [Requests -> SUBSET Tenants]
      BY <1>6, ReadsOwn DEF List, Scoped
    <2> QED
      BY <1>6, <2>1 DEF List
  <1>7. CASE NotFound(r)
    BY <1>7 DEF NotFound
  <1>8. CASE Get(r)
    <2>1. seen' \in [Requests -> SUBSET Tenants]
      BY <1>8, ReadsOwn DEF Get, Scoped
    <2> QED
      BY <1>8, <2>1 DEF Get
  <1>9. CASE PrepareTurn(r)
    <2>1. seen' \in [Requests -> SUBSET Tenants]
      BY <1>9, ReadsOwn DEF PrepareTurn, Scoped
    <2>2. Child(request[r].id, tenant[r]) \in Row
      BY <1>9, HasId, RowsAreRows DEF PrepareTurn
    <2>3. writing' \in [Requests -> SUBSET Row]
      <3>1. writing' = [writing EXCEPT ![r] = {Child(request[r].id, tenant[r])}]
        BY <1>9, <2>2, InsertsOwn DEF PrepareTurn
      <3>2. writing \in [Requests -> SUBSET Row]
        OBVIOUS
      <3> QED
        BY <2>2, <3>1, <3>2
    <2> QED
      BY <1>9, <2>1, <2>3 DEF PrepareTurn
  <1>10. CASE Store(r)
    <2>1. Child(request[r].id, tenant[r]) \in Row
      BY <1>10, HasId, RowsAreRows DEF Store, DataInv
    <2>2. writing' \in [Requests -> SUBSET Row]
      <3>1. writing' = [writing EXCEPT ![r] = {Child(request[r].id, tenant[r])}]
        BY <1>10, <2>1, InsertsOwn DEF Store
      <3>2. writing \in [Requests -> SUBSET Row]
        OBVIOUS
      <3> QED
        BY <2>1, <3>1, <3>2
    <2> QED
      BY <1>10, <2>2 DEF Store
  <1>11. CASE Commit(r)
    BY <1>11 DEF Commit, Reverted
  <1>12. CASE RollBack(r)
    BY <1>12 DEF RollBack, Reverted
  <1>13. CASE Release(r)
    <2>1. CASE phase[r] < Phases(request[r].op)
      <3>1. phase[r] + 1 \in 1..3
        BY <2>1 DEF Phases
      <3>2. /\ phase' = [phase EXCEPT ![r] = @ + 1]
            /\ place' = [place EXCEPT ![r] = "resolved"]
        BY <1>13, <2>1 DEF Release
      <3>3. phase' \in [Requests -> 1..3]
        BY <3>1, <3>2
      <3> QED
        BY <1>13, <3>2, <3>3 DEF Release
    <2>2. CASE ~(phase[r] < Phases(request[r].op))
      BY <1>13, <2>2 DEF Release
    <2> QED
      BY <2>1, <2>2
  <1>14. CASE Fail(r)
    BY <1>14 DEF Fail, Reverted
  <1> QED
    BY <1>1, <1>2, <1>3, <1>4, <1>5, <1>6, <1>7, <1>8, <1>9, <1>10, <1>11, <1>12, <1>13, <1>14 DEF Moves, Step

\* A request leaves the others alone, and the rows only grow.
LEMMA Frame ==
    ASSUME IInv, NEW r \in Requests, Moves(r), NEW s \in Requests, s # r
    PROVE  /\ request'[s] = request[s] /\ place'[s] = place[s] /\ phase'[s] = phase[s]
           /\ tenant'[s] = tenant[s] /\ conn'[s] = conn[s] /\ seen'[s] = seen[s]
           /\ writing'[s] = writing[s] /\ rows \subseteq rows'
           /\ place[s] \in Scoped => guc'[conn[s]] = guc[conn[s]]
  <1> USE DEF IInv, TypeOK, Goto, Hold, Idle, Scoped, Holding
  <1>1. CASE Arrive(r)
    BY <1>1 DEF Arrive
  <1>2. CASE AcquireForLookup(r)
    BY <1>2 DEF AcquireForLookup
  <1>3. CASE Lookup(r)
    BY <1>3 DEF Lookup
  <1>4. CASE Begin(r)
    BY <1>4 DEF Begin
  <1>5. CASE Create(r)
    BY <1>5 DEF Create, Insert
  <1>6. CASE List(r)
    BY <1>6 DEF List, Read
  <1>7. CASE NotFound(r)
    BY <1>7 DEF NotFound
  <1>8. CASE Get(r)
    BY <1>8 DEF Get, Read
  <1>9. CASE PrepareTurn(r)
    BY <1>9 DEF PrepareTurn, Insert, Read
  <1>10. CASE Store(r)
    BY <1>10 DEF Store, Insert
  <1>11. CASE Commit(r)
    BY <1>11 DEF Commit, Reverted
  <1>12. CASE RollBack(r)
    BY <1>12 DEF RollBack, Reverted
  <1>13. CASE Release(r)
    BY <1>13 DEF Release
  <1>14. CASE Fail(r)
    BY <1>14 DEF Fail, Reverted
  <1> QED
    BY <1>1, <1>2, <1>3, <1>4, <1>5, <1>6, <1>7, <1>8, <1>9, <1>10, <1>11, <1>12, <1>13, <1>14 DEF Moves, Step

LEMMA MoveContext ==
    ASSUME IInv, NEW r \in Requests, Moves(r)
    PROVE  ContextInv(r)'
  <1> USE ScopeAssumption DEF IInv, TypeOK, ContextInv, Goto, Hold, Idle, Resolved, Scoped, Holding
  <1>1. CASE Arrive(r)
    BY <1>1 DEF Arrive
  <1>2. CASE AcquireForLookup(r)
    BY <1>2 DEF AcquireForLookup
  <1>3. CASE Lookup(r)
    BY <1>3 DEF Lookup
  <1>4. CASE Begin(r)
    BY <1>4 DEF Begin
  <1>5. CASE Create(r)
    BY <1>5 DEF Create, Insert
  <1>6. CASE List(r)
    BY <1>6 DEF List, Read
  <1>7. CASE NotFound(r)
    BY <1>7 DEF NotFound
  <1>8. CASE Get(r)
    BY <1>8 DEF Get, Read
  <1>9. CASE PrepareTurn(r)
    BY <1>9 DEF PrepareTurn, Insert, Read
  <1>10. CASE Store(r)
    BY <1>10 DEF Store, Insert
  <1>11. CASE Commit(r)
    BY <1>11 DEF Commit, Reverted
  <1>12. CASE RollBack(r)
    BY <1>12 DEF RollBack, Reverted
  <1>13. CASE Release(r)
    BY <1>13 DEF Release
  <1>14. CASE Fail(r)
    BY <1>14 DEF Fail, Reverted
  <1> QED
    BY <1>1, <1>2, <1>3, <1>4, <1>5, <1>6, <1>7, <1>8, <1>9, <1>10, <1>11, <1>12, <1>13, <1>14 DEF Moves, Step

LEMMA MoveData ==
    ASSUME IInv, NEW r \in Requests, Moves(r)
    PROVE  DataInv(r)'
  <1> USE ScopeAssumption DEF IInv, TypeOK, ContextInv, DataInv, Goto, Hold, Resolved, Scoped, Holding
  <1>1. CASE Arrive(r)
    BY <1>1 DEF Arrive
  <1>2. CASE AcquireForLookup(r)
    BY <1>2 DEF AcquireForLookup
  <1>3. CASE Lookup(r)
    BY <1>3 DEF Lookup
  <1>4. CASE Begin(r)
    BY <1>4 DEF Begin
  <1>5. CASE Create(r)
    <2>1. PICK p \in Parents : Insert(r, Parent(p, tenant[r]))
      BY <1>5 DEF Create
    <2>2. writing' = [writing EXCEPT ![r] = {Parent(p, tenant[r])}]
      BY <1>5, <2>1, RowsAreRows, InsertsOwn DEF Create
    <2>3. /\ Parent(p, tenant[r]).kind = "parent" /\ Parent(p, tenant[r]).tenant = tenant[r]
          /\ writing'[r] = {Parent(p, tenant[r])}
      BY <2>2 DEF Parent
    <2> QED
      BY <1>5, <2>3 DEF Create
  <1>6. CASE List(r)
    <2>1. seen'[r] \subseteq {request[r].slug}
      BY <1>6, ReadsOwn DEF List
    <2> QED
      BY <1>6, <2>1 DEF List
  <1>7. CASE NotFound(r)
    BY <1>7 DEF NotFound
  <1>8. CASE Get(r)
    <2>1. seen'[r] \subseteq {request[r].slug}
      BY <1>8, ReadsOwn DEF Get
    <2> QED
      BY <1>8, <2>1, FoundIsOwn DEF Get
  <1>9. CASE PrepareTurn(r)
    <2>1. seen'[r] \subseteq {request[r].slug}
      BY <1>9, ReadsOwn DEF PrepareTurn
    <2>2. Parent(request[r].id, tenant[r]) \in rows
      BY <1>9, FoundIsOwn DEF PrepareTurn
    <2>3. Child(request[r].id, tenant[r]) \in Row
      BY <1>9, HasId, RowsAreRows DEF PrepareTurn
    <2>4. writing' = [writing EXCEPT ![r] = {Child(request[r].id, tenant[r])}]
      BY <1>9, <2>3, InsertsOwn DEF PrepareTurn
    <2>5. \A x \in writing'[r] : x.tenant = tenant[r] /\ x.of = request[r].id
      BY <2>4 DEF Child
    <2> QED
      BY <1>9, <2>1, <2>2, <2>5 DEF PrepareTurn
  <1>10. CASE Store(r)
    <2>1. Parent(request[r].id, tenant[r]) \in rows
      BY <1>10 DEF Store
    <2>2. Child(request[r].id, tenant[r]) \in Row
      BY <1>10, HasId, RowsAreRows DEF Store
    <2>3. writing' = [writing EXCEPT ![r] = {Child(request[r].id, tenant[r])}]
      BY <1>10, <2>2, InsertsOwn DEF Store
    <2>4. \A x \in writing'[r] : x.tenant = tenant[r] /\ x.of = request[r].id
      BY <2>3 DEF Child
    <2> QED
      BY <1>10, <2>1, <2>4 DEF Store
  <1>11. CASE Commit(r)
    BY <1>11 DEF Commit, Reverted
  <1>12. CASE RollBack(r)
    BY <1>12 DEF RollBack, Reverted
  <1>13. CASE Release(r)
    <2>1. phase[r] < Phases(request[r].op) => request[r].op \in {"turn", "upload"}
      BY DEF Phases
    <2> QED
      BY <1>13, <2>1 DEF Release
  <1>14. CASE Fail(r)
    BY <1>14 DEF Fail, Reverted
  <1> QED
    BY <1>1, <1>2, <1>3, <1>4, <1>5, <1>6, <1>7, <1>8, <1>9, <1>10, <1>11, <1>12, <1>13, <1>14 DEF Moves, Step

LEMMA MoveReset ==
    ASSUME IInv, NEW r \in Requests, Moves(r)
    PROVE  Reset'
  <1> USE ScopeAssumption DEF IInv, TypeOK, Reset, InScope, Goto, Hold, Idle, Holding
  <1>1. CASE Arrive(r)
    BY <1>1 DEF Arrive
  <1>2. CASE AcquireForLookup(r)
    BY <1>2 DEF AcquireForLookup
  <1>3. CASE Lookup(r)
    BY <1>3 DEF Lookup
  <1>4. CASE Begin(r)
    BY <1>4 DEF Begin
  <1>5. CASE Create(r)
    BY <1>5 DEF Create, Insert
  <1>6. CASE List(r)
    BY <1>6 DEF List, Read
  <1>7. CASE NotFound(r)
    BY <1>7 DEF NotFound
  <1>8. CASE Get(r)
    BY <1>8 DEF Get, Read
  <1>9. CASE PrepareTurn(r)
    BY <1>9 DEF PrepareTurn, Insert, Read
  <1>10. CASE Store(r)
    BY <1>10 DEF Store, Insert
  <1>11. CASE Commit(r)
    BY <1>11 DEF Commit, Reverted
  <1>12. CASE RollBack(r)
    BY <1>12 DEF RollBack, Reverted
  <1>13. CASE Release(r)
    BY <1>13 DEF Release
  <1>14. CASE Fail(r)
    BY <1>14 DEF Fail, Reverted
  <1> QED
    BY <1>1, <1>2, <1>3, <1>4, <1>5, <1>6, <1>7, <1>8, <1>9, <1>10, <1>11, <1>12, <1>13, <1>14 DEF Moves, Step

LEMMA MoveReferences ==
    ASSUME IInv, NEW r \in Requests, Moves(r)
    PROVE  ReferencesStayHome'
  <1> USE DEF IInv, ReferencesStayHome
  <1>1. CASE Arrive(r)
    BY <1>1 DEF Arrive
  <1>2. CASE AcquireForLookup(r)
    BY <1>2 DEF AcquireForLookup
  <1>3. CASE Lookup(r)
    BY <1>3 DEF Lookup
  <1>4. CASE Begin(r)
    BY <1>4 DEF Begin
  <1>5. CASE Create(r)
    BY <1>5 DEF Create, Insert
  <1>6. CASE List(r)
    BY <1>6 DEF List, Read
  <1>7. CASE NotFound(r)
    BY <1>7 DEF NotFound
  <1>8. CASE Get(r)
    BY <1>8 DEF Get, Read
  <1>9. CASE PrepareTurn(r)
    BY <1>9 DEF PrepareTurn, Insert, Read
  <1>10. CASE Store(r)
    BY <1>10 DEF Store, Insert
  <1>11. CASE Commit(r)
    BY <1>11 DEF Commit, DataInv
  <1>12. CASE RollBack(r)
    BY <1>12 DEF RollBack, Reverted
  <1>13. CASE Release(r)
    BY <1>13 DEF Release
  <1>14. CASE Fail(r)
    BY <1>14 DEF Fail, Reverted
  <1> QED
    BY <1>1, <1>2, <1>3, <1>4, <1>5, <1>6, <1>7, <1>8, <1>9, <1>10, <1>11, <1>12, <1>13, <1>14 DEF Moves, Step

LEMMA NextIInv == IInv /\ [Next]_vars => IInv'
  <1> SUFFICES ASSUME IInv, [Next]_vars PROVE IInv'
    OBVIOUS
  <1>1. ASSUME NEW r \in Requests, Moves(r)
        PROVE  IInv'
    <2>1. ASSUME NEW s \in Requests, s # r
          PROVE  (ContextInv(s) /\ DataInv(s))'
      BY <1>1, <2>1, Frame DEF IInv, ContextInv, DataInv, Resolved, Scoped
    <2>2. \A s \in Requests : (ContextInv(s) /\ DataInv(s))'
      BY <1>1, <2>1, MoveContext, MoveData
    <2> QED
      BY <1>1, <2>2, MoveTypeOK, MoveReset, MoveReferences DEF IInv
  <1>2. ASSUME NEW c \in Conns, Reconnect(c)
        PROVE  IInv'
    <2>1. UNCHANGED <<request_vars, rows>> /\ guc' = [guc EXCEPT ![c] = Null]
      BY <1>2 DEF Reconnect
    <2>2. \A r \in Requests : place[r] \in Scoped => guc'[conn[r]] = guc[conn[r]]
      BY <1>2, <2>1 DEF Reconnect, Idle, IInv, TypeOK, Scoped, Holding
    <2>3. TypeOK' /\ Reset' /\ ReferencesStayHome'
      BY <2>1 DEF IInv, TypeOK, Reset, ReferencesStayHome, InScope, request_vars
    <2> QED
      BY <2>1, <2>2, <2>3 DEF IInv, ContextInv, DataInv, request_vars
  <1>3. CASE UNCHANGED vars
    BY <1>3 DEF vars, request_vars, IInv, TypeOK, Reset, ReferencesStayHome, ContextInv, DataInv,
       InScope
  <1> QED
    BY <1>1, <1>2, <1>3 DEF Next, Moves

\* The inductive invariant, of which the four properties are consequences.
THEOREM Invariance == Spec => []IInv
  BY InitIInv, NextIInv, PTL DEF Spec

\* Every variable has its type, and no two requests share a connection.
THEOREM TypeCorrect == Spec => []TypeOK
  BY Invariance, PTL DEF IInv

\* Outside a tenant's transaction a connection sees no row at all, and its
\* setting casts (pool.py:15-21).
THEOREM ClosedOutside == Spec => []FailsClosed
  <1>1. IInv => FailsClosed
    BY ScopeAssumption DEF IInv, Reset, FailsClosed, Casts, Readable, Policy, Setting
  <1> QED
    BY <1>1, Invariance, PTL

\* No request ever reads a row of a tenant it did not name.
THEOREM ReadsAreIsolated == Spec => []ReadsStayHome
  <1>1. IInv => ReadsStayHome
    BY DEF IInv, DataInv, ReadsStayHome
  <1> QED
    BY <1>1, Invariance, PTL

\* No child ever belongs to another tenant than its parent.
THEOREM ReferencesAreIsolated == Spec => []ReferencesStayHome
  BY Invariance, PTL DEF IInv

\* A tenant finds what it owns (conversations.py:55-60).
THEOREM OwnersFind == Spec => OwnRowsAreFound
  <1>1. ASSUME IInv, [Next]_vars
        PROVE  [\A r \in Requests :
                  place[r] # "missing" /\ place'[r] = "missing" =>
                     Parent(request[r].id, request[r].slug) \notin rows]_vars
    <2> SUFFICES ASSUME Next, NEW r \in Requests, place[r] # "missing", place'[r] = "missing",
                        Parent(request[r].id, request[r].slug) \in rows
                 PROVE  FALSE
      BY <1>1
    <2>1. PICK s \in Requests : Moves(s)
      BY DEF Next, Moves, Reconnect, request_vars
    <2>2. s = r
      BY <1>1, <2>1, Frame
    <2>3. NotFound(r)
      BY <1>1, <2>1, <2>2 DEF Moves, Step, IInv, TypeOK, Goto, Arrive, AcquireForLookup, Lookup,
         Begin, Create, List, Get, PrepareTurn, Store, Commit, RollBack, Release, Fail
    <2>4. guc[conn[r]] = tenant[r] /\ tenant[r] \in Tenants /\ tenant[r] = request[r].slug
      BY <1>1, <2>3 DEF NotFound, IInv, ContextInv, Scoped, Resolved
    <2>5. Policy(guc[conn[r]], Parent(request[r].id, request[r].slug))
      BY <2>4, SettingOfTenant DEF Policy, Parent
    <2>6. Found(r)
      BY <2>5 DEF Found, Visible, Readable, Parent
    <2> QED
      BY <2>3, <2>6 DEF NotFound
  <1> QED
    BY <1>1, Invariance, PTL DEF Spec, OwnRowsAreFound
=============================================================================
