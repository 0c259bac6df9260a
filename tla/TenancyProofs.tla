---------------------------- MODULE TenancyProofs -----------------------------
(* Theorems about Service: whoever comes, and whichever connection breaks,   *)
(* the tenants stay apart, the accounts are whole and the database is the    *)
(* one its deployers say.  For any requests, connections, rows and files.    *)
EXTENDS Service, TLAPS

-----------------------------------------------------------------------------
(* The pool, by tasks.                                                     *)

\* The task holds a connection, or waits for one.
In(p, t) == Has(p, t) \/ \E i \in DOMAIN p.waiting : p.waiting[i] = t

\* The task has a transaction in which it sees the tenant s.
Carries(p, t, s) ==
    \E c \in Connections :
        p.conn[c].holder = t /\ p.conn[c].tx = "open" /\ p.conn[c].scope = s

Shape(p) ==
    /\ p = [conn |-> p.conn, waiting |-> p.waiting]
    /\ p.conn = [c \in Connections |-> p.conn[c]]
    /\ \A c \in Connections :
           /\ p.conn[c] = [holder |-> p.conn[c].holder, scope |-> p.conn[c].scope,
                           tx |-> p.conn[c].tx]
           /\ p.conn[c].holder \in Task \cup {None}
    /\ p.waiting \in Seq(Task)

\* A task is in one place, nobody waits for an idle connection, and a tenant
\* is seen in a transaction of some request's own work.
Tidy(p) ==
    /\ Shape(p)
    /\ \A c, d \in Connections :
           p.conn[c].holder = p.conn[d].holder /\ p.conn[c].holder # None => c = d
    /\ \A i, j \in DOMAIN p.waiting : p.waiting[i] = p.waiting[j] => i = j
    /\ \A c \in Connections : \A i \in DOMAIN p.waiting :
           p.conn[c].holder # p.waiting[i]
    /\ \A c \in Connections : p.conn[c].holder = None => p.waiting = <<>>
    /\ \A c \in Connections : p.conn[c].tx # "open" => p.conn[c].tx = "none" /\ p.conn[c].scope = None
    /\ \A c \in Connections :
           p.conn[c].tx = "open" =>
               /\ p.conn[c].holder # None /\ p.conn[c].holder[2] = "main"
               /\ p.conn[c].scope # None

Joins(p, next, t) ==
    /\ \A u \in Task : In(next, u) <=> In(p, u) \/ u = t
    /\ \A u \in Task : \A s : Carries(next, u, s) <=> Carries(p, u, s)

Leaves(p, next, t) ==
    /\ \A u \in Task : In(next, u) <=> In(p, u) /\ u # t
    /\ \A u \in Task : \A s : Carries(next, u, s) <=> Carries(p, u, s) /\ u # t

\* The pool `next` is `p` with k in the place of the connection c.
Puts(p, next, c, k) ==
    /\ next = [conn |-> next.conn, waiting |-> next.waiting]
    /\ next.conn = [d \in Connections |-> next.conn[d]]
    /\ next.conn[c] = k
    /\ \A d \in Connections : d # c => next.conn[d] = p.conn[d]

LEMMA PutConn ==
    ASSUME NEW p, Shape(p), NEW c \in Connections, NEW k, NEW next, NEW w,
           next = [conn |-> [p.conn EXCEPT ![c] = k], waiting |-> w]
    PROVE  Puts(p, next, c, k) /\ next.waiting = w
<1>1. /\ next.waiting = w /\ next.conn = [p.conn EXCEPT ![c] = k]
      /\ next = [conn |-> next.conn, waiting |-> next.waiting]
  OBVIOUS
<1>2. p.conn = [d \in Connections |-> p.conn[d]]
  BY DEF Shape
<1> QED
  BY <1>1, <1>2 DEF Puts

Held(k, t) == [holder |-> t, scope |-> k.scope, tx |-> k.tx]

LEMMA PutHolder ==
    ASSUME NEW p, Shape(p), NEW c \in Connections, NEW t, NEW next,
           next = [p EXCEPT !.conn[c].holder = t]
    PROVE  Puts(p, next, c, Held(p.conn[c], t)) /\ next.waiting = p.waiting
<1>1. p = [conn |-> p.conn, waiting |-> p.waiting]
  BY DEF Shape
<1>2. p.conn[c] = [holder |-> p.conn[c].holder, scope |-> p.conn[c].scope,
                   tx |-> p.conn[c].tx]
  BY DEF Shape
<1>3. [p.conn[c] EXCEPT !.holder = t] = Held(p.conn[c], t)
  BY <1>2 DEF Held
<1>4. next = [conn |-> [p.conn EXCEPT ![c].holder = t], waiting |-> p.waiting]
  BY <1>1
<1>5. [p.conn EXCEPT ![c].holder = t] = [p.conn EXCEPT ![c] = Held(p.conn[c], t)]
  BY <1>3
<1> DEFINE k == Held(p.conn[c], t)
<1>6. next = [conn |-> [p.conn EXCEPT ![c] = k], waiting |-> p.waiting]
  BY <1>4, <1>5
<1> HIDE DEF k
<1>7. Puts(p, next, c, k) /\ next.waiting = p.waiting
  BY <1>6, PutConn
<1> QED
  BY <1>7 DEF k

LEMMA PutHead ==
    ASSUME NEW p, Shape(p), NEW c \in Connections, NEW t, NEW next,
           next = [p EXCEPT !.conn[c].holder = t, !.waiting = Tail(@)]
    PROVE  Puts(p, next, c, Held(p.conn[c], t)) /\ next.waiting = Tail(p.waiting)
<1> DEFINE m == [p EXCEPT !.conn[c].holder = t]
<1>1. Puts(p, m, c, Held(p.conn[c], t)) /\ m.waiting = p.waiting
  BY PutHolder
<1>2. next = [m EXCEPT !.waiting = Tail(@)]
  OBVIOUS
<1> HIDE DEF m
<1>3. next = [conn |-> m.conn, waiting |-> Tail(p.waiting)]
  BY <1>1, <1>2 DEF Puts
<1> DEFINE w == Tail(p.waiting)  f == m.conn
<1> HIDE DEF w, f
<1>4. next = [conn |-> f, waiting |-> w]
  BY <1>3 DEF f, w
<1>5. next.conn = f /\ next.waiting = w
  BY ONLY <1>4
<1>6. next = [conn |-> next.conn, waiting |-> next.waiting]
  BY ONLY <1>4
<1> QED
  BY <1>1, <1>5, <1>6 DEF Puts, w, f

LEMMA ConnectJoins ==
    ASSUME NEW p, NEW t \in Task, Tidy(p), ~ In(p, t)
    PROVE  Tidy(Connect(p, t)) /\ Joins(p, Connect(p, t), t)
<1> DEFINE n == Connect(p, t)
<1>0. t # None
  BY NobodyAssumption DEF Task
<1>1. CASE Idle(p) # {}
  <2> DEFINE c == CHOOSE x \in Idle(p) : TRUE
  <2>1. c \in Connections /\ p.conn[c].holder = None
    BY <1>1 DEF Idle
  <2>2. n = [p EXCEPT !.conn[c].holder = t]
    BY <1>1 DEF Connect
  <2> HIDE DEF c, n
  <2>3. Puts(p, n, c, Held(p.conn[c], t)) /\ n.waiting = p.waiting
    BY <2>1, <2>2, PutHolder DEF Tidy
  <2>4. Tidy(n)
    BY <1>0, <2>1, <2>3 DEF Tidy, Shape, In, Has, Puts, Held
  <2>5. Joins(p, n, t)
    BY <1>0, <2>1, <2>3, NobodyAssumption
       DEF Tidy, Shape, Joins, In, Has, Carries, Task, Puts, Held
  <2> QED
    BY <2>4, <2>5 DEF n
<1>2. CASE Idle(p) = {}
  <2>1. n = [p EXCEPT !.waiting = Append(@, t)]
    BY <1>2 DEF Connect
  <2> HIDE DEF n
  <2>2. /\ n.conn = p.conn /\ n = [conn |-> n.conn, waiting |-> n.waiting]
        /\ n.waiting = Append(p.waiting, t)
    BY <2>1 DEF Tidy, Shape
  <2>3. /\ n.waiting \in Seq(Task)
        /\ DOMAIN n.waiting = 1..(Len(p.waiting) + 1)
        /\ DOMAIN p.waiting = 1..Len(p.waiting) /\ Len(p.waiting) \in Nat
        /\ n.waiting[Len(p.waiting) + 1] = t
        /\ \A i \in 1..Len(p.waiting) : n.waiting[i] = p.waiting[i]
    BY <2>2 DEF Tidy, Shape
  <2>4. Tidy(n)
    BY <1>0, <1>2, <2>2, <2>3 DEF Tidy, Shape, In, Has, Idle
  <2>5. Joins(p, n, t)
    BY <2>2, <2>3 DEF Joins, In, Has, Carries
  <2> QED
    BY <2>4, <2>5 DEF n
<1> QED
  BY <1>1, <1>2

LEMMA OfHolds ==
    ASSUME NEW p, NEW t, Has(p, t)
    PROVE  Of(p, t) \in Connections /\ p.conn[Of(p, t)].holder = t
BY DEF Has, Of

LEMMA ReleaseLeaves ==
    ASSUME NEW p, NEW t \in Task, Tidy(p), Has(p, t), \A s : ~ Carries(p, t, s)
    PROVE  Tidy(Release(p, t)) /\ Leaves(p, Release(p, t), t)
<1> DEFINE n == Release(p, t)  c == Of(p, t)
<1>0. t # None
  BY NobodyAssumption DEF Task
<1>1. c \in Connections /\ p.conn[c].holder = t
  BY OfHolds
<1>2. p.conn[c].tx = "none" /\ p.conn[c].scope = None
  BY <1>1 DEF Carries, Tidy
<1>3. CASE p.waiting = <<>>
  <2>1. n = [p EXCEPT !.conn[c].holder = None]
    BY <1>3 DEF Release
  <2> HIDE DEF c, n
  <2>2. Puts(p, n, c, Held(p.conn[c], None)) /\ n.waiting = p.waiting
    BY <1>1, <2>1, PutHolder DEF Tidy
  <2>3. Tidy(n)
    BY <1>0, <1>1, <1>2, <1>3, <2>2 DEF Tidy, Shape, Puts, Held
  <2>4. Leaves(p, n, t)
    BY <1>0, <1>1, <1>2, <1>3, <2>2, NobodyAssumption
       DEF Tidy, Shape, Leaves, In, Has, Carries, Task, Puts, Held
  <2> QED
    BY <2>3, <2>4 DEF n
<1>4. CASE p.waiting # <<>>
  <2> DEFINE h == Head(p.waiting)
  <2>1. n = [p EXCEPT !.conn[c].holder = h, !.waiting = Tail(@)]
    BY <1>4 DEF Release
  <2>2. /\ h \in Task /\ h = p.waiting[1] /\ 1 \in DOMAIN p.waiting
        /\ Tail(p.waiting) \in Seq(Task)
        /\ DOMAIN Tail(p.waiting) = 1..(Len(p.waiting) - 1)
        /\ DOMAIN p.waiting = 1..Len(p.waiting) /\ Len(p.waiting) \in Nat
        /\ \A i \in 1..(Len(p.waiting) - 1) : Tail(p.waiting)[i] = p.waiting[i + 1]
    BY <1>4 DEF Tidy, Shape
  <2> HIDE DEF c, n, h
  <2>3. Puts(p, n, c, Held(p.conn[c], h)) /\ n.waiting = Tail(p.waiting)
    <3>1. Shape(p)
      BY DEF Tidy
    <3> QED
      BY <1>1, <2>1, <3>1, PutHead, Zenon
  <2>5. h # None
    BY <2>2, NobodyAssumption DEF Task
  <2> DEFINE L == Len(p.waiting)
  <2>7. /\ L \in Nat /\ L >= 1 /\ DOMAIN p.waiting = 1..L /\ DOMAIN n.waiting = 1..(L - 1)
        /\ \A i \in 1..(L - 1) : n.waiting[i] = p.waiting[i + 1] /\ i + 1 \in 1..L
        /\ \A i \in 2..L : p.waiting[i] = n.waiting[i - 1] /\ i - 1 \in 1..(L - 1)
    BY <2>2, <2>3
  <2> HIDE DEF L
  <2>8. /\ n.conn[c] = [holder |-> h, scope |-> None, tx |-> "none"]
        /\ \A d \in Connections : d # c => n.conn[d] = p.conn[d]
    BY <1>2, <2>3 DEF Puts, Held
  <2>10. /\ \A i, j \in 1..L : p.waiting[i] = p.waiting[j] => i = j
         /\ \A d \in Connections : \A i \in 1..L : p.conn[d].holder # p.waiting[i]
         /\ \A d \in Connections : p.conn[d].holder = t => d = c
    <3>1. /\ \A i, j \in DOMAIN p.waiting : p.waiting[i] = p.waiting[j] => i = j
          /\ \A d \in Connections : \A i \in DOMAIN p.waiting : p.conn[d].holder # p.waiting[i]
      BY DEF Tidy
    <3>2. \A d \in Connections : p.conn[d].holder = t => d = c
      BY <1>0, <1>1 DEF Tidy
    <3>3. DOMAIN p.waiting = 1..L
      BY <2>7
    <3> QED
      BY <3>1, <3>2, <3>3
  <2>11. 1 \in 1..L /\ p.waiting[1] = h
    BY <2>2, <2>7
  <2>9. \A i \in 1..(L - 1) : n.waiting[i] # h
    <3> SUFFICES ASSUME NEW i \in 1..(L - 1), n.waiting[i] = h PROVE FALSE
      OBVIOUS
    <3>1. i + 1 \in 1..L /\ p.waiting[i + 1] = p.waiting[1]
      BY <2>7, <2>11
    <3>2. i + 1 = 1
      BY <2>10, <2>11, <3>1
    <3> QED
      BY <2>7, <3>2
  <2>4. Tidy(n)
    <3>1. Shape(n)
      BY <1>1, <2>2, <2>3, <2>8 DEF Shape, Puts, Tidy
    <3>2. \A i, j \in DOMAIN n.waiting : n.waiting[i] = n.waiting[j] => i = j
      <4>1. ASSUME NEW i \in 1..(L - 1), NEW j \in 1..(L - 1), n.waiting[i] = n.waiting[j]
            PROVE  i = j
        <5>1. i + 1 \in 1..L /\ j + 1 \in 1..L /\ p.waiting[i + 1] = p.waiting[j + 1]
          BY <2>7, <4>1
        <5>2. i + 1 = j + 1
          BY <2>10, <5>1
        <5> QED
          BY <2>7, <5>2
      <4> QED
        BY <2>7, <4>1
    <3>3. \A d \in Connections : \A i \in DOMAIN n.waiting : n.conn[d].holder # n.waiting[i]
      BY <2>7, <2>8, <2>9, <2>10
    <3>4. \A d, e \in Connections :
             n.conn[d].holder = n.conn[e].holder /\ n.conn[d].holder # None => d = e
      BY <2>2, <2>8 DEF Tidy
    <3>5. \A d \in Connections : n.conn[d].holder # None
      BY <1>4, <2>5, <2>8 DEF Tidy
    <3> QED
      BY <1>1, <2>8, <3>1, <3>2, <3>3, <3>4, <3>5 DEF Tidy
  <2>6. Leaves(p, n, t)
    <3>1. \A u \in Task : (\E i \in DOMAIN p.waiting : p.waiting[i] = u)
             <=> u = h \/ (\E i \in DOMAIN n.waiting : n.waiting[i] = u)
      <4> TAKE u \in Task
      <4>1. ASSUME NEW i \in 1..L, p.waiting[i] = u
            PROVE  u = h \/ (\E j \in 1..(L - 1) : n.waiting[j] = u)
        <5>1. CASE i = 1
          BY <2>11, <4>1, <5>1
        <5>2. CASE i # 1
          <6>1. i \in 2..L
            BY <2>7, <5>2
          <6> QED
            BY <2>7, <4>1, <6>1
        <5> QED
          BY <5>1, <5>2
      <4>2. ASSUME NEW i \in 1..(L - 1), n.waiting[i] = u
            PROVE  \E j \in 1..L : p.waiting[j] = u
        BY <2>7, <4>2
      <4>3. u = h => \E j \in 1..L : p.waiting[j] = u
        BY <2>2, <2>7
      <4> QED
        BY <2>7, <4>1, <4>2, <4>3
    <3>2. \A u \in Task : Has(n, u) <=> u = h \/ (Has(p, u) /\ u # t)
      BY <1>1, <2>8, <2>10 DEF Has
    <3>3. \A u \in Task : u = h => u # t
      BY <1>1, <2>2 DEF Tidy
    <3>4. \A u \in Task : In(n, u) <=> In(p, u) /\ u # t
      BY <1>1, <3>1, <3>2, <3>3, <2>2 DEF In, Tidy
    <3>5. \A u \in Task : \A s : Carries(n, u, s) <=> Carries(p, u, s) /\ u # t
      BY <1>1, <1>2, <2>8 DEF Carries, Tidy
    <3> QED
      BY <3>4, <3>5 DEF Leaves
  <2> QED
    BY <2>4, <2>6 DEF n
<1> QED
  BY <1>3, <1>4

LEMMA EndScopeLeaves ==
    ASSUME NEW p, NEW t \in Task, Tidy(p), Has(p, t)
    PROVE  Tidy(EndScope(p, t)) /\ Leaves(p, EndScope(p, t), t)
<1> DEFINE c == Of(p, t)  k == [Clean EXCEPT !.holder = t]
           m == [p EXCEPT !.conn[c] = k]
<1>0. t # None
  BY NobodyAssumption DEF Task
<1>1. c \in Connections /\ p.conn[c].holder = t
  BY OfHolds
<1>2. k = [holder |-> t, scope |-> None, tx |-> "none"]
  BY DEF Clean
<1>3. EndScope(p, t) = Release(m, t)
  BY DEF EndScope
<1> HIDE DEF c, k
<1>4. m = [conn |-> [p.conn EXCEPT ![c] = k], waiting |-> p.waiting]
  <2>1. p = [conn |-> p.conn, waiting |-> p.waiting]
    BY DEF Tidy, Shape
  <2> QED
    BY ONLY <2>1
<1> HIDE DEF m
<1>5. Puts(p, m, c, k) /\ m.waiting = p.waiting
  BY <1>1, <1>4, PutConn DEF Tidy
<1>6. Tidy(m)
  <2>1. /\ m.conn[c] = [holder |-> t, scope |-> None, tx |-> "none"]
        /\ \A d \in Connections : d # c => m.conn[d] = p.conn[d]
    BY <1>2, <1>5 DEF Puts
  <2>2. \A d \in Connections : m.conn[d].holder = p.conn[d].holder
    BY <1>1, <2>1
  <2>3. Shape(m)
    <3>1. /\ m = [conn |-> m.conn, waiting |-> m.waiting]
          /\ m.conn = [d \in Connections |-> m.conn[d]] /\ m.waiting \in Seq(Task)
      BY <1>5 DEF Puts, Tidy, Shape
    <3>2. ASSUME NEW d \in Connections
          PROVE  /\ m.conn[d] = [holder |-> m.conn[d].holder, scope |-> m.conn[d].scope,
                                 tx |-> m.conn[d].tx]
                 /\ m.conn[d].holder \in Task \cup {None}
      BY <2>1 DEF Tidy, Shape
    <3> QED
      BY <3>1, <3>2 DEF Shape
  <2>4. \A d \in Connections :
            /\ m.conn[d].tx # "open" => m.conn[d].tx = "none" /\ m.conn[d].scope = None
            /\ m.conn[d].tx = "open" =>
                   /\ m.conn[d].holder # None /\ m.conn[d].holder[2] = "main"
                   /\ m.conn[d].scope # None
    BY <2>1 DEF Tidy
  <2> QED
    BY <1>5, <2>2, <2>3, <2>4 DEF Tidy
<1>7. Has(m, t) /\ \A s : ~ Carries(m, t, s)
  BY <1>0, <1>1, <1>2, <1>5 DEF Tidy, Puts, Has, Carries
<1>8. /\ \A u \in Task : In(m, u) <=> In(p, u)
      /\ \A u \in Task : \A s : Carries(m, u, s) <=> Carries(p, u, s) /\ u # t
  BY <1>0, <1>1, <1>2, <1>5 DEF Tidy, Puts, In, Has, Carries
<1> DEFINE n == Release(m, t)
<1>9. Tidy(n) /\ Leaves(m, n, t)
  BY <1>6, <1>7, ReleaseLeaves
<1> HIDE DEF n
<1>10. Leaves(p, n, t)
  BY <1>8, <1>9 DEF Leaves
<1> QED
  BY <1>3, <1>9, <1>10 DEF n

\* A transaction begins, and everything else is as it was.
Opens(p, next, t, s) ==
    /\ \A u \in Task : In(next, u) <=> In(p, u)
    /\ \A u \in Task : \A r :
           Carries(next, u, r) <=> IF u = t THEN r = s ELSE Carries(p, u, r)

LEMMA ScopeOpens ==
    ASSUME NEW p, NEW t \in Task, Tidy(p), Has(p, t), t[2] = "main",
           NEW s, s # None
    PROVE  Tidy(Scope(p, t, s)) /\ Opens(p, Scope(p, t, s), t, s)
<1> DEFINE c == Of(p, t)  k == [holder |-> t, scope |-> s, tx |-> "open"]
           n == Scope(p, t, s)
<1>0. t # None
  BY NobodyAssumption DEF Task
<1>1. c \in Connections /\ p.conn[c].holder = t
  BY OfHolds
<1>2. n = [conn |-> [p.conn EXCEPT ![c] = k], waiting |-> p.waiting]
  BY DEF Scope, Tidy, Shape
<1>3. k = [holder |-> t, scope |-> s, tx |-> "open"]
  OBVIOUS
<1> HIDE DEF c, k, n
<1>4. Puts(p, n, c, k) /\ n.waiting = p.waiting
  BY <1>1, <1>2, PutConn DEF Tidy
<1>5. Tidy(n)
  BY <1>0, <1>1, <1>3, <1>4 DEF Tidy, Shape, Puts
<1>6. Opens(p, n, t, s)
  BY <1>0, <1>1, <1>3, <1>4 DEF Tidy, Puts, Opens, In, Has, Carries
<1> QED
  BY <1>5, <1>6 DEF n

LEMMA LeavesTheQueue ==
    ASSUME NEW p, NEW t \in Task, Tidy(p), NEW next,
           NEW i \in DOMAIN p.waiting, p.waiting[i] = t,
           next = [p EXCEPT !.waiting = RemoveAt(@, i)]
    PROVE  Tidy(next) /\ Leaves(p, next, t)
<1> DEFINE w == p.waiting  v == RemoveAt(w, i)  L == Len(w)
<1>1. /\ w \in Seq(Task) /\ L \in Nat /\ DOMAIN w = 1..L /\ i \in 1..L
  BY DEF Tidy, Shape
<1>2. next = [conn |-> p.conn, waiting |-> v]
  BY DEF Tidy, Shape
<1>3. next.conn = p.conn /\ next.waiting = v
      /\ next = [conn |-> next.conn, waiting |-> next.waiting]
  BY <1>2
<1>4. /\ v \in Seq(Task) /\ DOMAIN v = 1..(L - 1)
      /\ \A j \in 1..(L - 1) : v[j] = IF j < i THEN w[j] ELSE w[j + 1]
  <2> DEFINE a == SubSeq(w, 1, i - 1)  b == SubSeq(w, i + 1, L)
  <2>1. v = a \o b
    BY DEF RemoveAt
  <2>2. /\ a \in Seq(Task) /\ Len(a) = i - 1
        /\ \A j \in 1..(i - 1) : a[j] = w[j]
    BY <1>1
  <2>3. /\ b \in Seq(Task) /\ Len(b) = L - i
        /\ \A j \in 1..(L - i) : b[j] = w[j + i]
    BY <1>1
  <2> HIDE DEF a, b, v, L, w
  <2>4. /\ v \in Seq(Task) /\ Len(v) = L - 1
        /\ \A j \in 1..(L - 1) : v[j] = IF j < i THEN a[j] ELSE b[j - (i - 1)]
    <3>1. a \o b \in Seq(Task)
      BY <2>2, <2>3
    <3>2. Len(a \o b) = (i - 1) + (L - i)
      BY <2>2, <2>3
    <3>3. \A j \in 1..((i - 1) + (L - i)) :
              (a \o b)[j] = IF j <= i - 1 THEN a[j] ELSE b[j - (i - 1)]
      BY <2>2, <2>3
    <3>4. (i - 1) + (L - i) = L - 1 /\ \A j \in 1..(L - 1) : j < i <=> j <= i - 1
      BY <1>1
    <3> QED
      BY <2>1, <3>1, <3>2, <3>3, <3>4
  <2>5. DOMAIN v = 1..(L - 1)
    BY <2>4
  <2>6. ASSUME NEW j \in 1..(L - 1) PROVE v[j] = IF j < i THEN w[j] ELSE w[j + 1]
    <3>1. CASE j < i
      BY <1>1, <2>2, <2>4, <3>1
    <3>2. CASE ~ (j < i)
      <4>1. j - (i - 1) \in 1..(L - i) /\ (j - (i - 1)) + i = j + 1
        BY <1>1, <3>2
      <4> QED
        BY <2>3, <2>4, <3>2, <4>1
    <3> QED
      BY <3>1, <3>2
  <2> QED
    BY <2>4, <2>5, <2>6
<1> HIDE DEF w, v, L
<1>5. w = p.waiting /\ w[i] = t
  BY DEF w
<1>6. /\ \A j, k \in 1..L : w[j] = w[k] => j = k
      /\ \A c \in Connections : \A j \in 1..L : p.conn[c].holder # w[j]
      /\ \A c \in Connections : p.conn[c].holder # None
  <2>1. w # <<>>
    BY <1>1
  <2> QED
    BY <1>1, <1>5, <2>1 DEF Tidy
<1>7. ASSUME NEW j \in 1..(L - 1)
      PROVE  \E k \in 1..L : k # i /\ v[j] = w[k] /\ k = IF j < i THEN j ELSE j + 1
  BY <1>1, <1>4
<1>8. ASSUME NEW k \in 1..L, k # i
      PROVE  \E j \in 1..(L - 1) : v[j] = w[k]
  <2>1. CASE k < i
    BY <1>1, <1>4, <2>1
  <2>2. CASE ~ (k < i)
    <3>1. k - 1 \in 1..(L - 1) /\ ~ (k - 1 < i) /\ (k - 1) + 1 = k
      BY <1>1, <1>8, <2>2
    <3> QED
      BY <1>4, <3>1
  <2> QED
    BY <2>1, <2>2
<1>9. ASSUME NEW j \in 1..(L - 1), NEW k \in 1..(L - 1), v[j] = v[k]
      PROVE  j = k
  <2>1. PICK a \in 1..L : v[j] = w[a] /\ a = IF j < i THEN j ELSE j + 1
    BY <1>7
  <2>2. PICK b \in 1..L : v[k] = w[b] /\ b = IF k < i THEN k ELSE k + 1
    BY <1>7
  <2>3. a = b
    BY <1>6, <1>9, <2>1, <2>2
  <2> QED
    BY <1>1, <2>1, <2>2, <2>3
<1>10. Tidy(next)
  <2>1. Shape(next)
    BY <1>3, <1>4 DEF Tidy, Shape
  <2>2. \A c \in Connections : \A j \in DOMAIN next.waiting :
            next.conn[c].holder # next.waiting[j]
    <3>1. ASSUME NEW c \in Connections, NEW j \in 1..(L - 1)
          PROVE  p.conn[c].holder # v[j]
      <4>1. PICK k \in 1..L : v[j] = w[k]
        BY <1>7
      <4> QED
        BY <1>6, <4>1
    <3> QED
      BY <1>3, <1>4, <3>1
  <2>3. \A j, k \in DOMAIN next.waiting : next.waiting[j] = next.waiting[k] => j = k
    BY <1>3, <1>4, <1>9
  <2>4. \A c \in Connections : next.conn[c].holder = None => next.waiting = <<>>
    BY <1>3, <1>6
  <2> QED
    BY <1>3, <2>1, <2>2, <2>3, <2>4 DEF Tidy
<1>11. Leaves(p, next, t)
  <2>1. \A u \in Task : (\E j \in 1..(L - 1) : v[j] = u)
           <=> u # t /\ (\E k \in 1..L : w[k] = u)
    <3> TAKE u \in Task
    <3>1. ASSUME NEW j \in 1..(L - 1), v[j] = u
          PROVE  u # t /\ \E k \in 1..L : w[k] = u
      <4>1. PICK k \in 1..L : k # i /\ v[j] = w[k]
        BY <1>7
      <4> QED
        BY <1>1, <1>5, <1>6, <3>1, <4>1
    <3>2. ASSUME u # t, NEW k \in 1..L, w[k] = u
          PROVE  \E j \in 1..(L - 1) : v[j] = u
      BY <1>5, <1>8, <3>2
    <3> QED
      BY <3>1, <3>2
  <2>2. ~ Has(p, t)
    BY <1>1, <1>5, <1>6 DEF Has
  <2>3. \A u \in Task : Has(next, u) <=> Has(p, u)
    BY <1>3 DEF Has
  <2>4. \A u \in Task : \A s : Carries(next, u, s) <=> Carries(p, u, s) /\ u # t
    BY <1>3, <2>2 DEF Carries, Has
  <2>5. \A u \in Task : In(p, u) <=> Has(p, u) \/ \E k \in 1..L : w[k] = u
    BY <1>1, <1>5 DEF In
  <2>6. \A u \in Task : In(next, u) <=> Has(next, u) \/ \E k \in 1..(L - 1) : v[k] = u
    BY <1>3, <1>4 DEF In
  <2> QED
    BY <2>1, <2>2, <2>3, <2>4, <2>5, <2>6 DEF Leaves
<1> QED
  BY <1>10, <1>11

-----------------------------------------------------------------------------
(* The requests, and the keys they come with.                              *)

Main(q) == <<q, "main">>
Inner(q) == <<q, "inner">>
TouchOf(q) == <<q, "touch">>
Retouch(q) == <<q, "retouch">>

InTransaction == {"body", "language", "rest", "commit", "rollback"}
Views == {"tenant", "document"}

\* What a request with the record r has of the pool p.
Place(p, q, o, r) ==
    /\ In(p, Main(q)) <=> r.pc \notin {"new", "done"}
    /\ In(p, Inner(q)) <=> r.pc = "language"
    /\ In(p, TouchOf(q)) => r.pc \notin {"new", "authenticate"}
    /\ In(p, Retouch(q)) => /\ r.pc \in {"rest", "commit", "rollback", "done"}
                            /\ o.kind \in Views
    /\ \A s : Carries(p, Main(q), s) <=> r.pc \in InTransaction /\ s = r.tenant

\* The credential of the request o is one of this tenant.
Belongs(o, tenant, K) ==
    IF o.key = None THEN tenant = o.session
    ELSE \E k \in K : k.id = o.key /\ k.tenant = tenant

Revoked(id, K) == \E k \in K : k.id = id /\ k.revokedAt # {}

Fields(r) ==
    r = [pc |-> r.pc, tenant |-> r.tenant, language |-> r.language,
         seen |-> r.seen, staged |-> r.staged, answer |-> r.answer,
         told |-> r.told]

\* Which requests are where.
Path(o, r) ==
    /\ r.pc = "provision" => o.kind = "signup"
    /\ r.pc = "probe" => o.kind = "ready"
    /\ r.pc = "authenticate" =>
           /\ o.kind \notin {"signup", "ready"}
           /\ o.key # None \/ o.session # None
    /\ r.pc \in {"language", "rest"} => o.kind \in Views

\* What is written and not yet committed, as far as it is about keys.
Draft(q, o, r, K) ==
    /\ r.pc # "commit" => r.staged = {}
    /\ o.kind = "createKey" =>
           /\ \A n \in r.staged : n = [id |-> q, tenant |-> r.tenant, revokedAt |-> {}]
           /\ r.pc # "done" => \A k \in K : k.id # q
    /\ o.kind = "revokeKey" =>
           \A n \in r.staged :
               /\ n = [id |-> o.target, tenant |-> r.tenant, revokedAt |-> {"now"}]
               /\ \E k \in K : k.id = o.target /\ k.tenant = r.tenant

\* What the answers promise.
Promise(o, r, K) ==
    /\ \A row \in r.seen : row.tenant = r.tenant
    /\ o.kind # "signup" /\ r.tenant # None => Belongs(o, r.tenant, K)
    /\ r.told = "revoked" =>
           /\ o.kind \notin {"signup", "ready"} /\ o.key # None /\ Revoked(o.key, K)
           /\ r.pc \in {"authenticate", "done"} /\ r.answer \notin {200, 201, 404}
    /\ o.kind = "revokeKey" /\ r.answer = 200 => Revoked(o.target, K)

Asks(q, o, r, K) ==
    /\ Fields(r) /\ Path(o, r) /\ Draft(q, o, r, K) /\ Promise(o, r, K)
    /\ r.pc \in {"new", "provision", "authenticate", "probe"} =>
           r.tenant = None /\ r.seen = {} /\ r.answer = 0
    /\ r.pc \in InTransaction \cup {"begin"} => r.tenant # None

KeysOk(K) ==
    /\ \A k \in K : k.tenant # None
    /\ \A k, l \in K : k.id = l.id => k = l

IInv(o, f, p, K) ==
    /\ Tidy(p) /\ KeysOk(K)
    /\ f = [q \in Requests |-> f[q]]
    /\ \A q \in Requests : Place(p, q, o[q], f[q]) /\ Asks(q, o[q], f[q], K)

Inv == IInv(op, req, pool, keys)

-----------------------------------------------------------------------------
(* One request moves, and the others are where they were.                  *)

Others(p, n, q) ==
    \A u \in Task : u[1] # q =>
        /\ In(n, u) <=> In(p, u)
        /\ \A s : Carries(n, u, s) <=> Carries(p, u, s)

\* What the request q may do to the keys: no key goes, or changes hands, or is
\* in force again, and the one that may be new is its own.
Follow(K, L, q) ==
    /\ \A k \in K : \E l \in L : /\ l.id = k.id /\ l.tenant = k.tenant
                                 /\ k.revokedAt # {} => l.revokedAt # {}
    /\ \A l \in L : l.id = q \/ \E k \in K : k.id = l.id

LEMMA FollowSame == ASSUME NEW K, NEW q PROVE Follow(K, K, q)
BY DEF Follow

LEMMA BelongsFollow ==
    ASSUME NEW K, NEW L, NEW q, Follow(K, L, q), NEW o, NEW s, Belongs(o, s, K)
    PROVE  Belongs(o, s, L)
BY DEF Follow, Belongs

LEMMA RevokedFollow ==
    ASSUME NEW K, NEW L, NEW q, Follow(K, L, q), NEW id, Revoked(id, K)
    PROVE  Revoked(id, L)
BY DEF Follow, Revoked

LEMMA PromiseFollows ==
    ASSUME NEW K, NEW L, NEW q, Follow(K, L, q), NEW o, NEW r, Promise(o, r, K)
    PROVE  Promise(o, r, L)
BY BelongsFollow, RevokedFollow DEF Promise

LEMMA DraftFollows ==
    ASSUME NEW K, NEW L, NEW q, Follow(K, L, q), NEW p, p # q, NEW o, NEW r,
           Draft(p, o, r, K)
    PROVE  Draft(p, o, r, L)
<1>1. o.kind = "createKey" /\ r.pc # "done" => \A l \in L : l.id # p
  BY DEF Draft, Follow
<1>2. ASSUME o.kind = "revokeKey", NEW n \in r.staged
      PROVE  \E l \in L : l.id = o.target /\ l.tenant = r.tenant
  BY <1>2 DEF Draft, Follow
<1> QED
  BY <1>1, <1>2 DEF Draft

LEMMA OneMoves ==
    ASSUME NEW o, NEW f, NEW p, NEW K, IInv(o, f, p, K),
           NEW q \in Requests, NEW g, NEW n, NEW L,
           g = [a \in Requests |-> g[a]],
           \A a \in Requests : a # q => g[a] = f[a],
           Tidy(n), Others(p, n, q), KeysOk(L), Follow(K, L, q),
           Place(n, q, o[q], g[q]), Asks(q, o[q], g[q], L)
    PROVE  IInv(o, g, n, L)
<1>1. ASSUME NEW a \in Requests, a # q
      PROVE  Place(n, a, o[a], g[a])
  <2>1. Place(p, a, o[a], f[a]) /\ g[a] = f[a]
    BY <1>1 DEF IInv
  <2>2. /\ {Main(a), Inner(a), TouchOf(a), Retouch(a)} \subseteq Task
        /\ \A t \in {Main(a), Inner(a), TouchOf(a), Retouch(a)} : t[1] # q
    BY <1>1 DEF Main, Inner, TouchOf, Retouch, Task, Roles
  <2>3. \A t \in {Main(a), Inner(a), TouchOf(a), Retouch(a)} :
            /\ In(n, t) <=> In(p, t)
            /\ \A s : Carries(n, t, s) <=> Carries(p, t, s)
    BY <2>2 DEF Others
  <2> QED
    BY <2>1, <2>3 DEF Place
<1>2. ASSUME NEW a \in Requests, a # q
      PROVE  Asks(a, o[a], g[a], L)
  <2>1. Asks(a, o[a], f[a], K) /\ g[a] = f[a]
    BY <1>2 DEF IInv
  <2>2. Promise(o[a], f[a], L) /\ Draft(a, o[a], f[a], L)
    BY <1>2, <2>1, PromiseFollows, DraftFollows DEF Asks
  <2> QED
    BY <2>1, <2>2 DEF Asks
<1> QED
  BY <1>1, <1>2 DEF IInv

LEMMA TasksOf ==
    ASSUME NEW q \in Requests
    PROVE  /\ Main(q) \in Task /\ Inner(q) \in Task
           /\ TouchOf(q) \in Task /\ Retouch(q) \in Task
           /\ Main(q)[1] = q /\ Inner(q)[1] = q
           /\ TouchOf(q)[1] = q /\ Retouch(q)[1] = q
           /\ Main(q) # Inner(q) /\ Main(q) # TouchOf(q) /\ Main(q) # Retouch(q)
           /\ Inner(q) # TouchOf(q) /\ Inner(q) # Retouch(q)
           /\ TouchOf(q) # Retouch(q)
           /\ Main(q)[2] = "main"
BY DEF Main, Inner, TouchOf, Retouch, Task, Roles

LEMMA OthersSame == ASSUME NEW p, NEW q PROVE Others(p, p, q)
BY DEF Others

LEMMA OthersJoin ==
    ASSUME NEW p, NEW n, NEW t, NEW q, Joins(p, n, t), t[1] = q
    PROVE  Others(p, n, q)
BY DEF Others, Joins

LEMMA OthersLeave ==
    ASSUME NEW p, NEW n, NEW t, NEW q, Leaves(p, n, t), t[1] = q
    PROVE  Others(p, n, q)
BY DEF Others, Leaves

LEMMA OthersOpen ==
    ASSUME NEW p, NEW n, NEW t, NEW s, NEW q, Opens(p, n, t, s), t[1] = q
    PROVE  Others(p, n, q)
BY DEF Others, Opens

LEMMA OthersThen ==
    ASSUME NEW p, NEW m, NEW n, NEW q, Others(p, m, q), Others(m, n, q)
    PROVE  Others(p, n, q)
BY DEF Others

-----------------------------------------------------------------------------
(* A request that ends.                                                    *)

LEMMA DoneFields ==
    ASSUME NEW r, Fields(r), NEW code
    PROVE  Done(r, code) =
               [pc |-> "done", tenant |-> r.tenant, language |-> r.language,
                seen |-> r.seen, staged |-> {},
                answer |-> IF r.answer = 0 THEN code ELSE r.answer,
                told |-> r.told]
<1> DEFINE a == r.pc  b == r.tenant  c == r.language  d == r.seen  e == r.staged
           g == r.answer  h == r.told
<1>1. r = [pc |-> a, tenant |-> b, language |-> c, seen |-> d, staged |-> e,
           answer |-> g, told |-> h]
  BY DEF Fields
<1>2. Done(r, code) = [r EXCEPT !.pc = "done", !.staged = {},
                                !.answer = IF g = 0 THEN code ELSE g]
  BY <1>1 DEF Done
<1> HIDE DEF a, b, c, d, e, g, h
<1>3. Done(r, code) = [pc |-> "done", tenant |-> b, language |-> c, seen |-> d,
                       staged |-> {}, answer |-> IF g = 0 THEN code ELSE g,
                       told |-> h]
  BY ONLY <1>1, <1>2
<1> QED
  BY <1>3 DEF a, b, c, d, e, g, h

LEMMA PlaceEnds ==
    ASSUME NEW p, NEW n, NEW q \in Requests, NEW o, NEW r, Place(p, q, o, r),
           Leaves(p, n, Main(q)), r.pc # "language",
           NEW s, s.pc = "done"
    PROVE  Place(n, q, o, s)
<1>1. /\ ~ In(n, Main(q)) /\ ~ In(n, Inner(q))
      /\ In(n, Retouch(q)) => In(p, Retouch(q))
  BY TasksOf DEF Leaves, Place
<1>2. \A u : ~ Carries(n, Main(q), u)
  BY TasksOf DEF Leaves
<1> QED
  BY <1>1, <1>2 DEF Place, InTransaction

LEMMA AsksEnds ==
    ASSUME NEW q, NEW o, NEW r, NEW K, Asks(q, o, r, K), NEW L, Follow(K, L, q),
           NEW code,
           r.told = "revoked" => code \notin {200, 201, 404},
           o.kind = "revokeKey" /\ code = 200 => Revoked(o.target, L)
    PROVE  Asks(q, o, Done(r, code), L)
<1> DEFINE s == Done(r, code)
<1>1. s = [pc |-> "done", tenant |-> r.tenant, language |-> r.language,
           seen |-> r.seen, staged |-> {},
           answer |-> IF r.answer = 0 THEN code ELSE r.answer,
           told |-> r.told]
  BY DoneFields DEF Asks
<1> HIDE DEF s
<1>2. /\ s.pc = "done" /\ s.tenant = r.tenant /\ s.seen = r.seen /\ s.staged = {}
      /\ s.answer = IF r.answer = 0 THEN code ELSE r.answer
      /\ s.told = r.told
  BY <1>1
<1>3. Fields(s)
  BY ONLY <1>1 DEF Fields
<1>4. Promise(o, r, L)
  BY PromiseFollows DEF Asks
<1>5. Promise(o, s, L)
  BY <1>2, <1>4 DEF Promise
<1>6. Draft(q, o, s, L) /\ Path(o, s)
  BY <1>2 DEF Draft, Path
<1>7. Asks(q, o, s, L)
  BY <1>2, <1>3, <1>5, <1>6 DEF Asks, InTransaction
<1> QED
  BY <1>7 DEF s

LEMMA EndsHere ==
    ASSUME Inv, NEW q \in Requests, NEW code, Ends(q, code),
           req[q].pc # "language", op' = op,
           Tidy(pool'), Leaves(pool, pool', Main(q)),
           KeysOk(keys'), Follow(keys, keys', q),
           req[q].told = "revoked" => code \notin {200, 201, 404},
           op[q].kind = "revokeKey" /\ code = 200 => Revoked(op[q].target, keys')
    PROVE  Inv'
<1>1. Place(pool, q, op[q], req[q]) /\ Asks(q, op[q], req[q], keys)
  BY DEF Inv, IInv
<1> DEFINE f == [req EXCEPT ![q] = Done(req[q], code)]  s == Done(req[q], code)
<1>2. req' = f
  BY DEF Ends
<1>3. /\ f = [a \in Requests |-> f[a]] /\ f[q] = s
      /\ \A a \in Requests : a # q => f[a] = req[a]
  BY DEF Inv, IInv
<1>4. s.pc = "done" /\ Asks(q, op[q], s, keys')
  BY <1>1, AsksEnds, DoneFields DEF Asks
<1> HIDE DEF f, s
<1>5. Place(pool', q, op[q], s)
  BY <1>1, <1>4, PlaceEnds
<1>6. Others(pool, pool', q)
  BY OthersLeave, TasksOf
<1>7. IInv(op, f, pool', keys')
  BY <1>3, <1>4, <1>5, <1>6, OneMoves DEF Inv
<1> QED
  BY <1>2, <1>7 DEF Inv

-----------------------------------------------------------------------------
(* From hand to hand.                                                      *)

\* The connection comes back, and the task stands at the end of the queue.
Again(p, n, t) ==
    /\ \A u \in Task : In(n, u) <=> In(p, u)
    /\ \A u \in Task : \A s : Carries(n, u, s) <=> Carries(p, u, s) /\ u # t

LEMMA OthersAgain ==
    ASSUME NEW p, NEW n, NEW t, NEW q, Again(p, n, t), t[1] = q
    PROVE  Others(p, n, q)
BY DEF Others, Again

LEMMA ReleaseAgain ==
    ASSUME NEW p, NEW t \in Task, Tidy(p), Has(p, t), \A s : ~ Carries(p, t, s)
    PROVE  /\ Tidy(Connect(Release(p, t), t))
           /\ Again(p, Connect(Release(p, t), t), t)
<1> DEFINE m == Release(p, t)
<1>1. Tidy(m) /\ Leaves(p, m, t)
  BY ReleaseLeaves
<1> HIDE DEF m
<1>2. Tidy(Connect(m, t)) /\ Joins(m, Connect(m, t), t)
  BY <1>1, ConnectJoins DEF Leaves
<1>3. Again(p, Connect(m, t), t)
  BY <1>1, <1>2 DEF Leaves, Joins, Again, In
<1> QED
  BY <1>2, <1>3 DEF m

LEMMA EndScopeAgain ==
    ASSUME NEW p, NEW t \in Task, Tidy(p), Has(p, t)
    PROVE  /\ Tidy(Connect(EndScope(p, t), t))
           /\ Again(p, Connect(EndScope(p, t), t), t)
<1> DEFINE m == EndScope(p, t)
<1>1. Tidy(m) /\ Leaves(p, m, t)
  BY EndScopeLeaves
<1> HIDE DEF m
<1>2. Tidy(Connect(m, t)) /\ Joins(m, Connect(m, t), t)
  BY <1>1, ConnectJoins DEF Leaves
<1>3. Again(p, Connect(m, t), t)
  BY <1>1, <1>2 DEF Leaves, Joins, Again, In
<1> QED
  BY <1>2, <1>3 DEF m

-----------------------------------------------------------------------------
(* A request that goes on.                                                 *)

\* The function g is f, but for the record s of the request q.
Becomes(f, g, q, s) ==
    /\ g = [a \in Requests |-> g[a]] /\ g[q] = s
    /\ \A a \in Requests : a # q => g[a] = f[a]

LEMMA GoesOn ==
    ASSUME Inv, NEW q \in Requests, NEW s, Becomes(req, req', q, s), op' = op,
           Tidy(pool'), Others(pool, pool', q), UNCHANGED keys,
           Place(pool', q, op[q], s), Asks(q, op[q], s, keys)
    PROVE  Inv'
<1> DEFINE g == req'
<1>1. /\ g = [a \in Requests |-> g[a]] /\ g[q] = s
      /\ \A a \in Requests : a # q => g[a] = req[a]
  BY DEF Becomes
<1> HIDE DEF g
<1>2. KeysOk(keys) /\ Follow(keys, keys, q)
  BY FollowSame DEF Inv, IInv
<1>3. IInv(op, g, pool', keys)
  BY <1>1, <1>2, OneMoves DEF Inv
<1> QED
  BY <1>3 DEF Inv, g

LEMMA Here ==
    ASSUME Inv, NEW q \in Requests
    PROVE  /\ Tidy(pool) /\ KeysOk(keys)
           /\ Place(pool, q, op[q], req[q]) /\ Asks(q, op[q], req[q], keys)
           /\ req = [a \in Requests |-> req[a]]
           /\ Fields(req[q])
BY DEF Inv, IInv, Asks

LEMMA BecomesExcept ==
    ASSUME NEW f, f = [a \in Requests |-> f[a]], NEW q \in Requests, NEW s,
           NEW g, g = [f EXCEPT ![q] = s]
    PROVE  Becomes(f, g, q, s)
BY DEF Becomes

LEMMA ProvisionKeeps ==
    ASSUME Inv, NEW q \in Requests, Provision(q)
    PROVE  Inv'
<1> DEFINE r == req[q]
<1>1. /\ r.pc = "provision" /\ Has(pool, Main(q)) /\ op' = op
  BY DEF Provision, At, Main
<1>2. /\ Tidy(pool) /\ KeysOk(keys)
      /\ Place(pool, q, op[q], r) /\ Asks(q, op[q], r, keys)
  BY Here
<1>3. op[q].kind = "signup" /\ r.tenant = None /\ r.seen = {} /\ r.staged = {}
      /\ r.told # "revoked"
  BY <1>1, <1>2 DEF Asks, Path, Draft, Promise
<1>4. \A s : ~ Carries(pool, Main(q), s)
  BY <1>1, <1>2 DEF Place, InTransaction
<1>5. keys' = keys
  BY DEF Provision, ProvisionTenant, tables
<1>6. CASE ProvisionError(op[q]) # 0
  <2>1. /\ Ends(q, ProvisionError(op[q])) /\ pool' = Release(pool, Main(q))
    BY <1>6 DEF Provision, Main
  <2>2. Tidy(pool') /\ Leaves(pool, pool', Main(q))
    BY <1>1, <1>2, <1>4, <2>1, ReleaseLeaves, TasksOf
  <2> QED
    BY <1>1, <1>2, <1>3, <1>5, <2>1, <2>2, EndsHere, FollowSame
<1>7. CASE ~ (ProvisionError(op[q]) # 0)
  <2>1. /\ req' = [req EXCEPT ![q].pc = "begin", ![q].tenant = q]
        /\ pool' = Connect(Release(pool, Main(q)), Main(q))
    BY <1>7 DEF Provision, Main
  <2>2. Tidy(pool') /\ Again(pool, pool', Main(q))
    BY <1>1, <1>2, <1>4, <2>1, ReleaseAgain, TasksOf
  <2> DEFINE s == [r EXCEPT !.pc = "begin", !.tenant = q]
  <2>0. s = [r EXCEPT !.pc = "begin", !.tenant = q]
    OBVIOUS
  <2> HIDE DEF s, r
  <2>3. Becomes(req, req', q, s)
    BY <2>0, <2>1, BecomesExcept, Here DEF r
  <2>4. /\ s.pc = "begin" /\ s.tenant = q /\ s.seen = {} /\ s.staged = {}
        /\ s.told # "revoked" /\ s.answer = r.answer /\ Fields(s)
    BY <1>2, <1>3, <2>0 DEF Asks, Fields
  <2>5. Place(pool', q, op[q], s)
    BY <1>1, <1>2, <1>4, <2>2, <2>4, TasksOf DEF Place, Again, InTransaction
  <2>6. Asks(q, op[q], s, keys)
    BY <1>2, <1>3, <2>4, NobodyAssumption
       DEF Asks, Path, Draft, Promise, InTransaction
  <2>7. Others(pool, pool', q)
    BY <2>2, OthersAgain, TasksOf
  <2> QED
    BY <1>1, <1>5, <2>2, <2>3, <2>5, <2>6, <2>7, GoesOn
<1> QED
  BY <1>6, <1>7

LEMMA EndsAt ==
    ASSUME Inv, NEW q \in Requests, NEW code, Ends(q, code), op' = op,
           Tidy(pool'), Others(pool, pool', q), UNCHANGED keys,
           Place(pool', q, op[q], Done(req[q], code)),
           req[q].told # "revoked", code # 200
    PROVE  Inv'
<1> DEFINE s == Done(req[q], code)
<1>1. req' = [req EXCEPT ![q] = s]
  BY DEF Ends
<1>2. Asks(q, op[q], s, keys)
  BY Here, AsksEnds, FollowSame
<1> HIDE DEF s
<1>3. Becomes(req, req', q, s)
  BY <1>1, Here, BecomesExcept
<1>4. Place(pool', q, op[q], s)
  BY DEF s
<1> QED
  BY <1>2, <1>3, <1>4, GoesOn

\* Whoever is known is known as one of the tenant his credential belongs to,
\* and with a key that is in force.
LEMMA Known ==
    ASSUME NEW q \in Requests, NEW r, r.pc = "authenticate",
           Asks(q, op[q], r, keys), KeysOk(keys), NEW w \in Authenticate(op[q])
    PROVE  /\ w.tenant # None /\ Belongs(op[q], w.tenant, keys)
           /\ r.told # "revoked"
<1>1. op[q].key # None \/ op[q].session # None
  BY DEF Asks, Path
<1>2. CASE op[q].key # None
  <2>1. PICK k \in keys : /\ k.id = op[q].key /\ k.revokedAt = {}
                          /\ w.tenant = k.tenant
    BY <1>2 DEF Authenticate, KeyPrincipals, AuthenticateApiKey
  <2>2. ~ Revoked(op[q].key, keys)
    BY <2>1 DEF Revoked, KeysOk
  <2> QED
    BY <1>2, <2>1, <2>2 DEF Belongs, KeysOk, Asks, Promise
<1>3. CASE op[q].key = None
  <2>1. w.tenant = op[q].session
    BY <1>3 DEF Authenticate, SessionPrincipals, AuthenticateSession
  <2> QED
    BY <1>1, <1>3, <2>1 DEF Belongs, Asks, Promise
<1> QED
  BY <1>2, <1>3

LEMMA RefusedCodes ==
    ASSUME NEW o, NEW w PROVE Refused(o, w) \in {0, 400, 401, 403}
BY DEF Refused

LEMMA AuthenticatesKeeps ==
    ASSUME Inv, NEW q \in Requests, Authenticates(q)
    PROVE  Inv'
<1> DEFINE r == req[q]  freed == Release(pool, Main(q))
           touched == IF Touches(op[q])
                      THEN Connect(freed, TouchOf(q)) ELSE freed
<1>1. /\ r.pc = "authenticate" /\ Has(pool, Main(q)) /\ op' = op /\ keys' = keys
  BY DEF Authenticates, At, Main, tables
<1>2. /\ Tidy(pool) /\ KeysOk(keys)
      /\ Place(pool, q, op[q], r) /\ Asks(q, op[q], r, keys)
  BY Here
<1>3. /\ op[q].kind # "signup" /\ op[q].kind # "ready"
      /\ r.tenant = None /\ r.seen = {} /\ r.staged = {}
  BY <1>1, <1>2 DEF Asks, Path, Draft
<1>4. \A s : ~ Carries(pool, Main(q), s)
  BY <1>1, <1>2 DEF Place, InTransaction
<1>5. Tidy(freed) /\ Leaves(pool, freed, Main(q))
  BY <1>1, <1>2, <1>4, ReleaseLeaves, TasksOf
<1>6. ~ In(freed, TouchOf(q))
  BY <1>1, <1>2, <1>5, TasksOf DEF Place, Leaves
<1>7. \/ /\ Ends(q, 500) \/ Ends(q, 401)
         /\ pool' = freed
      \/ \E w \in Authenticate(op[q]) :
             IF Refused(op[q], w) # 0
             THEN Ends(q, Refused(op[q], w)) /\ pool' = touched
             ELSE /\ req' = [req EXCEPT ![q].pc = "begin", ![q].tenant = w.tenant]
                  /\ pool' = Connect(touched, Main(q))
  BY DEF Authenticates, Main, TouchOf
<1> HIDE DEF freed
<1>8. /\ Tidy(touched) /\ Others(freed, touched, q)
      /\ \A u \in Task : In(touched, u) <=> In(freed, u) \/ (Touches(op[q]) /\ u = TouchOf(q))
      /\ \A u \in Task : \A s : Carries(touched, u, s) <=> Carries(freed, u, s)
  <2>1. CASE Touches(op[q])
    <3>1. Tidy(touched) /\ Joins(freed, touched, TouchOf(q))
      BY <1>5, <1>6, <2>1, ConnectJoins, TasksOf
    <3> QED
      BY <2>1, <3>1, OthersJoin, TasksOf DEF Joins
  <2>2. CASE ~ Touches(op[q])
    BY <1>5, <2>2, OthersSame
  <2> QED
    BY <2>1, <2>2
<1> HIDE DEF r, touched
<1>9. CASE (Ends(q, 500) \/ Ends(q, 401)) /\ pool' = freed
  <2>1. KeysOk(keys') /\ Follow(keys, keys', q)
    BY <1>1, <1>2, FollowSame
  <2>2. ASSUME NEW code \in {401, 500}, Ends(q, code)
        PROVE  Inv'
    <3>1. code \notin {200, 201, 404} /\ code # 200
      BY <2>2
    <3> QED
      BY <1>1, <1>5, <1>9, <2>1, <2>2, <3>1, EndsHere DEF r
  <2> QED
    BY <1>9, <2>2
<1>10. ASSUME NEW w \in Authenticate(op[q]), Refused(op[q], w) # 0,
              Ends(q, Refused(op[q], w)), pool' = touched
       PROVE  Inv'
  <2> DEFINE code == Refused(op[q], w)  s == Done(r, code)
  <2>1. code # 200
    BY RefusedCodes
  <2>2. s.pc = "done"
    BY <1>2, DoneFields DEF Asks
  <2>3. r.told # "revoked"
    BY <1>1, <1>2, Known
  <2> HIDE DEF s, code
  <2>4. Place(touched, q, op[q], s)
    BY <1>1, <1>2, <1>4, <1>5, <1>8, <2>2, TasksOf
       DEF Place, Leaves, InTransaction
  <2>5. Tidy(pool') /\ Others(pool, pool', q)
    BY <1>5, <1>8, <1>10, OthersLeave, OthersThen, TasksOf
  <2> QED
    BY <1>1, <1>10, <2>1, <2>3, <2>4, <2>5, EndsAt DEF r, s, code
<1>11. ASSUME NEW w \in Authenticate(op[q]),
              req' = [req EXCEPT ![q].pc = "begin", ![q].tenant = w.tenant],
              pool' = Connect(touched, Main(q))
       PROVE  Inv'
  <2> DEFINE s == [r EXCEPT !.pc = "begin", !.tenant = w.tenant]
  <2>0. s = [r EXCEPT !.pc = "begin", !.tenant = w.tenant]
    OBVIOUS
  <2> HIDE DEF s
  <2>1. Becomes(req, req', q, s)
    BY <1>11, <2>0, BecomesExcept, Here DEF r
  <2>2. /\ s.pc = "begin" /\ s.tenant = w.tenant /\ s.seen = {} /\ s.staged = {}
        /\ s.told = r.told /\ s.answer = r.answer /\ Fields(s)
    BY <1>2, <1>3, <2>0 DEF Asks, Fields
  <2>3. w.tenant # None /\ Belongs(op[q], w.tenant, keys) /\ r.told # "revoked"
    BY <1>1, <1>2, Known
  <2>4. ~ In(touched, Main(q))
    BY <1>5, <1>8, TasksOf DEF Leaves
  <2>5. Tidy(pool') /\ Joins(touched, pool', Main(q))
    BY <1>8, <1>11, <2>4, ConnectJoins, TasksOf
  <2>6. Others(pool, pool', q)
    <3>1. Others(pool, freed, q) /\ Others(touched, pool', q)
      BY <1>5, <2>5, OthersLeave, OthersJoin, TasksOf
    <3> QED
      BY <1>8, <3>1, OthersThen
  <2>7. Place(pool', q, op[q], s)
    <3>1. /\ In(pool', Main(q))
          /\ In(pool', Inner(q)) <=> In(pool, Inner(q))
          /\ In(pool', Retouch(q)) <=> In(pool, Retouch(q))
          /\ \A x : ~ Carries(pool', Main(q), x)
      BY <1>4, <1>5, <1>8, <2>5, TasksOf DEF Leaves, Joins
    <3> QED
      BY <1>1, <1>2, <2>2, <3>1 DEF Place, InTransaction
  <2>8. Asks(q, op[q], s, keys)
    <3>1. Path(op[q], s) /\ Draft(q, op[q], s, keys)
      BY <1>1, <1>2, <2>2 DEF Asks, Path, Draft
    <3>2. Promise(op[q], s, keys)
      BY <1>2, <2>2, <2>3 DEF Asks, Promise
    <3> QED
      BY <2>2, <2>3, <3>1, <3>2 DEF Asks, InTransaction
  <2> QED
    BY <1>1, <2>1, <2>5, <2>6, <2>7, <2>8, GoesOn
<1> QED
  BY <1>7, <1>9, <1>10, <1>11

LEMMA ArriveKeeps ==
    ASSUME Inv, NEW q \in Requests, Arrive(q)
    PROVE  Inv'
<1> DEFINE r == req[q]
<1>1. r.pc = "new" /\ op' = op /\ keys' = keys
  BY DEF Arrive, tables
<1>2. /\ Tidy(pool) /\ KeysOk(keys)
      /\ Place(pool, q, op[q], r) /\ Asks(q, op[q], r, keys)
  BY Here
<1>3. /\ r.tenant = None /\ r.seen = {} /\ r.staged = {} /\ r.answer = 0
      /\ r.told # "revoked"
  BY <1>1, <1>2 DEF Asks, Draft, Promise
<1>4. /\ ~ In(pool, Main(q)) /\ ~ In(pool, Inner(q))
      /\ ~ In(pool, TouchOf(q)) /\ ~ In(pool, Retouch(q))
      /\ \A s : ~ Carries(pool, Main(q), s)
  BY <1>1, <1>2 DEF Place, InTransaction
<1>5. CASE NeedsDatabase(op[q])
  <2> DEFINE told == IF ToldRevoked(op[q]) THEN "revoked" ELSE "nothing"
             pc == FirstStep(op[q])
             s == [r EXCEPT !.pc = pc, !.told = told]
  <2>0. s = [r EXCEPT !.pc = pc, !.told = told]
    OBVIOUS
  <2>1. /\ req' = [req EXCEPT ![q].pc = pc, ![q].told = told]
        /\ pool' = Connect(pool, Main(q))
    BY <1>5 DEF Arrive, Main
  <2>2. /\ pc = "provision" => op[q].kind = "signup"
        /\ pc = "probe" => op[q].kind = "ready"
        /\ pc = "authenticate" => /\ op[q].kind # "signup" /\ op[q].kind # "ready"
                                  /\ op[q].key # None \/ op[q].session # None
        /\ pc \in {"provision", "probe", "authenticate"}
    BY <1>5 DEF NeedsDatabase, FirstStep
  <2>3. told = "revoked" => /\ pc = "authenticate" /\ op[q].key # None
                            /\ Revoked(op[q].key, keys)
    <3>1. ASSUME ToldRevoked(op[q])
          PROVE  /\ op[q].kind \notin {"signup", "ready"} /\ op[q].key # None
                 /\ Revoked(op[q].key, keys)
      <4>1. PICK a \in Requests : /\ op[a].kind = "revokeKey"
                                  /\ op[a].target = op[q].key
                                  /\ req[a].answer = 200
        BY <3>1 DEF ToldRevoked
      <4>2. Promise(op[a], req[a], keys)
        BY Here DEF Asks
      <4> QED
        BY <3>1, <4>1, <4>2 DEF Promise, ToldRevoked
    <3> QED
      BY <3>1 DEF FirstStep
  <2> HIDE DEF s, r, told, pc
  <2>4. Becomes(req, req', q, s)
    BY <2>0, <2>1, BecomesExcept, Here DEF r
  <2>5. /\ s.pc = pc /\ s.tenant = None /\ s.seen = {} /\ s.staged = {}
        /\ s.told = told /\ s.answer = r.answer /\ Fields(s)
    BY <1>2, <1>3, <2>0 DEF Asks, Fields
  <2>6. Tidy(pool') /\ Joins(pool, pool', Main(q))
    BY <1>2, <1>4, <2>1, ConnectJoins, TasksOf
  <2>7. Others(pool, pool', q)
    BY <2>6, OthersJoin, TasksOf
  <2>8. Place(pool', q, op[q], s)
    <3>1. /\ In(pool', Main(q)) /\ ~ In(pool', Inner(q))
          /\ ~ In(pool', TouchOf(q)) /\ ~ In(pool', Retouch(q))
          /\ \A x : ~ Carries(pool', Main(q), x)
      BY <1>4, <2>6, TasksOf DEF Joins
    <3> QED
      BY <2>2, <2>5, <3>1 DEF Place, InTransaction
  <2>9. Asks(q, op[q], s, keys)
    <3>2. Path(op[q], s)
      BY <2>2, <2>5 DEF Path
    <3>3. Draft(q, op[q], s, keys)
      BY <1>1, <1>2, <2>2, <2>5 DEF Asks, Draft
    <3>4. Promise(op[q], s, keys)
      BY <1>1, <1>2, <1>3, <2>2, <2>3, <2>5 DEF Asks, Promise
    <3> QED
      BY <1>3, <2>2, <2>5, <3>2, <3>3, <3>4 DEF Asks, InTransaction
  <2> QED
    BY <1>1, <2>4, <2>6, <2>7, <2>8, <2>9, GoesOn
<1>6. CASE ~ NeedsDatabase(op[q])
  <2> DEFINE code == IF op[q].kind = "signup" THEN 400 ELSE 401
             s == Done(r, code)
  <2>1. Ends(q, code) /\ pool' = pool
    BY <1>6 DEF Arrive
  <2>2. s.pc = "done"
    BY <1>2, DoneFields DEF Asks
  <2>3. code # 200
    OBVIOUS
  <2> HIDE DEF s, code
  <2>4. Place(pool, q, op[q], s)
    BY <1>4, <2>2 DEF Place, InTransaction
  <2> QED
    BY <1>1, <1>2, <1>3, <2>1, <2>3, <2>4, EndsAt, OthersSame DEF s
<1> QED
  BY <1>5, <1>6

-----------------------------------------------------------------------------
(* Inside a transaction.                                                   *)

\* The tenant a transaction sees is the one its request is in.
LEMMA ScopeIsTheTenant ==
    ASSUME Inv, NEW q \in Requests, req[q].pc \in InTransaction
    PROVE  ScopeOf(q) = req[q].tenant
<1>1. Carries(pool, Main(q), req[q].tenant)
  BY Here DEF Place
<1>2. PICK c \in Connections : /\ pool.conn[c].holder = Main(q)
                               /\ pool.conn[c].scope = req[q].tenant
  BY <1>1 DEF Carries
<1>3. Has(pool, Main(q))
  BY <1>2 DEF Has
<1>4. Of(pool, Main(q)) \in Connections /\ pool.conn[Of(pool, Main(q))].holder = Main(q)
  BY <1>3, OfHolds
<1>5. Main(q) # None
  BY NobodyAssumption, TasksOf DEF Task
<1>6. Of(pool, Main(q)) = c
  BY <1>2, <1>4, <1>5, Here DEF Tidy
<1> QED
  BY <1>2, <1>6 DEF ScopeOf, Main

LEMMA VisibleRows ==
    ASSUME NEW rows, NEW scope, NEW x \in Visible(rows, scope)
    PROVE  x.tenant = scope /\ x \in rows
BY DEF Visible

\* A statement that leaves the transaction open, for its end.
LEMMA StaysOpen ==
    ASSUME Inv, NEW q \in Requests, req[q].pc \in {"body", "rest"}, op' = op,
           UNCHANGED <<pool, keys>>,
           NEW s, Becomes(req, req', q, s), s.pc \in {"commit", "rollback"},
           s.tenant = req[q].tenant, Asks(q, op[q], s, keys)
    PROVE  Inv'
<1>1. Place(pool, q, op[q], s)
  BY Here DEF Place, InTransaction
<1>2. Tidy(pool)
  BY Here
<1> QED
  BY <1>1, <1>2, GoesOn, OthersSame

LEMMA FailsKeeps ==
    ASSUME Inv, NEW q \in Requests, req[q].pc = "body", op' = op,
           NEW code, code # 200, Fails(q, code)
    PROVE  Inv'
<1> DEFINE r == req[q]  s == [r EXCEPT !.pc = "rollback", !.answer = code, !.staged = {}]
<1>1. s = [r EXCEPT !.pc = "rollback", !.answer = code, !.staged = {}]
  OBVIOUS
<1>2. Asks(q, op[q], r, keys) /\ r.pc = "body" /\ UNCHANGED <<pool, keys>>
  BY Here DEF Fails, tables
<1> HIDE DEF r, s
<1>3. /\ s.pc = "rollback" /\ s.tenant = r.tenant /\ s.seen = r.seen /\ s.staged = {}
      /\ s.told = r.told /\ s.answer = code /\ Fields(s)
  BY <1>1, <1>2 DEF Asks, Fields
<1>4. Becomes(req, req', q, s)
  <2>1. req' = [req EXCEPT ![q].pc = "rollback", ![q].answer = code,
                           ![q].staged = {}]
    BY DEF Fails
  <2>2. req' = [req EXCEPT ![q] = s]
    BY <1>1, <2>1 DEF r
  <2> QED
    BY <2>2, BecomesExcept, Here
<1>5. Asks(q, op[q], s, keys)
  BY <1>2, <1>3 DEF Asks, Path, Draft, Promise, InTransaction
<1> QED
  BY <1>2, <1>3, <1>4, <1>5, StaysOpen DEF r

LEMMA WritesKeeps ==
    ASSUME Inv, NEW q \in Requests, req[q].pc = "body", op' = op,
           UNCHANGED <<pool, keys>>,
           NEW rows, req' = [req EXCEPT ![q].pc = "commit", ![q].staged = rows],
           op[q].kind = "createKey" =>
               \A n \in rows : n = [id |-> q, tenant |-> req[q].tenant,
                                    revokedAt |-> {}],
           op[q].kind = "revokeKey" =>
               \A n \in rows :
                   /\ n = [id |-> op[q].target, tenant |-> req[q].tenant,
                           revokedAt |-> {"now"}]
                   /\ \E k \in keys : k.id = op[q].target /\ k.tenant = req[q].tenant
    PROVE  Inv'
<1> DEFINE r == req[q]  s == [r EXCEPT !.pc = "commit", !.staged = rows]
<1>1. s = [r EXCEPT !.pc = "commit", !.staged = rows]
  OBVIOUS
<1>2. Asks(q, op[q], r, keys) /\ r.pc = "body"
  BY Here
<1>3. /\ op[q].kind = "createKey" =>
             \A n \in rows : n = [id |-> q, tenant |-> r.tenant, revokedAt |-> {}]
      /\ op[q].kind = "revokeKey" =>
             \A n \in rows :
                 /\ n = [id |-> op[q].target, tenant |-> r.tenant,
                         revokedAt |-> {"now"}]
                 /\ \E k \in keys : k.id = op[q].target /\ k.tenant = r.tenant
  OBVIOUS
<1>4. Becomes(req, req', q, s)
  BY <1>1, BecomesExcept, Here
<1> HIDE DEF r, s
<1>5. /\ s.pc = "commit" /\ s.tenant = r.tenant /\ s.seen = r.seen
      /\ s.staged = rows /\ s.told = r.told /\ s.answer = r.answer /\ Fields(s)
  BY <1>1, <1>2 DEF Asks, Fields
<1>6. Draft(q, op[q], s, keys)
  BY <1>2, <1>3, <1>5 DEF Asks, Draft
<1>7. Asks(q, op[q], s, keys)
  BY <1>2, <1>5, <1>6 DEF Asks, Path, Promise, InTransaction
<1> QED
  BY <1>2, <1>4, <1>5, <1>7, StaysOpen DEF r

LEMMA InsertOwnerKeeps ==
    ASSUME Inv, NEW q \in Requests, InsertOwner(q)
    PROVE  Inv'
<1>1. op[q].kind = "signup" /\ req[q].pc = "body" /\ op' = op
  BY DEF InsertOwner, At
<1>2. \/ Fails(q, 400) \/ Fails(q, 409)
      \/ /\ req' = [req EXCEPT ![q].pc = "commit",
                               ![q].staged = {OwnerRow(q, op[q])}]
         /\ UNCHANGED <<pool, keys>>
  BY DEF InsertOwner, tables
<1>3. CASE Fails(q, 400) \/ Fails(q, 409)
  <2>1. \E code \in {400, 409} : Fails(q, code) /\ code # 200
    BY <1>3
  <2> QED
    BY <1>1, <2>1, FailsKeeps
<1>4. CASE /\ req' = [req EXCEPT ![q].pc = "commit",
                                 ![q].staged = {OwnerRow(q, op[q])}]
           /\ UNCHANGED <<pool, keys>>
  <2> DEFINE rows == {OwnerRow(q, op[q])}
  <2>1. req' = [req EXCEPT ![q].pc = "commit", ![q].staged = rows]
    BY <1>4
  <2> HIDE DEF rows
  <2> QED
    BY <1>1, <1>4, <2>1, WritesKeeps
<1> QED
  BY <1>2, <1>3, <1>4

LEMMA SetLanguageKeeps ==
    ASSUME Inv, NEW q \in Requests, SetLanguage(q)
    PROVE  Inv'
<1> DEFINE rows == SetUserLocale(ScopeOf(q), op[q].locale)
<1>1. op[q].kind = "language" /\ req[q].pc = "body" /\ op' = op
  BY DEF SetLanguage, At
<1>2. \/ Fails(q, 400)
      \/ /\ req' = [req EXCEPT ![q].pc = "commit", ![q].staged = rows]
         /\ UNCHANGED <<pool, keys>>
  BY DEF SetLanguage, Writes, tables
<1> HIDE DEF rows
<1>3. CASE Fails(q, 400)
  <2>1. \E code \in {400} : Fails(q, code) /\ code # 200
    BY <1>3
  <2> QED
    BY <1>1, <2>1, FailsKeeps
<1> QED
  BY <1>1, <1>2, <1>3, WritesKeeps

LEMMA CreateKeyKeeps ==
    ASSUME Inv, NEW q \in Requests, CreateKey(q)
    PROVE  Inv'
<1> DEFINE rows == CreateApiKey(ScopeOf(q), q)
<1>1. /\ op[q].kind = "createKey" /\ req[q].pc = "body" /\ op' = op
      /\ req' = [req EXCEPT ![q].pc = "commit", ![q].staged = rows]
      /\ UNCHANGED <<pool, keys>>
  BY DEF CreateKey, At, Writes, tables
<1>2. \A n \in rows : n = [id |-> q, tenant |-> req[q].tenant, revokedAt |-> {}]
  BY <1>1, ScopeIsTheTenant DEF CreateApiKey, InTransaction
<1> HIDE DEF rows
<1> QED
  BY <1>1, <1>2, WritesKeeps

LEMMA RevokeKeyKeeps ==
    ASSUME Inv, NEW q \in Requests, RevokeKey(q)
    PROVE  Inv'
<1> DEFINE rows == RevokeApiKey(ScopeOf(q), op[q].target)
<1>1. /\ op[q].kind = "revokeKey" /\ req[q].pc = "body" /\ op' = op
      /\ req' = [req EXCEPT ![q].pc = "commit", ![q].staged = rows]
      /\ UNCHANGED <<pool, keys>>
  BY DEF RevokeKey, At, Writes, tables
<1>2. ASSUME NEW n \in rows
      PROVE  /\ n = [id |-> op[q].target, tenant |-> req[q].tenant,
                     revokedAt |-> {"now"}]
             /\ \E k \in keys : k.id = op[q].target /\ k.tenant = req[q].tenant
  BY <1>1, ScopeIsTheTenant
     DEF RevokeApiKey, ListApiKeys, Visible, InTransaction
<1> HIDE DEF rows
<1> QED
  BY <1>1, <1>2, WritesKeeps

\* A statement whose rows are read, and nothing is written.
LEMMA ReadsKeep ==
    ASSUME Inv, NEW q \in Requests, req[q].pc \in {"body", "rest"}, op' = op,
           UNCHANGED <<pool, keys>>,
           NEW s, Becomes(req, req', q, s), Fields(s), s.pc = "commit",
           s.tenant = req[q].tenant, s.staged = {}, s.told = req[q].told,
           s.answer # 200 \/ op[q].kind # "revokeKey",
           \A row \in s.seen : row.tenant = req[q].tenant
    PROVE  Inv'
<1> DEFINE r == req[q]
<1>1. Asks(q, op[q], r, keys) /\ r.pc \in {"body", "rest"}
  BY Here
<1>2. /\ s.tenant = r.tenant /\ s.told = r.told
      /\ \A row \in s.seen : row.tenant = r.tenant
  OBVIOUS
<1> HIDE DEF r
<1>3. r.told # "revoked"
  BY <1>1 DEF Asks, Promise
<1>4. Draft(q, op[q], s, keys) /\ Path(op[q], s)
  BY <1>1 DEF Asks, Draft, Path
<1>5. Promise(op[q], s, keys)
  BY <1>1, <1>2, <1>3 DEF Asks, Promise
<1>6. Asks(q, op[q], s, keys)
  BY <1>1, <1>2, <1>4, <1>5 DEF Asks, InTransaction
<1> QED
  BY <1>6, StaysOpen

LEMMA ListKeysKeeps ==
    ASSUME Inv, NEW q \in Requests, ListKeys(q)
    PROVE  Inv'
<1> DEFINE r == req[q]  rows == ListApiKeys(ScopeOf(q))
           s == [r EXCEPT !.pc = "commit", !.answer = 200, !.seen = rows]
<1>1. /\ op[q].kind = "listKeys" /\ r.pc = "body" /\ op' = op
      /\ req' = [req EXCEPT ![q].pc = "commit", ![q].answer = 200, ![q].seen = rows]
      /\ UNCHANGED <<pool, keys>>
  BY DEF ListKeys, At, tables
<1>2. \A row \in rows : row.tenant = r.tenant
  BY <1>1, ScopeIsTheTenant, VisibleRows DEF ListApiKeys, InTransaction
<1>3. s = [r EXCEPT !.pc = "commit", !.answer = 200, !.seen = rows]
  OBVIOUS
<1> HIDE DEF s, rows
<1>4. Becomes(req, req', q, s)
  BY <1>1, <1>3, BecomesExcept, Here
<1>5. Asks(q, op[q], r, keys)
  BY Here
<1> HIDE DEF r
<1>6. /\ Fields(s) /\ s.pc = "commit" /\ s.tenant = r.tenant /\ s.told = r.told
      /\ s.staged = {} /\ s.seen = rows
  BY <1>1, <1>3, <1>5 DEF Asks, Fields, Draft
<1> QED
  BY <1>1, <1>2, <1>4, <1>6, ReadsKeep DEF r

LEMMA ReauthenticateKeeps ==
    ASSUME Inv, NEW q \in Requests, Reauthenticate(q)
    PROVE  Inv'
<1> DEFINE r == req[q]  rows == GetAccountUser(ScopeOf(q))
           s == [r EXCEPT !.pc = "commit", !.seen = rows]
<1>1. /\ op[q].kind = "createKey" /\ r.pc = "body" /\ op' = op
      /\ req' = [req EXCEPT ![q].pc = "commit", ![q].seen = rows]
      /\ UNCHANGED <<pool, keys>>
  BY DEF Reauthenticate, At, tables
<1>2. \A row \in rows : row.tenant = r.tenant
  BY <1>1, ScopeIsTheTenant, VisibleRows DEF GetAccountUser, InTransaction
<1>3. s = [r EXCEPT !.pc = "commit", !.seen = rows]
  OBVIOUS
<1> HIDE DEF s, rows
<1>4. Becomes(req, req', q, s)
  BY <1>1, <1>3, BecomesExcept, Here
<1>5. Asks(q, op[q], r, keys)
  BY Here
<1> HIDE DEF r
<1>6. /\ Fields(s) /\ s.pc = "commit" /\ s.tenant = r.tenant /\ s.told = r.told
      /\ s.staged = {} /\ s.seen = rows
  BY <1>1, <1>3, <1>5 DEF Asks, Fields, Draft
<1> QED
  BY <1>1, <1>2, <1>4, <1>6, ReadsKeep DEF r

LEMMA AnswerViewKeeps ==
    ASSUME Inv, NEW q \in Requests, AnswerView(q)
    PROVE  Inv'
<1> DEFINE r == req[q]  rows == r.seen \cup Visible(inboxes, ScopeOf(q))
           l == LanguageOf(op[q], IF r.language = None THEN TenantLocale(ScopeOf(q))
                                                     ELSE r.language)
           s == [r EXCEPT !.pc = "commit", !.answer = 200, !.seen = rows,
                          !.language = l]
<1>1. r.pc = "rest" /\ op' = op /\ UNCHANGED <<pool, keys>>
  BY DEF AnswerView, At, tables
<1>2. req' = [req EXCEPT ![q] = s]
  BY DEF AnswerView
<1>3. Asks(q, op[q], r, keys)
  BY Here
<1>4. \A row \in rows : row.tenant = r.tenant
  BY <1>1, <1>3, ScopeIsTheTenant, VisibleRows DEF InTransaction, Asks, Promise
<1>5. s = [r EXCEPT !.pc = "commit", !.answer = 200, !.seen = rows, !.language = l]
  OBVIOUS
<1> HIDE DEF s, rows, l
<1>6. Becomes(req, req', q, s)
  BY <1>2, BecomesExcept, Here
<1> HIDE DEF r
<1>7. /\ Fields(s) /\ s.pc = "commit" /\ s.tenant = r.tenant /\ s.told = r.told
      /\ s.staged = {} /\ s.seen = rows
  BY <1>1, <1>3, <1>5 DEF Asks, Fields, Draft
<1>8. op[q].kind # "revokeKey"
  BY <1>1, <1>3 DEF Asks, Path, Views
<1> QED
  BY <1>1, <1>4, <1>6, <1>7, <1>8, ReadsKeep DEF r

LEMMA ReadSubjectKeeps ==
    ASSUME Inv, NEW q \in Requests, ReadSubject(q)
    PROVE  Inv'
<1> DEFINE r == req[q]  rows == SubjectOf(op[q], ScopeOf(q))
<1>1. /\ op[q].kind \in Views /\ r.pc = "body" /\ op' = op /\ keys' = keys
  BY DEF ReadSubject, At, tables, Views
<1>2. /\ Tidy(pool) /\ Place(pool, q, op[q], r) /\ Asks(q, op[q], r, keys)
  BY Here
<1>3. \A row \in rows : row.tenant = r.tenant
  BY <1>1, ScopeIsTheTenant, VisibleRows DEF SubjectOf, InTransaction
<1>4. \/ /\ req' = [req EXCEPT ![q].pc = "commit", ![q].answer = 404]
         /\ pool' = pool
      \/ /\ req' = [req EXCEPT ![q].pc = "language", ![q].seen = rows]
         /\ pool' = Connect(pool, Inner(q))
  BY DEF ReadSubject, Inner
<1> HIDE DEF rows
<1>5. CASE /\ req' = [req EXCEPT ![q].pc = "commit", ![q].answer = 404]
           /\ pool' = pool
  <2> DEFINE s == [r EXCEPT !.pc = "commit", !.answer = 404]
  <2>1. s = [r EXCEPT !.pc = "commit", !.answer = 404]
    OBVIOUS
  <2> HIDE DEF s
  <2>2. Becomes(req, req', q, s)
    <3>1. req' = [req EXCEPT ![q] = s]
      BY <1>5, <2>1
    <3> QED
      BY <3>1, BecomesExcept, Here
  <2> HIDE DEF r
  <2>3. /\ Fields(s) /\ s.pc = "commit" /\ s.tenant = r.tenant /\ s.told = r.told
        /\ s.staged = {} /\ s.seen = r.seen
    BY <1>1, <1>2, <2>1 DEF Asks, Fields, Draft
  <2>4. /\ \A row \in r.seen : row.tenant = r.tenant
        /\ op[q].kind # "revokeKey"
    BY <1>1, <1>2 DEF Asks, Promise, Views
  <2> QED
    BY <1>1, <1>5, <2>2, <2>3, <2>4, ReadsKeep DEF r
<1>6. CASE /\ req' = [req EXCEPT ![q].pc = "language", ![q].seen = rows]
           /\ pool' = Connect(pool, Inner(q))
  <2> DEFINE s == [r EXCEPT !.pc = "language", !.seen = rows]
  <2>1. s = [r EXCEPT !.pc = "language", !.seen = rows]
    OBVIOUS
  <2> HIDE DEF s
  <2>2. Becomes(req, req', q, s)
    BY <1>6, <2>1, BecomesExcept, Here
  <2> HIDE DEF r
  <2>3. /\ Fields(s) /\ s.pc = "language" /\ s.tenant = r.tenant /\ s.told = r.told
        /\ s.staged = {} /\ s.seen = rows /\ s.answer = r.answer
    BY <1>1, <1>2, <2>1 DEF Asks, Fields, Draft
  <2>4. ~ In(pool, Inner(q))
    BY <1>1, <1>2 DEF Place
  <2>5. Tidy(pool') /\ Joins(pool, pool', Inner(q))
    BY <1>2, <1>6, <2>4, ConnectJoins, TasksOf
  <2>6. Place(pool', q, op[q], s)
    <3>1. /\ In(pool', Inner(q))
          /\ In(pool', Main(q)) <=> In(pool, Main(q))
          /\ In(pool', Retouch(q)) <=> In(pool, Retouch(q))
          /\ \A x : Carries(pool', Main(q), x) <=> Carries(pool, Main(q), x)
      BY <2>5, TasksOf DEF Joins
    <3> QED
      BY <1>1, <1>2, <2>3, <3>1 DEF Place, InTransaction
  <2>7. Asks(q, op[q], s, keys)
    <3>1. Draft(q, op[q], s, keys) /\ Path(op[q], s)
      BY <1>1, <1>2, <2>3 DEF Asks, Draft, Path
    <3>2. Promise(op[q], s, keys)
      BY <1>1, <1>2, <1>3, <2>3 DEF Asks, Promise
    <3> QED
      BY <1>1, <1>2, <2>3, <3>1, <3>2 DEF Asks, InTransaction
  <2> QED
    BY <1>1, <2>2, <2>5, <2>6, <2>7, GoesOn, OthersJoin, TasksOf
<1> QED
  BY <1>4, <1>5, <1>6

LEMMA BeginKeeps ==
    ASSUME Inv, NEW q \in Requests, Begin(q)
    PROVE  Inv'
<1> DEFINE r == req[q]  s == [r EXCEPT !.pc = "body"]
<1>1. /\ r.pc = "begin" /\ Has(pool, Main(q)) /\ op' = op /\ keys' = keys
      /\ pool' = Scope(pool, Main(q), r.tenant)
      /\ req' = [req EXCEPT ![q].pc = "body"]
  BY DEF Begin, At, Main, tables
<1>2. /\ Tidy(pool) /\ Place(pool, q, op[q], r) /\ Asks(q, op[q], r, keys)
  BY Here
<1>3. s = [r EXCEPT !.pc = "body"]
  OBVIOUS
<1> HIDE DEF s
<1>4. Becomes(req, req', q, s)
  BY <1>1, <1>3, BecomesExcept, Here
<1> HIDE DEF r
<1>5. /\ Fields(s) /\ s.pc = "body" /\ s.tenant = r.tenant /\ s.told = r.told
      /\ s.staged = {} /\ s.seen = r.seen /\ s.answer = r.answer
  BY <1>1, <1>2, <1>3 DEF Asks, Fields, Draft
<1>6. r.tenant # None
  BY <1>1, <1>2 DEF Asks
<1>7. Tidy(pool') /\ Opens(pool, pool', Main(q), r.tenant)
  BY <1>1, <1>2, <1>6, ScopeOpens, TasksOf
<1>8. Place(pool', q, op[q], s)
  <2>1. /\ In(pool', Inner(q)) <=> In(pool, Inner(q))
        /\ In(pool', Main(q)) <=> In(pool, Main(q))
        /\ In(pool', Retouch(q)) <=> In(pool, Retouch(q))
        /\ \A x : Carries(pool', Main(q), x) <=> x = r.tenant
    BY <1>7, TasksOf DEF Opens
  <2> QED
    BY <1>1, <1>2, <1>5, <2>1 DEF Place, InTransaction
<1>9. Asks(q, op[q], s, keys)
  <2>1. Draft(q, op[q], s, keys) /\ Path(op[q], s)
    BY <1>1, <1>2, <1>5 DEF Asks, Draft, Path
  <2>2. Promise(op[q], s, keys)
    BY <1>1, <1>2, <1>5 DEF Asks, Promise
  <2> QED
    BY <1>5, <1>6, <2>1, <2>2 DEF Asks, InTransaction
<1> QED
  BY <1>1, <1>4, <1>7, <1>8, <1>9, GoesOn, OthersOpen, TasksOf

\* Only a request's own work has a transaction.
LEMMA OnlyMainCarries ==
    ASSUME NEW p, Tidy(p), NEW t, t[2] # "main"
    PROVE  \A s : ~ Carries(p, t, s)
BY DEF Tidy, Carries

LEMMA ResolveLanguageKeeps ==
    ASSUME Inv, NEW q \in Requests, ResolveLanguage(q)
    PROVE  Inv'
<1> DEFINE r == req[q]  freed == Release(pool, Inner(q))
<1>1. /\ r.pc = "language" /\ Has(pool, Inner(q)) /\ op' = op /\ keys' = keys
  BY DEF ResolveLanguage, InnerHeld, Inner, tables
<1>2. /\ Tidy(pool) /\ Place(pool, q, op[q], r) /\ Asks(q, op[q], r, keys)
  BY Here
<1>3. \E l : req' = [req EXCEPT ![q].pc = "rest", ![q].language = l]
  BY DEF ResolveLanguage
<1>4. pool' = freed \/ pool' = Connect(freed, Retouch(q))
  BY DEF ResolveLanguage, Inner, Retouch
<1>5. \A s : ~ Carries(pool, Inner(q), s)
  BY <1>2, OnlyMainCarries DEF Inner
<1>6. Tidy(freed) /\ Leaves(pool, freed, Inner(q))
  BY <1>1, <1>2, <1>5, ReleaseLeaves, TasksOf
<1> HIDE DEF freed
<1>7. /\ Tidy(pool') /\ Others(pool, pool', q)
      /\ ~ In(pool', Inner(q))
      /\ In(pool', Main(q)) <=> In(pool, Main(q))
      /\ \A x : Carries(pool', Main(q), x) <=> Carries(pool, Main(q), x)
  <2>1. CASE pool' = freed
    BY <1>6, <2>1, OthersLeave, TasksOf DEF Leaves
  <2>2. CASE pool' = Connect(freed, Retouch(q))
    <3>1. ~ In(freed, Retouch(q))
      BY <1>1, <1>2, <1>6, TasksOf DEF Place, Leaves
    <3>2. Tidy(pool') /\ Joins(freed, pool', Retouch(q))
      BY <1>6, <2>2, <3>1, ConnectJoins, TasksOf
    <3>3. Others(pool, pool', q)
      BY <1>6, <3>2, OthersLeave, OthersJoin, OthersThen, TasksOf
    <3> QED
      BY <1>6, <3>2, <3>3, TasksOf DEF Leaves, Joins
  <2> QED
    BY <1>4, <2>1, <2>2
<1>8. ASSUME NEW l, req' = [req EXCEPT ![q].pc = "rest", ![q].language = l]
      PROVE  Inv'
  <2> DEFINE s == [r EXCEPT !.pc = "rest", !.language = l]
  <2>1. s = [r EXCEPT !.pc = "rest", !.language = l]
    OBVIOUS
  <2> HIDE DEF s
  <2>2. Becomes(req, req', q, s)
    BY <1>8, <2>1, BecomesExcept, Here
  <2> HIDE DEF r
  <2>3. /\ Fields(s) /\ s.pc = "rest" /\ s.tenant = r.tenant /\ s.told = r.told
        /\ s.staged = {} /\ s.seen = r.seen /\ s.answer = r.answer
    BY <1>1, <1>2, <2>1 DEF Asks, Fields, Draft
  <2>4. op[q].kind \in Views
    BY <1>1, <1>2 DEF Asks, Path
  <2>5. Place(pool', q, op[q], s)
    BY <1>1, <1>2, <1>7, <2>3, <2>4 DEF Place, InTransaction
  <2>6. Asks(q, op[q], s, keys)
    <3>1. Draft(q, op[q], s, keys) /\ Path(op[q], s)
      BY <1>1, <1>2, <2>3, <2>4 DEF Asks, Draft, Path
    <3>2. Promise(op[q], s, keys)
      BY <1>1, <1>2, <2>3 DEF Asks, Promise
    <3> QED
      BY <1>1, <1>2, <2>3, <3>1, <3>2 DEF Asks, InTransaction
  <2> QED
    BY <1>1, <1>7, <2>2, <2>5, <2>6, GoesOn
<1> QED
  BY <1>3, <1>8

\* An update of a session's last use comes to an end, one way or the other.
LEMMA TouchEnds ==
    ASSUME Inv, NEW q \in Requests, NEW t \in {TouchOf(q), Retouch(q)},
           UNCHANGED <<op, req, keys>>, Tidy(pool'), Leaves(pool, pool', t)
    PROVE  Inv'
<1>1. t # Main(q) /\ t # Inner(q) /\ t[1] = q
  BY TasksOf
<1>2. Place(pool, q, op[q], req[q]) /\ Asks(q, op[q], req[q], keys)
  BY Here
<1>3. Place(pool', q, op[q], req[q])
  <2>1. /\ In(pool', Inner(q)) <=> In(pool, Inner(q))
        /\ In(pool', Main(q)) <=> In(pool, Main(q))
        /\ In(pool', TouchOf(q)) => In(pool, TouchOf(q))
        /\ In(pool', Retouch(q)) => In(pool, Retouch(q))
        /\ \A x : Carries(pool', Main(q), x) <=> Carries(pool, Main(q), x)
    BY <1>1, TasksOf DEF Leaves
  <2> QED
    BY <1>2, <2>1 DEF Place
<1>4. Becomes(req, req', q, req[q])
  BY Here DEF Becomes
<1> QED
  BY <1>1, <1>2, <1>3, <1>4, GoesOn, OthersLeave

LEMMA TouchKeeps ==
    ASSUME Inv, NEW q \in Requests, Touch(q)
    PROVE  Inv'
<1>1. op' = op /\ req' = req /\ keys' = keys
  BY DEF Touch, tables
<1>2. PICK t \in {TouchOf(q), Retouch(q)} :
          Has(pool, t) /\ pool' = Release(pool, t)
  BY DEF Touch, TouchOf, Retouch
<1>3. t \in Task /\ t[2] # "main"
  <2>1. TouchOf(q)[2] # "main" /\ Retouch(q)[2] # "main"
    BY DEF TouchOf, Retouch
  <2> QED
    BY <1>2, <2>1, TasksOf
<1>4. Tidy(pool') /\ Leaves(pool, pool', t)
  BY <1>2, <1>3, Here, OnlyMainCarries, ReleaseLeaves
<1> QED
  BY <1>1, <1>2, <1>4, TouchEnds

\* The second authentication of a view fails, and the view rolls back.
LEMMA InnerFails ==
    ASSUME Inv, NEW q \in Requests, In(pool, Inner(q)), UNCHANGED <<op, keys>>,
           req' = [req EXCEPT ![q].pc = "rollback", ![q].answer = 500],
           Tidy(pool'), Leaves(pool, pool', Inner(q))
    PROVE  Inv'
<1> DEFINE r == req[q]  s == [r EXCEPT !.pc = "rollback", !.answer = 500]
<1>1. s = [r EXCEPT !.pc = "rollback", !.answer = 500]
  OBVIOUS
<1>2. Place(pool, q, op[q], r) /\ Asks(q, op[q], r, keys) /\ r.pc = "language"
  BY Here DEF Place
<1> HIDE DEF s
<1>3. Becomes(req, req', q, s)
  <2>1. req' = [req EXCEPT ![q] = s]
    BY <1>1
  <2> QED
    BY <2>1, BecomesExcept, Here
<1> HIDE DEF r
<1>4. /\ Fields(s) /\ s.pc = "rollback" /\ s.tenant = r.tenant /\ s.told = r.told
      /\ s.staged = {} /\ s.seen = r.seen /\ s.answer = 500
  BY <1>1, <1>2 DEF Asks, Fields, Draft
<1>5. Place(pool', q, op[q], s)
  <2>1. /\ ~ In(pool', Inner(q))
        /\ In(pool', Main(q)) <=> In(pool, Main(q))
        /\ In(pool', Retouch(q)) => In(pool, Retouch(q))
        /\ \A x : Carries(pool', Main(q), x) <=> Carries(pool, Main(q), x)
    BY TasksOf DEF Leaves
  <2> QED
    BY <1>2, <1>4, <2>1 DEF Place, InTransaction
<1>6. Asks(q, op[q], s, keys)
  <2>1. Draft(q, op[q], s, keys) /\ Path(op[q], s)
    BY <1>2, <1>4 DEF Asks, Draft, Path
  <2>2. Promise(op[q], s, keys)
    BY <1>2, <1>4 DEF Asks, Promise
  <2> QED
    BY <1>2, <1>4, <2>1, <2>2 DEF Asks, InTransaction
<1> QED
  BY <1>3, <1>5, <1>6, GoesOn, OthersLeave, TasksOf

-----------------------------------------------------------------------------
(* The end of a transaction, and what goes wrong.                          *)

LEMMA NotTold ==
    ASSUME Inv, NEW q \in Requests, req[q].pc \notin {"authenticate", "done"}
    PROVE  req[q].told # "revoked"
BY Here DEF Asks, Promise

\* A commit keeps every key, and what is revoked stays so.
LEMMA CommittedKeys ==
    ASSUME Inv, NEW q \in Requests, req[q].pc = "commit", Committed(q)
    PROVE  /\ KeysOk(keys') /\ Follow(keys, keys', q)
           /\ req[q].staged = {} => keys' = keys
           /\ op[q].kind = "revokeKey" /\ req[q].staged # {} =>
                  Revoked(op[q].target, keys')
<1> DEFINE r == req[q]  rest == {k \in keys : \A n \in r.staged : n.id # k.id}
<1>1. KeysOk(keys) /\ Asks(q, op[q], r, keys)
  BY Here
<1>2. r.tenant # None /\ Draft(q, op[q], r, keys) /\ r.pc = "commit"
  BY <1>1 DEF Asks, InTransaction
<1>3. CASE op[q].kind \in {"createKey", "revokeKey"}
  <2>1. keys' = rest \cup r.staged
    BY <1>3 DEF Committed, Upsert, Key
  <2> HIDE DEF r
  <2>2. CASE op[q].kind = "createKey"
    <3>1. /\ \A n \in r.staged : n.id = q /\ n.tenant = r.tenant
          /\ \A n, m \in r.staged : n = m
          /\ \A k \in keys : k.id # q
      <4>1. ASSUME NEW n \in r.staged
            PROVE  n = [id |-> q, tenant |-> r.tenant, revokedAt |-> {}]
        BY <1>2, <2>2 DEF Draft
      <4>2. \A n \in r.staged : n.id = q /\ n.tenant = r.tenant
        <5> TAKE n \in r.staged
        <5> QED
          BY <4>1
      <4>3. \A n, m \in r.staged : n = m
        BY <4>1
      <4>4. \A k \in keys : k.id # q
        BY <1>2, <2>2 DEF Draft
      <4> QED
        BY <4>2, <4>3, <4>4
    <3>2. keys' = keys \cup r.staged
      BY <2>1, <3>1
    <3>3. KeysOk(keys')
      BY <1>1, <1>2, <3>1, <3>2 DEF KeysOk
    <3>4. Follow(keys, keys', q)
      BY <3>1, <3>2 DEF Follow
    <3> QED
      BY <2>2, <3>2, <3>3, <3>4 DEF r
  <2>3. CASE op[q].kind = "revokeKey"
    <3>1. /\ \A n \in r.staged : /\ n.id = op[q].target /\ n.tenant = r.tenant
                                 /\ n.revokedAt # {}
                                 /\ \E k \in keys : k.id = n.id /\ k.tenant = n.tenant
          /\ \A n, m \in r.staged : n = m
      <4>1. ASSUME NEW n \in r.staged
            PROVE  /\ n = [id |-> op[q].target, tenant |-> r.tenant,
                           revokedAt |-> {"now"}]
                   /\ \E k \in keys : k.id = op[q].target /\ k.tenant = r.tenant
        BY <1>2, <2>3 DEF Draft
      <4>2. ASSUME NEW n \in r.staged
            PROVE  /\ n.id = op[q].target /\ n.tenant = r.tenant
                   /\ n.revokedAt # {}
        BY <4>1
      <4>3. \A n, m \in r.staged : n = m
        BY <4>1
      <4> QED
        BY <4>1, <4>2, <4>3
    <3>2. KeysOk(keys')
      BY <1>1, <1>2, <2>1, <3>1 DEF KeysOk
    <3>3. ASSUME NEW k \in keys
          PROVE  \E l \in keys' : /\ l.id = k.id /\ l.tenant = k.tenant
                                  /\ k.revokedAt # {} => l.revokedAt # {}
      <4>1. CASE k \in rest
        BY <2>1, <4>1
      <4>2. CASE k \notin rest
        <5>1. PICK n \in r.staged : n.id = k.id
          BY <4>2
        <5>2. n.tenant = k.tenant /\ n.revokedAt # {} /\ n \in keys'
          BY <1>1, <2>1, <3>1, <5>1 DEF KeysOk
        <5> QED
          BY <5>1, <5>2
      <4> QED
        BY <4>1, <4>2
    <3>4. \A l \in keys' : \E k \in keys : k.id = l.id
      BY <2>1, <3>1
    <3>5. r.staged = {} => keys' = keys
      BY <2>1
    <3>6. r.staged # {} => Revoked(op[q].target, keys')
      BY <2>1, <3>1 DEF Revoked
    <3> QED
      BY <3>2, <3>3, <3>4, <3>5, <3>6 DEF Follow, r
  <2> QED
    BY <1>3, <2>2, <2>3
<1>4. CASE op[q].kind \notin {"createKey", "revokeKey"}
  <2>1. keys' = keys
    BY <1>4 DEF Committed
  <2> QED
    BY <1>1, <1>4, <2>1, FollowSame
<1> QED
  BY <1>3, <1>4

LEMMA RollbackKeeps ==
    ASSUME Inv, NEW q \in Requests, Rollback(q)
    PROVE  Inv'
<1>1. /\ req[q].pc = "rollback" /\ Has(pool, Main(q)) /\ op' = op /\ keys' = keys
      /\ Ends(q, 500) /\ pool' = EndScope(pool, Main(q))
  BY DEF Rollback, At, Main, tables
<1>2. Tidy(pool') /\ Leaves(pool, pool', Main(q))
  BY <1>1, EndScopeLeaves, Here, TasksOf
<1>3. KeysOk(keys') /\ Follow(keys, keys', q)
  BY <1>1, Here, FollowSame
<1> DEFINE code == 500
<1>4. Ends(q, code) /\ code \notin {200, 201, 404} /\ code # 200
  BY <1>1
<1> HIDE DEF code
<1> QED
  BY <1>1, <1>2, <1>3, <1>4, EndsHere

LEMMA ProbeKeeps ==
    ASSUME Inv, NEW q \in Requests, Probe(q)
    PROVE  Inv'
<1>1. /\ req[q].pc = "probe" /\ Has(pool, Main(q)) /\ op' = op /\ keys' = keys
      /\ Ends(q, 200) /\ pool' = Release(pool, Main(q))
  BY DEF Probe, At, Main, tables
<1>2. /\ op[q].kind # "revokeKey" /\ req[q].told # "revoked"
      /\ \A s : ~ Carries(pool, Main(q), s)
  BY <1>1, Here, NotTold DEF Asks, Path, Place, InTransaction
<1>3. Tidy(pool') /\ Leaves(pool, pool', Main(q))
  BY <1>1, <1>2, ReleaseLeaves, Here, TasksOf
<1>4. KeysOk(keys') /\ Follow(keys, keys', q)
  BY <1>1, Here, FollowSame
<1> DEFINE code == 200
<1>5. Ends(q, code)
  BY <1>1
<1> HIDE DEF code
<1> QED
  BY <1>1, <1>2, <1>3, <1>4, <1>5, EndsHere

LEMMA CommitKeeps ==
    ASSUME Inv, NEW q \in Requests, Commit(q)
    PROVE  Inv'
<1> DEFINE r == req[q]
<1>1. /\ r.pc = "commit" /\ Has(pool, Main(q)) /\ op' = op /\ Committed(q)
  BY DEF Commit, At, Main
<1>2. /\ Tidy(pool) /\ Place(pool, q, op[q], r) /\ Asks(q, op[q], r, keys)
  BY Here
<1>3. /\ KeysOk(keys') /\ Follow(keys, keys', q)
      /\ r.staged = {} => keys' = keys
      /\ op[q].kind = "revokeKey" /\ r.staged # {} => Revoked(op[q].target, keys')
  BY <1>1, CommittedKeys
<1>4. r.told # "revoked"
  BY <1>1, NotTold
<1>5. \/ /\ MintsNext(q)
         /\ req' = [req EXCEPT ![q].pc = "begin"]
         /\ pool' = Connect(EndScope(pool, Main(q)), Main(q))
      \/ /\ Ends(q, IF MintsNext(q) THEN 401 ELSE AnswerOf(q))
         /\ pool' = EndScope(pool, Main(q))
  BY DEF Commit, Main
<1>6. CASE /\ MintsNext(q)
           /\ req' = [req EXCEPT ![q].pc = "begin"]
           /\ pool' = Connect(EndScope(pool, Main(q)), Main(q))
  <2> DEFINE s == [r EXCEPT !.pc = "begin"]
  <2>1. s = [r EXCEPT !.pc = "begin"]
    OBVIOUS
  <2> HIDE DEF s
  <2>2. Becomes(req, req', q, s)
    <3>1. req' = [req EXCEPT ![q] = s]
      BY <1>6, <2>1
    <3> QED
      BY <3>1, BecomesExcept, Here
  <2>3. op[q].kind = "createKey" /\ r.staged = {}
    BY <1>6 DEF MintsNext
  <2>4. keys' = keys
    BY <1>3, <2>3
  <2>5. Tidy(pool') /\ Again(pool, pool', Main(q))
    BY <1>1, <1>2, <1>6, EndScopeAgain, TasksOf
  <2> HIDE DEF r
  <2>6. /\ Fields(s) /\ s.pc = "begin" /\ s.tenant = r.tenant /\ s.told = r.told
        /\ s.staged = {} /\ s.seen = r.seen /\ s.answer = r.answer
    BY <1>1, <1>2, <2>1, <2>3 DEF Asks, Fields
  <2>7. Place(pool', q, op[q], s)
    <3>1. /\ In(pool', Inner(q)) <=> In(pool, Inner(q))
          /\ In(pool', Main(q)) <=> In(pool, Main(q))
          /\ In(pool', Retouch(q)) <=> In(pool, Retouch(q))
          /\ \A x : ~ Carries(pool', Main(q), x)
      BY <2>5, TasksOf DEF Again
    <3> QED
      BY <1>1, <1>2, <2>3, <2>6, <3>1 DEF Place, InTransaction, Views
  <2>8. Asks(q, op[q], s, keys)
    <3>1. Draft(q, op[q], s, keys) /\ Path(op[q], s)
      BY <1>1, <1>2, <2>3, <2>6 DEF Asks, Draft, Path
    <3>2. Promise(op[q], s, keys)
      BY <1>2, <1>4, <2>6 DEF Asks, Promise
    <3> QED
      BY <1>1, <1>2, <2>6, <3>1, <3>2 DEF Asks, InTransaction
  <2> QED
    BY <1>1, <2>2, <2>4, <2>5, <2>7, <2>8, GoesOn, OthersAgain, TasksOf
<1>7. CASE /\ Ends(q, IF MintsNext(q) THEN 401 ELSE AnswerOf(q))
           /\ pool' = EndScope(pool, Main(q))
  <2> DEFINE code == IF MintsNext(q) THEN 401 ELSE AnswerOf(q)
  <2>1. Tidy(pool') /\ Leaves(pool, pool', Main(q))
    BY <1>1, <1>2, <1>7, EndScopeLeaves, TasksOf
  <2>2. op[q].kind = "revokeKey" /\ code = 200 => Revoked(op[q].target, keys')
    BY <1>3 DEF AnswerOf
  <2>3. Ends(q, code)
    BY <1>7
  <2> HIDE DEF code
  <2> QED
    BY <1>1, <1>3, <1>4, <2>1, <2>2, <2>3, EndsHere
<1> QED
  BY <1>5, <1>6, <1>7

LEMMA ErrorCodes ==
    ASSUME NEW o PROVE ErrorOf(o) \in {500, 503}
BY DEF ErrorOf

\* Whose task it is, and which of his.
LEMMA TaskIsOne ==
    ASSUME NEW t \in Task
    PROVE  /\ t[1] \in Requests
           /\ t[2] = "main" => t = Main(t[1])
           /\ t[2] = "inner" => t = Inner(t[1])
           /\ t[2] \notin {"main", "inner"} => t \in {TouchOf(t[1]), Retouch(t[1])}
BY DEF Task, Roles, Main, Inner, TouchOf, Retouch

LEMMA TimeoutKeeps ==
    ASSUME Inv, NEW t \in Task, CheckoutTimesOut(t)
    PROVE  Inv'
<1> DEFINE q == t[1]
<1>1. /\ op' = op /\ keys' = keys
      /\ t[2] = "main" => Ends(q, ErrorOf(op[q]))
      /\ t[2] = "inner" =>
             req' = [req EXCEPT ![q].pc = "rollback", ![q].answer = 500]
      /\ t[2] \notin {"main", "inner"} => req' = req
  BY DEF CheckoutTimesOut, Ends, tables
<1>2. PICK i \in DOMAIN pool.waiting :
          /\ pool.waiting[i] = t
          /\ pool' = [pool EXCEPT !.waiting = RemoveAt(@, i)]
  BY DEF CheckoutTimesOut
<1>3. /\ q \in Requests
      /\ t[2] = "main" => t = Main(q)
      /\ t[2] = "inner" => t = Inner(q)
      /\ t[2] \notin {"main", "inner"} => t \in {TouchOf(q), Retouch(q)}
  BY TaskIsOne
<1>4. Tidy(pool)
  BY <1>3, Here
<1>5. Tidy(pool') /\ Leaves(pool, pool', t)
  <2> DEFINE n == [pool EXCEPT !.waiting = RemoveAt(@, i)]
  <2>1. Tidy(n) /\ Leaves(pool, n, t)
    BY <1>2, <1>4, LeavesTheQueue
  <2> HIDE DEF n
  <2>2. pool' = n
    BY <1>2 DEF n
  <2> QED
    BY <2>1, <2>2
<1>6. In(pool, t) /\ ~ Has(pool, t)
  BY <1>2, <1>4 DEF In, Has, Tidy
<1> HIDE DEF q
<1>7. KeysOk(keys') /\ Follow(keys, keys', q)
  BY <1>1, <1>3, Here, FollowSame
<1>8. CASE t[2] = "main"
  <2> DEFINE code == ErrorOf(op[q])
  <2>1. code \notin {200, 201, 404} /\ code # 200
    BY ErrorCodes
  <2>2. req[q].pc # "language"
    <3>1. req[q].pc = "language" => Has(pool, Main(q))
      BY <1>3, Here DEF Place, InTransaction, Carries, Has
    <3> QED
      BY <1>3, <1>6, <1>8, <3>1
  <2>3. Ends(q, code)
    BY <1>1, <1>8
  <2> HIDE DEF code
  <2> QED
    BY <1>1, <1>3, <1>5, <1>7, <1>8, <2>1, <2>2, <2>3, EndsHere
<1>9. CASE t[2] = "inner"
  BY <1>1, <1>3, <1>5, <1>6, <1>9, InnerFails
<1>10. CASE t[2] \notin {"main", "inner"}
  BY <1>1, <1>3, <1>5, <1>10, TouchEnds
<1> QED
  BY <1>8, <1>9, <1>10

LEMMA LossKeeps ==
    ASSUME Inv, NEW c \in Connections, ConnectionLost(c)
    PROVE  Inv'
<1> DEFINE t == pool.conn[c].holder  q == t[1]
<1>0. Tidy(pool) /\ KeysOk(keys)
  BY DEF Inv, IInv
<1>1. t \in Task
  BY <1>0 DEF ConnectionLost, Tidy, Shape
<1>2. /\ q \in Requests
      /\ t[2] = "main" => t = Main(q)
      /\ t[2] = "inner" => t = Inner(q)
      /\ t[2] \notin {"main", "inner"} => t \in {TouchOf(q), Retouch(q)}
  BY <1>1, TaskIsOne
<1>3. /\ op' = op /\ pool' = EndScope(pool, t)
      /\ t[2] = "main" =>
             req[q].pc # "language" /\ Effects(q) /\ Ends(q, ErrorOf(op[q]))
      /\ t[2] = "inner" =>
             /\ req' = [req EXCEPT ![q].pc = "rollback", ![q].answer = 500]
             /\ keys' = keys
      /\ t[2] \notin {"main", "inner"} => req' = req /\ keys' = keys
  BY DEF ConnectionLost, Replace, tables
<1>4. Has(pool, t)
  BY DEF Has
<1> HIDE DEF t, q
<1>5. Tidy(pool') /\ Leaves(pool, pool', t)
  BY <1>0, <1>1, <1>3, <1>4, EndScopeLeaves
<1>6. CASE t[2] = "main"
  <2> DEFINE code == ErrorOf(op[q])
  <2>1. code \notin {200, 201, 404} /\ code # 200
    BY ErrorCodes
  <2>2. KeysOk(keys') /\ Follow(keys, keys', q)
    <3>1. CASE keys' = keys
      BY <1>0, <3>1, FollowSame
    <3>2. CASE req[q].pc = "commit" /\ Committed(q)
      BY <1>2, <3>2, CommittedKeys
    <3> QED
      BY <1>3, <1>6, <3>1, <3>2 DEF Effects, ProvisionTenant, tables
  <2>3. Ends(q, code) /\ req[q].pc # "language"
    BY <1>3, <1>6
  <2> HIDE DEF code
  <2> QED
    BY <1>2, <1>3, <1>5, <1>6, <2>1, <2>2, <2>3, EndsHere
<1>7. CASE t[2] = "inner"
  BY <1>2, <1>3, <1>4, <1>5, <1>7, InnerFails DEF In
<1>8. CASE t[2] \notin {"main", "inner"}
  BY <1>2, <1>3, <1>5, <1>8, TouchEnds
<1> QED
  BY <1>6, <1>7, <1>8

-----------------------------------------------------------------------------
(* From the first state on.                                                *)

LEMMA InitEstablishes ==
    ASSUME Init
    PROVE  Inv
<1>1. /\ req = [q \in Requests |-> Fresh]
      /\ pool.conn = [c \in Connections |-> Clean] /\ pool.waiting = <<>>
      /\ pool = [conn |-> pool.conn, waiting |-> pool.waiting]
  BY DEF Init
<1>2. /\ Clean.holder = None /\ Clean.scope = None /\ Clean.tx = "none"
      /\ Clean = [holder |-> Clean.holder, scope |-> Clean.scope, tx |-> Clean.tx]
  BY DEF Clean
<1>3. /\ \A c \in Connections : pool.conn[c] = Clean
      /\ DOMAIN pool.waiting = {} /\ pool.waiting \in Seq(Task)
  BY <1>1
<1>4. Shape(pool)
  BY <1>1, <1>2, <1>3 DEF Shape
<1>5. Tidy(pool)
  BY <1>2, <1>3, <1>1, <1>4 DEF Tidy
<1>6. ASSUME NEW t \in Task
      PROVE  ~ In(pool, t) /\ \A s : ~ Carries(pool, t, s)
  <2>1. t # None
    BY NobodyAssumption DEF Task
  <2> QED
    BY <1>2, <1>3, <2>1 DEF In, Has, Carries
<1>7. /\ Fresh.pc = "new" /\ Fresh.tenant = None /\ Fresh.seen = {}
      /\ Fresh.staged = {} /\ Fresh.answer = 0 /\ Fresh.told = "nothing"
      /\ Fields(Fresh)
  BY DEF Fresh, Fields
<1>8. ASSUME NEW q \in Requests
      PROVE  Place(pool, q, op[q], req[q]) /\ Asks(q, op[q], req[q], keys)
  <2>1. req[q] = Fresh
    BY <1>1
  <2>2. \A k \in keys : k.id # q
    BY DEF Init, Possible
  <2>3. Place(pool, q, op[q], req[q])
    BY <1>6, <1>7, <2>1, TasksOf DEF Place, InTransaction
  <2>4. /\ Path(op[q], req[q]) /\ Draft(q, op[q], req[q], keys)
        /\ Promise(op[q], req[q], keys)
    BY <1>7, <2>1, <2>2 DEF Path, Draft, Promise
  <2> QED
    BY <1>7, <2>1, <2>3, <2>4 DEF Asks, InTransaction
<1>9. KeysOk(keys)
  BY DEF Init, Possible, KeysOk
<1> QED
  BY <1>1, <1>5, <1>8, <1>9 DEF Inv, IInv

LEMMA NextPreserves ==
    ASSUME Inv, [ServiceNext]_serviceVars
    PROVE  Inv'
<1>1. CASE UNCHANGED service
  BY <1>1 DEF Inv, service, tables
<1>2. ASSUME Next
      PROVE  Inv'
  <2>1. ASSUME NEW q \in Requests, Arrive(q) \/ Step(q)
        PROVE  Inv'
    BY <2>1, ArriveKeeps, ProvisionKeeps, InsertOwnerKeeps, AuthenticatesKeeps,
       TouchKeeps, BeginKeeps, ReadSubjectKeeps, ResolveLanguageKeeps,
       AnswerViewKeeps, SetLanguageKeeps, ListKeysKeeps, ReauthenticateKeeps,
       CreateKeyKeeps, RevokeKeyKeeps, CommitKeeps, RollbackKeeps, ProbeKeeps
       DEF Step
  <2>2. ASSUME NEW t \in Task, CheckoutTimesOut(t)
        PROVE  Inv'
    BY <2>2, TimeoutKeeps
  <2>3. ASSUME NEW c \in Connections, ConnectionLost(c)
        PROVE  Inv'
    BY <2>3, LossKeeps
  <2> QED
    BY <1>2, <2>1, <2>2, <2>3 DEF Next
<1> QED
  BY <1>1, <1>2 DEF ServiceNext, Starts, Serves, Provisions, serviceVars

LEMMA InvIsApart ==
    ASSUME Inv
    PROVE  TenantsStayApart
<1>1. Tidy(pool)
  BY DEF Inv, IInv
<1>2. ASSUME NEW t \in Task, In(pool, t), t[2] \in {"main", "inner"}
      PROVE  req[t[1]].pc \notin {"new", "done"}
  <2>1. t[1] \in Requests /\ (t = Main(t[1]) \/ t = Inner(t[1]))
    BY <1>2, TaskIsOne
  <2> QED
    BY <1>2, <2>1, Here DEF Place
<1>3. ASSUME NEW c \in Connections, pool.conn[c].holder # None
      PROVE  LET k == pool.conn[c]
             IN  /\ k.tx = "open" <=> (k.scope # None)
                 /\ k.tx = "open" => /\ k.holder[2] = "main"
                                     /\ k.scope = req[k.holder[1]].tenant
                 /\ k.holder[2] \in {"main", "inner"} =>
                        req[k.holder[1]].pc \notin {"new", "done"}
  <2> DEFINE k == pool.conn[c]  t == pool.conn[c].holder
  <2>1. t \in Task /\ In(pool, t)
    BY <1>1, <1>3 DEF Tidy, Shape, In, Has
  <2>2. k.tx = "open" <=> (k.scope # None)
    BY <1>1 DEF Tidy
  <2>3. ASSUME k.tx = "open"
        PROVE  t[2] = "main" /\ k.scope = req[t[1]].tenant
    <3>1. t[2] = "main"
      BY <1>1, <2>3 DEF Tidy
    <3>2. t[1] \in Requests /\ t = Main(t[1])
      BY <2>1, <3>1, TaskIsOne
    <3>3. Carries(pool, t, k.scope)
      BY <2>3 DEF Carries
    <3> QED
      BY <3>1, <3>2, <3>3, Here DEF Place
  <2> QED
    BY <1>2, <2>1, <2>2, <2>3
<1>4. PoolIsClean
  <2>1. ASSUME NEW c \in Connections, pool.conn[c].holder = None
        PROVE  /\ pool.conn[c].scope = None /\ pool.conn[c].tx = "none"
               /\ pool.waiting = <<>>
    BY <1>1, <2>1 DEF Tidy
  <2>2. ASSUME NEW t \in ToSet(pool.waiting), t[2] \in {"main", "inner"}
        PROVE  req[t[1]].pc \notin {"new", "done"}
    <3>1. PICK i \in DOMAIN pool.waiting : pool.waiting[i] = t
      BY <2>2 DEF ToSet
    <3>2. t \in Task /\ In(pool, t)
      BY <1>1, <3>1 DEF Tidy, Shape, In
    <3> QED
      BY <1>2, <2>2, <3>2
  <2> QED
    BY <1>3, <2>1, <2>2 DEF PoolIsClean
<1>5. AnswersAreTheTenantsOwn
  <2>1. ASSUME NEW q \in Requests PROVE Promise(op[q], req[q], keys)
    BY Here DEF Asks
  <2> QED
    BY <2>1 DEF Promise, Belongs, Revoked, AnswersAreTheTenantsOwn
<1> QED
  BY <1>4, <1>5 DEF TenantsStayApart

\* No tenant is shown another's rows: whoever asks for what, however the pool's
\* few connections go from hand to hand, whichever of them breaks or is waited
\* for in vain, and whatever the migrations do meanwhile.
THEOREM TenantsIsolated == ServiceSpec => []TenantsStayApart
<1>1. ServiceInit => Inv
  BY InitEstablishes DEF ServiceInit
<1>2. Inv /\ [ServiceNext]_serviceVars => Inv'
  BY NextPreserves
<1>3. Inv => TenantsStayApart
  BY InvIsApart
<1> QED
  BY <1>1, <1>2, <1>3, PTL DEF ServiceSpec

-----------------------------------------------------------------------------
(* The accounts.                                                           *)

\* Two rows are of the same person.
Same(u, v) == u.tenant = v.tenant /\ u.email = v.email /\ u.role = v.role

\* The rows a change of language has written are those of all the persons of
\* some tenants, and nothing but the language is changed.
Rewrites(W, U) ==
    /\ \A n \in W : IsUser(n) /\ \E u \in U : Same(n, u)
    /\ \A n \in W, u \in U : n.tenant = u.tenant => \E m \in W : Same(m, u)
    /\ \A m, n \in W : m.email = n.email => m = n

\* How far a signup with the record r has come, and what it has left behind.
Signs(q, o, r, T, U) ==
    /\ r.pc \in {"begin", "body", "commit"} => \E t \in T : t.tenant = q
    /\ r.pc = "commit" => r.staged = {OwnerRow(q, o)}
    /\ r.pc # "commit" => r.staged = {}
    /\ r.pc # "done" => r.answer # 201 /\ \A u \in U : u.tenant # q
    /\ r.staged # {} => \A u \in U : u.email # o.email.folded
    /\ r.answer = 201 =>
           \E t \in T, u \in U :
               /\ t.tenant = q /\ u.tenant = q /\ u.role = "owner"
               /\ u.email = o.email.folded

AccountOf(q, o, r, T, U, S) ==
    /\ o.kind = "signup" => Signs(q, o, r, T, U)
    /\ o.kind = "language" => Rewrites(r.staged, U)
    /\ o.kind \in {"signup", "language"} /\ "0012_languages" \in S =>
           \A n \in r.staged : n.locale \in Supported

\* Of the signups that have written their owner, each has an address of its own.
Rivals(o, f) ==
    \A p, q \in Requests :
        /\ o[p].kind = "signup" /\ f[p].staged # {}
        /\ o[q].kind = "signup" /\ f[q].staged # {}
        /\ o[p].email.folded = o[q].email.folded
        => p = q

PeopleOk(U) == /\ \A u \in U : IsUser(u)
               /\ \A u, v \in U : u.email = v.email => u = v

AInv(o, f, T, U, S) ==
    /\ PeopleOk(U) /\ Rivals(o, f)
    /\ "0012_languages" \in S => \A r \in T \cup U : r.locale \in Supported
    /\ \A q \in Requests : AccountOf(q, o[q], f[q], T, U, S)

Accounts == AInv(op, req, tenants, users, schema) /\ InboxesMatch

\* The rows are of the same persons, whatever languages they have.
SamePersons(U, V) ==
    /\ \A u \in U : \E v \in V : Same(u, v)
    /\ \A v \in V : \E u \in U : Same(u, v)

LEMMA RewritesFollow ==
    ASSUME NEW W, NEW U, NEW V, SamePersons(U, V), Rewrites(W, U)
    PROVE  Rewrites(W, V)
<1>1. ASSUME NEW n \in W
      PROVE  IsUser(n) /\ \E v \in V : Same(n, v)
  <2>1. IsUser(n) /\ \E u \in U : Same(n, u)
    BY DEF Rewrites
  <2> QED
    BY <2>1 DEF SamePersons, Same
<1>2. ASSUME NEW n \in W, NEW v \in V, n.tenant = v.tenant
      PROVE  \E m \in W : Same(m, v)
  <2>1. PICK u \in U : Same(u, v)
    BY DEF SamePersons
  <2>2. PICK m \in W : Same(m, u)
    BY <1>2, <2>1 DEF Rewrites, Same
  <2> QED
    BY <2>1, <2>2 DEF Same
<1> QED
  BY <1>1, <1>2 DEF Rewrites

LEMMA SignsFollow ==
    ASSUME NEW q, NEW o, NEW r, NEW T, NEW U, NEW V, SamePersons(U, V),
           Signs(q, o, r, T, U)
    PROVE  Signs(q, o, r, T, V)
BY DEF Signs, SamePersons, Same

\* What the request q's own step does to its record.
Calm(o, r, s) ==
    /\ o.kind = "signup" =>
           /\ s.staged = {} /\ s.pc # "commit"
           /\ s.pc \in {"begin", "body"} => r.pc \in {"begin", "body"}
           /\ s.pc # "done" => r.pc # "done"
           /\ s.answer = 201 => r.answer = 201
    /\ o.kind = "language" => s.staged \in {{}, r.staged}

LEMMA CalmAccount ==
    ASSUME NEW q, NEW o, NEW r, NEW s, NEW T, NEW U, NEW S,
           AccountOf(q, o, r, T, U, S), Calm(o, r, s)
    PROVE  AccountOf(q, o, s, T, U, S)
<1>1. o.kind = "signup" => Signs(q, o, s, T, U)
  BY DEF AccountOf, Signs, Calm
<1>2. Rewrites({}, U)
  BY DEF Rewrites
<1>3. o.kind = "language" => Rewrites(s.staged, U)
  BY <1>2 DEF AccountOf, Calm
<1>4. o.kind \in {"signup", "language"} /\ "0012_languages" \in S =>
          \A n \in s.staged : n.locale \in Supported
  BY DEF AccountOf, Calm
<1> QED
  BY <1>1, <1>3, <1>4 DEF AccountOf

LEMMA OneAccount ==
    ASSUME NEW o, NEW f, NEW g, NEW T, NEW U, NEW S, AInv(o, f, T, U, S),
           NEW q \in Requests, NEW s, Becomes(f, g, q, s),
           AccountOf(q, o[q], s, T, U, S), Rivals(o, g)
    PROVE  AInv(o, g, T, U, S)
<1>1. ASSUME NEW p \in Requests
      PROVE  AccountOf(p, o[p], g[p], T, U, S)
  BY DEF AInv, Becomes
<1> QED
  BY <1>1 DEF AInv

LEMMA CalmRivals ==
    ASSUME NEW o, NEW f, NEW g, Rivals(o, f), NEW q \in Requests, NEW s,
           Becomes(f, g, q, s), Calm(o[q], f[q], s)
    PROVE  Rivals(o, g)
BY DEF Rivals, Becomes, Calm

LEMMA CalmStep ==
    ASSUME Accounts, NEW q \in Requests, NEW s, Becomes(req, req', q, s),
           UNCHANGED <<op, tenants, inboxes, users, schema>>,
           Calm(op[q], req[q], s)
    PROVE  Accounts'
<1>1. PICK g : g = req'
  OBVIOUS
<1>2. AInv(op, req, tenants, users, schema) /\ Becomes(req, g, q, s)
  BY <1>1 DEF Accounts
<1>3. AccountOf(q, op[q], s, tenants, users, schema)
  BY <1>2, CalmAccount DEF AInv
<1>4. Rivals(op, g)
  BY <1>2, CalmRivals DEF AInv
<1>5. AInv(op, g, tenants, users, schema)
  BY <1>2, <1>3, <1>4, OneAccount
<1> QED
  BY <1>1, <1>5 DEF Accounts, InboxesMatch

LEMMA Only ==
    ASSUME Inv, Inv', NEW q \in Requests,
           \A a \in Requests : a # q => req'[a] = req[a]
    PROVE  \E s : Becomes(req, req', q, s) /\ s = req'[q]
BY Here DEF Becomes, Inv, IInv

\* Requests of other kinds have no accounts to keep.
LEMMA OtherKinds ==
    ASSUME Inv, Inv', Accounts, NEW q \in Requests,
           op[q].kind \notin {"signup", "language"},
           \A a \in Requests : a # q => req'[a] = req[a],
           UNCHANGED <<op, tenants, inboxes, users, schema>>
    PROVE  Accounts'
BY Only, CalmStep DEF Calm

LEMMA EndsCalmly ==
    ASSUME Inv, Accounts, NEW q \in Requests, NEW code, Ends(q, code),
           code # 201 \/ op[q].kind # "signup",
           UNCHANGED <<op, tenants, inboxes, users, schema>>
    PROVE  Accounts'
<1> DEFINE r == req[q]  s == Done(req[q], code)
<1>1. req' = [req EXCEPT ![q] = s]
  BY DEF Ends
<1>2. s = [pc |-> "done", tenant |-> r.tenant, language |-> r.language,
           seen |-> r.seen, staged |-> {},
           answer |-> IF r.answer = 0 THEN code ELSE r.answer,
           told |-> r.told]
  BY Here, DoneFields
<1> HIDE DEF s
<1>3. Becomes(req, req', q, s)
  BY <1>1, Here, BecomesExcept
<1>4. Calm(op[q], req[q], s)
  BY <1>2 DEF Calm
<1> QED
  BY <1>3, <1>4, CalmStep

-----------------------------------------------------------------------------
(* What the steps do to the accounts.                                      *)

LEMMA ArriveAccounts ==
    ASSUME Inv, Accounts, NEW q \in Requests, Arrive(q), schema' = schema
    PROVE  Accounts'
<1> DEFINE r == req[q]  x == IF ToldRevoked(op[q]) THEN "revoked" ELSE "nothing"
           s == [r EXCEPT !.pc = FirstStep(op[q]), !.told = x]
<1>1. UNCHANGED <<op, tenants, inboxes, users, schema>> /\ r.pc = "new"
  BY DEF Arrive, tables
<1>2. CASE NeedsDatabase(op[q])
  <2>1. req' = [req EXCEPT ![q] = s]
    BY <1>2 DEF Arrive
  <2>2. s = [r EXCEPT !.pc = FirstStep(op[q]), !.told = x]
    OBVIOUS
  <2>3. Fields(r) /\ r.staged = {}
    BY <1>1, Here DEF Asks, Draft
  <2>4. op[q].kind = "signup" => FirstStep(op[q]) = "provision"
    BY DEF FirstStep
  <2> HIDE DEF r, s, x
  <2>5. s.pc = FirstStep(op[q]) /\ s.staged = {} /\ s.answer = r.answer
    BY <2>2, <2>3 DEF Fields
  <2>6. Becomes(req, req', q, s)
    BY <2>1, Here, BecomesExcept
  <2>7. Calm(op[q], r, s)
    BY <1>1, <2>4, <2>5 DEF Calm
  <2> QED
    BY <1>1, <2>6, <2>7, CalmStep DEF r
<1>3. CASE ~ NeedsDatabase(op[q])
  <2>1. PICK code : Ends(q, code) /\ code # 201
    BY <1>3 DEF Arrive
  <2> QED
    BY <1>1, <2>1, EndsCalmly
<1> QED
  BY <1>2, <1>3

LEMMA BeginAccounts ==
    ASSUME Inv, Accounts, NEW q \in Requests, Begin(q), schema' = schema
    PROVE  Accounts'
<1> DEFINE r == req[q]  s == [r EXCEPT !.pc = "body"]
<1>1. UNCHANGED <<op, tenants, inboxes, users, schema>> /\ r.pc = "begin"
  BY DEF Begin, At, tables
<1>2. req' = [req EXCEPT ![q] = s]
  BY DEF Begin
<1>3. s = [r EXCEPT !.pc = "body"]
  OBVIOUS
<1>4. Fields(r) /\ r.staged = {}
  BY <1>1, Here DEF Asks, Draft
<1> HIDE DEF r, s
<1>5. s.pc = "body" /\ s.staged = {} /\ s.answer = r.answer
  BY <1>3, <1>4 DEF Fields
<1>6. Becomes(req, req', q, s)
  BY <1>2, Here, BecomesExcept
<1>7. Calm(op[q], r, s)
  BY <1>1, <1>5 DEF Calm
<1> QED
  BY <1>1, <1>6, <1>7, CalmStep DEF r

LEMMA FailsCalmly ==
    ASSUME Inv, Accounts, NEW q \in Requests, NEW code, Fails(q, code),
           code # 201, req[q].pc = "body", UNCHANGED <<op, schema>>
    PROVE  Accounts'
<1> DEFINE r == req[q]
           s == [r EXCEPT !.pc = "rollback", !.answer = code, !.staged = {}]
<1>1. UNCHANGED <<op, tenants, inboxes, users, schema>> /\ r.pc = "body"
  BY DEF Fails, tables
<1>2. req' = [req EXCEPT ![q] = s]
  BY DEF Fails
<1>3. s = [r EXCEPT !.pc = "rollback", !.answer = code, !.staged = {}]
  OBVIOUS
<1>4. Fields(r)
  BY Here
<1> HIDE DEF r, s
<1>5. s.pc = "rollback" /\ s.staged = {} /\ s.answer = code
  BY <1>3, <1>4 DEF Fields
<1>6. Becomes(req, req', q, s)
  BY <1>2, Here, BecomesExcept
<1>7. Calm(op[q], r, s)
  BY <1>1, <1>5 DEF Calm
<1> QED
  BY <1>1, <1>6, <1>7, CalmStep DEF r

\* A view whose second connection never comes, or breaks.
LEMMA InnerAccounts ==
    ASSUME Inv, Inv', Accounts, NEW q \in Requests, In(pool, Inner(q)),
           req' = [req EXCEPT ![q].pc = "rollback", ![q].answer = 500],
           UNCHANGED <<op, tenants, inboxes, users, schema>>
    PROVE  Accounts'
<1>1. op[q].kind \in Views
  BY Here DEF Place, Asks, Path
<1> QED
  BY <1>1, OtherKinds, Here DEF Views

LEMMA AuthenticatesAccounts ==
    ASSUME Inv, Accounts, NEW q \in Requests, Authenticates(q), schema' = schema
    PROVE  Accounts'
<1> DEFINE r == req[q]
<1>1. UNCHANGED <<op, tenants, inboxes, users, schema>> /\ r.pc = "authenticate"
  BY DEF Authenticates, At, tables
<1>2. op[q].kind # "signup"
  BY <1>1, Here DEF Asks, Path
<1>3. \/ \E code : Ends(q, code)
      \/ \E w \in Authenticate(op[q]) :
             req' = [req EXCEPT ![q].pc = "begin", ![q].tenant = w.tenant]
  BY DEF Authenticates
<1>4. ASSUME NEW code, Ends(q, code)
      PROVE  Accounts'
  BY <1>1, <1>2, <1>4, EndsCalmly
<1>5. ASSUME NEW w, req' = [req EXCEPT ![q].pc = "begin", ![q].tenant = w.tenant]
      PROVE  Accounts'
  <2> DEFINE x == w.tenant  s == [r EXCEPT !.pc = "begin", !.tenant = x]
  <2>1. req' = [req EXCEPT ![q] = s]
    BY <1>5
  <2>2. s = [r EXCEPT !.pc = "begin", !.tenant = x]
    OBVIOUS
  <2>3. Fields(r)
    BY Here
  <2> HIDE DEF r, s, x
  <2>4. s.staged = r.staged
    BY <2>2, <2>3 DEF Fields
  <2>5. Becomes(req, req', q, s)
    BY <2>1, Here, BecomesExcept
  <2>6. Calm(op[q], r, s)
    BY <1>2, <2>4 DEF Calm
  <2> QED
    BY <1>1, <2>5, <2>6, CalmStep DEF r
<1> QED
  BY <1>3, <1>4, <1>5

\* What other kinds of requests do, and what is nobody's.
LEMMA OthersAccounts ==
    ASSUME Inv, Inv', Accounts, NEW q \in Requests, schema' = schema,
           \/ Touch(q) \/ ReadSubject(q) \/ ResolveLanguage(q) \/ AnswerView(q)
           \/ ListKeys(q) \/ Reauthenticate(q) \/ CreateKey(q) \/ RevokeKey(q)
    PROVE  Accounts'
<1>0. UNCHANGED <<op, tenants, inboxes, users, schema>>
  BY DEF Touch, ReadSubject, ResolveLanguage, AnswerView, ListKeys, Reauthenticate,
         CreateKey, RevokeKey, tables
<1>1. CASE Touch(q)
  BY <1>0, <1>1 DEF Touch, Accounts, InboxesMatch
<1>2. CASE \/ ReadSubject(q) \/ ListKeys(q) \/ Reauthenticate(q) \/ CreateKey(q)
           \/ RevokeKey(q)
  <2>1. op[q].kind \notin {"signup", "language"}
    BY <1>2 DEF ReadSubject, ListKeys, Reauthenticate, CreateKey, RevokeKey
  <2>2. \A a \in Requests : a # q => req'[a] = req[a]
    BY <1>2, Here DEF ReadSubject, ListKeys, Reauthenticate, CreateKey, RevokeKey, Writes
  <2> QED
    BY <1>0, <2>1, <2>2, OtherKinds
<1>3. CASE ResolveLanguage(q) \/ AnswerView(q)
  <2>1. req[q].pc \in {"language", "rest"}
    BY <1>3 DEF ResolveLanguage, AnswerView, At
  <2>2. op[q].kind \notin {"signup", "language"}
    BY <2>1, Here DEF Asks, Path, Views
  <2>3. \A a \in Requests : a # q => req'[a] = req[a]
    BY <1>3, Here DEF ResolveLanguage, AnswerView
  <2> QED
    BY <1>0, <2>2, <2>3, OtherKinds
<1> QED
  BY <1>1, <1>2, <1>3

LEMMA EndingAccounts ==
    ASSUME Inv, Accounts, NEW q \in Requests, Rollback(q) \/ Probe(q),
           schema' = schema
    PROVE  Accounts'
<1>1. \E code \in {200, 500} : Ends(q, code) /\ code # 201
  BY DEF Rollback, Probe
<1>2. UNCHANGED <<op, tenants, inboxes, users, schema>>
  BY DEF Rollback, Probe, tables
<1> QED
  BY <1>1, <1>2, EndsCalmly

\* A tenant more, of a request that has come to sign up.
LEMMA TenantMore ==
    ASSUME NEW o, NEW f, NEW T, NEW U, NEW S, AInv(o, f, T, U, S),
           NEW t, "0012_languages" \in S => t.locale \in Supported
    PROVE  AInv(o, f, T \cup {t}, U, S)
<1>1. ASSUME NEW q \in Requests
      PROVE  AccountOf(q, o[q], f[q], T \cup {t}, U, S)
  BY DEF AInv, AccountOf, Signs
<1>2. PeopleOk(U) /\ Rivals(o, f)
  BY DEF AInv
<1>3. "0012_languages" \in S => \A r \in (T \cup {t}) \cup U : r.locale \in Supported
  BY DEF AInv
<1> QED
  BY <1>1, <1>2, <1>3 DEF AInv

LEMMA ProvisionedTenant ==
    ASSUME NEW q \in Requests, ProvisionTenant(q), ProvisionError(op[q]) = 0
    PROVE  /\ "0012_languages" \in schema => TenantRow(q, op[q]).locale \in Supported
           /\ tenants' = tenants \cup {TenantRow(q, op[q])}
           /\ TenantRow(q, op[q]).tenant = q
           /\ users' = users
           /\ InboxesMatch => InboxesMatch'
<1>1. TenantRow(q, op[q]).locale = op[q].locale /\ TenantRow(q, op[q]).tenant = q
      /\ InboxRow(q, op[q]).tenant = q
  BY DEF TenantRow, InboxRow
<1>2. ~ Unsupported(op[q].locale)
  BY DEF ProvisionError
<1>3. /\ tenants' = tenants \cup {TenantRow(q, op[q])}
      /\ inboxes' = inboxes \cup {InboxRow(q, op[q])}
      /\ users' = users
  BY DEF ProvisionTenant
<1>4. ASSUME InboxesMatch
      PROVE  InboxesMatch'
  <2>1. {t.tenant : t \in tenants'} = {t.tenant : t \in tenants} \cup {q}
    BY <1>1, <1>3
  <2>2. {i.tenant : i \in inboxes'} = {i.tenant : i \in inboxes} \cup {q}
    BY <1>1, <1>3
  <2> QED
    BY <1>4, <2>1, <2>2 DEF InboxesMatch
<1> QED
  BY <1>1, <1>2, <1>3, <1>4 DEF Unsupported

LEMMA ProvisionAccounts ==
    ASSUME Inv, Accounts, NEW q \in Requests, Provision(q), schema' = schema
    PROVE  Accounts'
<1> DEFINE r == req[q]  t == TenantRow(q, op[q])
<1>1. op' = op /\ r.pc = "provision"
  BY DEF Provision, At
<1>2. CASE ProvisionError(op[q]) # 0
  <2>1. Ends(q, ProvisionError(op[q])) /\ ProvisionError(op[q]) # 201
    BY <1>2 DEF Provision, ProvisionError
  <2>2. UNCHANGED <<tenants, inboxes, users>>
    BY <1>2 DEF Provision, tables
  <2> QED
    BY <1>1, <2>1, <2>2, EndsCalmly
<1>3. CASE ~ (ProvisionError(op[q]) # 0)
  <2> DEFINE s == [r EXCEPT !.pc = "begin", !.tenant = q]
  <2>1. ProvisionTenant(q) /\ req' = [req EXCEPT ![q] = s]
    BY <1>3 DEF Provision
  <2>2. /\ "0012_languages" \in schema => t.locale \in Supported
        /\ tenants' = tenants \cup {t} /\ t.tenant = q
        /\ users' = users /\ (InboxesMatch => InboxesMatch')
    BY <1>3, <2>1, ProvisionedTenant
  <2>3. s = [r EXCEPT !.pc = "begin", !.tenant = q]
    OBVIOUS
  <2>4. Fields(r) /\ r.staged = {}
    BY <1>1, Here DEF Asks, Draft
  <2> HIDE DEF r, s, t
  <2>5. s.pc = "begin" /\ s.staged = {} /\ s.answer = r.answer
    BY <2>3, <2>4 DEF Fields
  <2>6. PICK T : T = tenants \cup {t}
    OBVIOUS
  <2>7. AInv(op, req, T, users, schema)
    BY <2>2, <2>6, TenantMore DEF Accounts
  <2>8. Becomes(req, req', q, s)
    BY <2>1, Here, BecomesExcept
  <2>9. PICK g : g = req'
    OBVIOUS
  <2>10. AccountOf(q, op[q], s, T, users, schema)
    <3>1. AccountOf(q, op[q], r, T, users, schema)
      BY <2>7 DEF AInv, r
    <3>2. op[q].kind = "signup" => Signs(q, op[q], s, T, users)
      BY <1>1, <2>2, <2>5, <2>6, <3>1 DEF AccountOf, Signs
    <3>3. Rewrites({}, users)
      BY DEF Rewrites
    <3> QED
      BY <2>5, <3>2, <3>3 DEF AccountOf
  <2>11. Rivals(op, g)
    BY <2>5, <2>7, <2>8, <2>9 DEF AInv, Rivals, Becomes
  <2>12. AInv(op, g, T, users, schema)
    BY <2>7, <2>8, <2>9, <2>10, <2>11, OneAccount
  <2> QED
    BY <1>1, <2>2, <2>6, <2>9, <2>12 DEF Accounts
<1> QED
  BY <1>2, <1>3

\* The request writes rows: its owner, or its user in another language.
LEMMA WritesAccounts ==
    ASSUME Inv, Accounts, NEW q \in Requests, req[q].pc = "body",
           UNCHANGED <<op, tenants, inboxes, users, schema>>,
           NEW rows, req' = [req EXCEPT ![q].pc = "commit", ![q].staged = rows],
           ~ Unsupported(op[q].locale), \A n \in rows : n.locale = op[q].locale,
           op[q].kind = "language" => Rewrites(rows, users),
           op[q].kind = "signup" =>
               /\ rows = {OwnerRow(q, op[q])}
               /\ \A u \in users : u.email # op[q].email.folded
               /\ \A p \in Requests :
                      op[p].kind = "signup" /\ req[p].staged # {} =>
                          op[p].email.folded # op[q].email.folded
    PROVE  Accounts'
<1> DEFINE r == req[q]  s == [r EXCEPT !.pc = "commit", !.staged = rows]
<1>1. req' = [req EXCEPT ![q] = s]
  OBVIOUS
<1>2. s = [r EXCEPT !.pc = "commit", !.staged = rows] /\ r.pc = "body"
  OBVIOUS
<1>3. Fields(r)
  BY Here
<1>4. AccountOf(q, op[q], r, tenants, users, schema)
  BY DEF Accounts, AInv
<1>5. Becomes(req, req', q, s)
  BY <1>1, Here, BecomesExcept
<1> HIDE DEF r, s
<1>6. s.pc = "commit" /\ s.staged = rows /\ s.answer = r.answer
  BY <1>2, <1>3 DEF Fields
<1>7. op[q].kind = "signup" => Signs(q, op[q], s, tenants, users)
  BY <1>2, <1>4, <1>6 DEF AccountOf, Signs
<1>8. AccountOf(q, op[q], s, tenants, users, schema)
  BY <1>6, <1>7 DEF AccountOf, Unsupported
<1>9. PICK g : g = req'
  OBVIOUS
<1>10. Rivals(op, g)
  BY <1>5, <1>9 DEF Accounts, AInv, Rivals, Becomes
<1>11. AInv(op, g, tenants, users, schema)
  BY <1>5, <1>8, <1>9, <1>10, OneAccount DEF Accounts
<1> QED
  BY <1>9, <1>11 DEF Accounts, InboxesMatch

LEMMA InsertOwnerAccounts ==
    ASSUME Inv, Accounts, NEW q \in Requests, InsertOwner(q), schema' = schema
    PROVE  Accounts'
<1> DEFINE rows == {OwnerRow(q, op[q])}
<1>1. op[q].kind = "signup" /\ req[q].pc = "body" /\ op' = op /\ ~ EmailStaged(op[q])
  BY DEF InsertOwner, At
<1>2. \/ \E code \in {400, 409} : Fails(q, code) /\ code # 201
      \/ /\ ~ Unsupported(op[q].locale) /\ ~ EmailTaken(op[q])
         /\ req' = [req EXCEPT ![q].pc = "commit", ![q].staged = rows]
         /\ UNCHANGED <<tenants, inboxes, users>>
  BY DEF InsertOwner, tables
<1>3. OwnerRow(q, op[q]).locale = op[q].locale
  BY DEF OwnerRow
<1>4. \A n \in rows : n.locale = op[q].locale
  BY <1>3
<1>5. ASSUME NEW p \in Requests, op[p].kind = "signup", req[p].staged # {}
      PROVE  op[p].email.folded # op[q].email.folded
  <2>1. req[p].staged = {OwnerRow(p, op[p])}
    BY <1>5 DEF Accounts, AInv, AccountOf, Signs
  <2>2. OwnerRow(p, op[p]).email = op[p].email.folded
    BY DEF OwnerRow
  <2> QED
    BY <1>1, <1>5, <2>1, <2>2 DEF EmailStaged
<1>6. ~ EmailTaken(op[q]) => \A u \in users : u.email # op[q].email.folded
  BY DEF EmailTaken
<1> HIDE DEF rows
<1>7. CASE \E code \in {400, 409} : Fails(q, code) /\ code # 201
  BY <1>1, <1>7, FailsCalmly
<1>8. rows = {OwnerRow(q, op[q])} /\ op[q].kind # "language"
  BY <1>1 DEF rows
<1>9. CASE /\ ~ Unsupported(op[q].locale) /\ ~ EmailTaken(op[q])
           /\ req' = [req EXCEPT ![q].pc = "commit", ![q].staged = rows]
           /\ UNCHANGED <<tenants, inboxes, users>>
  <2>1. \A u \in users : u.email # op[q].email.folded
    BY <1>6, <1>9
  <2>2. \A p \in Requests :
            op[p].kind = "signup" /\ req[p].staged # {} =>
                op[p].email.folded # op[q].email.folded
    BY <1>5
  <2>3. UNCHANGED <<op, tenants, inboxes, users, schema>>
    BY <1>1, <1>9
  <2> QED
    BY <1>1, <1>4, <1>8, <1>9, <2>1, <2>2, <2>3, WritesAccounts
<1> QED
  BY <1>2, <1>7, <1>9

\* The rows of some persons in another language.
LEMMA RewrittenRows ==
    ASSUME PeopleOk(users), NEW scope, NEW locale
    PROVE  /\ Rewrites(SetUserLocale(scope, locale), users)
           /\ \A n \in SetUserLocale(scope, locale) : n.locale = locale
<1> DEFINE W == SetUserLocale(scope, locale)
<1>1. ASSUME NEW u \in users
      PROVE  LET n == [u EXCEPT !.locale = locale]
             IN  IsUser(n) /\ Same(n, u) /\ n.locale = locale
  <2>1. IsUser(u)
    BY DEF PeopleOk
  <2> DEFINE n == [u EXCEPT !.locale = locale]
  <2>2. n = [tenant |-> u.tenant, email |-> u.email, role |-> u.role,
             locale |-> locale, mfa |-> u.mfa]
    BY <2>1 DEF IsUser
  <2> HIDE DEF n
  <2> QED
    BY <2>2 DEF IsUser, Same, n
<1>2. W = {[u EXCEPT !.locale = locale] : u \in {v \in users : v.tenant = scope}}
  BY DEF SetUserLocale, GetAccountUser, Visible
<1>3. ASSUME NEW n \in W
      PROVE  \E u \in users : /\ u.tenant = scope /\ n = [u EXCEPT !.locale = locale]
                              /\ IsUser(n) /\ Same(n, u) /\ n.locale = locale
  BY <1>1, <1>2
<1>4. ASSUME NEW n \in W, NEW u \in users, n.tenant = u.tenant
      PROVE  \E m \in W : Same(m, u)
  <2>1. u.tenant = scope
    BY <1>3, <1>4 DEF Same
  <2> QED
    BY <1>1, <1>2, <2>1
<1>5. ASSUME NEW m \in W, NEW n \in W, m.email = n.email
      PROVE  m = n
  <2>1. PICK u \in users : m = [u EXCEPT !.locale = locale] /\ Same(m, u)
    BY <1>3
  <2>2. PICK v \in users : n = [v EXCEPT !.locale = locale] /\ Same(n, v)
    BY <1>3
  <2>3. u = v
    BY <1>5, <2>1, <2>2 DEF Same, PeopleOk
  <2> QED
    BY <2>1, <2>2, <2>3
<1>6. Rewrites(W, users)
  BY <1>3, <1>4, <1>5 DEF Rewrites
<1> QED
  BY <1>3, <1>6

LEMMA SetLanguageAccounts ==
    ASSUME Inv, Accounts, NEW q \in Requests, SetLanguage(q), schema' = schema
    PROVE  Accounts'
<1> DEFINE rows == SetUserLocale(ScopeOf(q), op[q].locale)
<1>1. op[q].kind = "language" /\ req[q].pc = "body" /\ op' = op
  BY DEF SetLanguage, At
<1>2. \/ \E code \in {400} : Fails(q, code) /\ code # 201
      \/ /\ ~ Unsupported(op[q].locale)
         /\ req' = [req EXCEPT ![q].pc = "commit", ![q].staged = rows]
         /\ UNCHANGED <<tenants, inboxes, users>>
  BY DEF SetLanguage, Writes, tables
<1>3. Rewrites(rows, users) /\ \A n \in rows : n.locale = op[q].locale
  BY RewrittenRows DEF Accounts, AInv
<1> HIDE DEF rows
<1>4. CASE \E code \in {400} : Fails(q, code) /\ code # 201
  BY <1>1, <1>4, FailsCalmly
<1> QED
  BY <1>1, <1>2, <1>3, <1>4, WritesAccounts

LEMMA OwnerCommitted ==
    ASSUME NEW o, NEW f, NEW g, NEW T, NEW U, NEW S, AInv(o, f, T, U, S),
           NEW q \in Requests, o[q].kind = "signup", f[q].pc = "commit",
           NEW s, Becomes(f, g, q, s), s.pc = "done", s.staged = {},
           NEW w, w = OwnerRow(q, o[q])
    PROVE  AInv(o, g, T, U \cup {w}, S)
<1> DEFINE V == U \cup {w}
<1>1. /\ w.tenant = q /\ w.email = o[q].email.folded /\ w.role = "owner" /\ IsUser(w)
  BY DEF OwnerRow, IsUser
<1>2. /\ \E t \in T : t.tenant = q
      /\ f[q].staged = {w} /\ f[q].staged # {}
      /\ \A u \in U : u.tenant # q /\ u.email # w.email
      /\ "0012_languages" \in S => w.locale \in Supported
  BY <1>1 DEF AInv, AccountOf, Signs
<1>3. PeopleOk(V)
  BY <1>1, <1>2 DEF AInv, PeopleOk
<1>4. "0012_languages" \in S => \A r \in T \cup V : r.locale \in Supported
  BY <1>2 DEF AInv
<1>5. Rivals(o, g)
  BY DEF AInv, Rivals, Becomes
<1>6. AccountOf(q, o[q], s, T, V, S)
  BY <1>1, <1>2 DEF AccountOf, Signs
<1>7. ASSUME NEW p \in Requests, p # q
      PROVE  AccountOf(p, o[p], f[p], T, V, S)
  <2>1. AccountOf(p, o[p], f[p], T, U, S)
    BY DEF AInv
  <2>2. o[p].kind = "signup" /\ f[p].staged # {} => o[p].email.folded # w.email
    BY <1>1, <1>2, <1>7 DEF AInv, Rivals
  <2>3. o[p].kind = "signup" => Signs(p, o[p], f[p], T, V)
    BY <1>1, <1>7, <2>1, <2>2 DEF AccountOf, Signs
  <2>4. ASSUME o[p].kind = "language"
        PROVE  Rewrites(f[p].staged, V)
    <3>1. Rewrites(f[p].staged, U)
      BY <2>1, <2>4 DEF AccountOf
    <3>2. \A n \in f[p].staged : n.tenant # q
      BY <1>2, <3>1 DEF Rewrites, Same
    <3> QED
      BY <1>1, <3>1, <3>2 DEF Rewrites
  <2> QED
    BY <2>1, <2>3, <2>4 DEF AccountOf
<1> HIDE DEF V
<1>8. ASSUME NEW p \in Requests
      PROVE  AccountOf(p, o[p], g[p], T, V, S)
  BY <1>6, <1>7 DEF Becomes
<1>9. AInv(o, g, T, V, S)
  BY <1>3, <1>4, <1>5, <1>8 DEF AInv
<1> QED
  BY <1>9 DEF V

LEMMA LanguageCommitted ==
    ASSUME NEW o, NEW f, NEW g, NEW T, NEW U, NEW S, AInv(o, f, T, U, S),
           NEW q \in Requests, o[q].kind = "language",
           NEW s, Becomes(f, g, q, s), s.staged = {},
           NEW W, W = f[q].staged,
           NEW V, V = {r \in U : \A n \in W : n.tenant # r.tenant} \cup W
    PROVE  AInv(o, g, T, V, S)
<1>1. Rewrites(W, U) /\ PeopleOk(U)
  BY DEF AInv, AccountOf
<1>2. SamePersons(U, V)
  <2>1. ASSUME NEW u \in U
        PROVE  \E v \in V : Same(u, v)
    <3>1. CASE \A n \in W : n.tenant # u.tenant
      BY <3>1 DEF Same
    <3>2. CASE \E n \in W : n.tenant = u.tenant
      BY <1>1, <3>2 DEF Rewrites, Same
    <3> QED
      BY <3>1, <3>2
  <2>2. ASSUME NEW v \in V
        PROVE  \E u \in U : Same(u, v)
    BY <1>1 DEF Rewrites, Same
  <2> QED
    BY <2>1, <2>2 DEF SamePersons
<1>3. PeopleOk(V)
  <2>1. \A v \in V : IsUser(v)
    BY <1>1 DEF Rewrites, PeopleOk
  <2>2. ASSUME NEW u \in V, NEW v \in W, u \notin W, u.email = v.email
        PROVE  FALSE
    <3>1. u \in U /\ v.tenant # u.tenant
      BY <2>2
    <3>2. PICK x \in U : Same(v, x)
      BY <1>1 DEF Rewrites
    <3>3. x = u
      BY <1>1, <2>2, <3>1, <3>2 DEF PeopleOk, Same
    <3> QED
      BY <3>1, <3>2, <3>3 DEF Same
  <2>3. ASSUME NEW u \in V, NEW v \in V, u.email = v.email
        PROVE  u = v
    <3>1. CASE u \in W /\ v \in W
      BY <1>1, <2>3, <3>1 DEF Rewrites
    <3>2. CASE u \notin W /\ v \notin W
      BY <1>1, <2>3, <3>2 DEF PeopleOk
    <3>3. CASE u \notin W /\ v \in W
      BY <2>2, <2>3, <3>3
    <3>4. CASE u \in W /\ v \notin W
      BY <2>2, <2>3, <3>4
    <3> QED
      BY <3>1, <3>2, <3>3, <3>4
  <2> QED
    BY <2>1, <2>3 DEF PeopleOk
<1>4. "0012_languages" \in S => \A r \in T \cup V : r.locale \in Supported
  BY DEF AInv, AccountOf
<1>5. Rivals(o, g)
  BY DEF AInv, Rivals, Becomes
<1>6. ASSUME NEW p \in Requests
      PROVE  AccountOf(p, o[p], f[p], T, V, S)
  <2>1. AccountOf(p, o[p], f[p], T, U, S)
    BY DEF AInv
  <2> QED
    BY <1>2, <2>1, SignsFollow, RewritesFollow DEF AccountOf
<1>7. AccountOf(q, o[q], s, T, V, S)
  BY DEF AccountOf, Rewrites
<1>8. ASSUME NEW p \in Requests
      PROVE  AccountOf(p, o[p], g[p], T, V, S)
  BY <1>6, <1>7 DEF Becomes
<1> QED
  BY <1>3, <1>4, <1>5, <1>8 DEF AInv

\* The request is done, and what it has written is committed.
LEMMA CommittedAccounts ==
    ASSUME Inv, Accounts, NEW q \in Requests, req[q].pc = "commit", Committed(q),
           UNCHANGED <<op, schema>>, NEW code, Ends(q, code)
    PROVE  Accounts'
<1> DEFINE s == Done(req[q], code)
<1>1. req' = [req EXCEPT ![q] = s]
  BY DEF Ends
<1>2. s.pc = "done" /\ s.staged = {}
  <2>1. s = [pc |-> "done", tenant |-> req[q].tenant, language |-> req[q].language,
             seen |-> req[q].seen, staged |-> {},
             answer |-> IF req[q].answer = 0 THEN code ELSE req[q].answer,
             told |-> req[q].told]
    BY Here, DoneFields
  <2> HIDE DEF s
  <2> QED
    BY <2>1
<1> HIDE DEF s
<1>3. Becomes(req, req', q, s)
  BY <1>1, Here, BecomesExcept
<1>4. PICK g : g = req'
  OBVIOUS
<1>5. PICK V : V = users'
  OBVIOUS
<1>6. AInv(op, req, tenants, users, schema) /\ Becomes(req, g, q, s)
  BY <1>3, <1>4 DEF Accounts
<1>7. UNCHANGED <<tenants, inboxes>>
  BY DEF Committed
<1>8. AInv(op, g, tenants, V, schema)
  <2>1. CASE op[q].kind = "signup"
    <3> DEFINE w == OwnerRow(q, op[q])
    <3>1. req[q].staged = {w} /\ w.tenant = q /\ \A u \in users : u.tenant # q
      BY <1>6, <2>1 DEF AInv, AccountOf, Signs, OwnerRow
    <3>2. V = {u \in users : \A n \in {w} : n.tenant # u.tenant} \cup {w}
      BY <1>5, <2>1, <3>1 DEF Committed, Upsert, TenantOf
    <3> HIDE DEF w
    <3>3. V = users \cup {w}
      BY <3>1, <3>2
    <3> QED
      BY <1>2, <1>6, <2>1, <3>3, OwnerCommitted DEF w
  <2>2. CASE op[q].kind = "language"
    <3>1. PICK W : W = req[q].staged
      OBVIOUS
    <3>2. V = {u \in users : \A n \in W : n.tenant # u.tenant} \cup W
      BY <1>5, <2>2, <3>1 DEF Committed, Upsert, TenantOf
    <3> QED
      BY <1>2, <1>6, <2>2, <3>1, <3>2, LanguageCommitted
  <2>3. CASE op[q].kind \notin {"signup", "language"}
    <3>1. V = users
      BY <1>5, <2>3 DEF Committed
    <3>2. Calm(op[q], req[q], s)
      BY <2>3 DEF Calm
    <3>3. AccountOf(q, op[q], s, tenants, users, schema) /\ Rivals(op, g)
      BY <1>6, <3>2, CalmAccount, CalmRivals DEF AInv
    <3> QED
      BY <1>6, <3>1, <3>3, OneAccount
  <2> QED
    BY <2>1, <2>2, <2>3
<1> QED
  BY <1>4, <1>5, <1>7, <1>8 DEF Accounts, InboxesMatch

LEMMA CommitAccounts ==
    ASSUME Inv, Inv', Accounts, NEW q \in Requests, Commit(q), schema' = schema
    PROVE  Accounts'
<1>1. req[q].pc = "commit" /\ op' = op /\ Committed(q)
  BY DEF Commit, At
<1>2. CASE \E code : Ends(q, code)
  BY <1>1, <1>2, CommittedAccounts
<1>3. CASE MintsNext(q) /\ req' = [req EXCEPT ![q].pc = "begin"]
  <2>1. op[q].kind \notin {"signup", "language"}
    BY <1>3 DEF MintsNext
  <2>2. UNCHANGED <<tenants, inboxes, users>>
    BY <1>1, <2>1 DEF Committed
  <2>3. \A a \in Requests : a # q => req'[a] = req[a]
    BY <1>3, Here
  <2> QED
    BY <1>1, <2>1, <2>2, <2>3, OtherKinds
<1> QED
  BY <1>2, <1>3 DEF Commit

LEMMA TimeoutAccounts ==
    ASSUME Inv, Inv', Accounts, NEW t \in Task, CheckoutTimesOut(t), schema' = schema
    PROVE  Accounts'
<1> DEFINE q == t[1]
<1>1. /\ UNCHANGED <<op, tenants, inboxes, users>>
      /\ t[2] = "main" => Ends(q, ErrorOf(op[q]))
      /\ t[2] = "inner" =>
             req' = [req EXCEPT ![q].pc = "rollback", ![q].answer = 500]
      /\ t[2] \notin {"main", "inner"} => req' = req
  BY DEF CheckoutTimesOut, Ends, tables
<1>2. /\ q \in Requests /\ (t[2] = "inner" => t = Inner(q))
  BY TaskIsOne
<1>3. In(pool, t)
  BY DEF CheckoutTimesOut, In
<1>4. ErrorOf(op[q]) # 201
  BY ErrorCodes
<1> HIDE DEF q
<1>5. CASE t[2] = "main"
  BY <1>1, <1>2, <1>4, <1>5, EndsCalmly
<1>6. CASE t[2] = "inner"
  BY <1>1, <1>2, <1>3, <1>6, InnerAccounts
<1>7. CASE t[2] \notin {"main", "inner"}
  BY <1>1, <1>7 DEF Accounts, InboxesMatch
<1> QED
  BY <1>5, <1>6, <1>7

\* A tenant without its request: the answer was lost on the way.
LEMMA OrphanAccounts ==
    ASSUME Inv, Accounts, NEW q \in Requests, ProvisionTenant(q),
           ProvisionError(op[q]) = 0, NEW code, code # 201, Ends(q, code),
           UNCHANGED <<op, schema>>
    PROVE  Accounts'
<1> DEFINE t == TenantRow(q, op[q])  s == Done(req[q], code)
<1>1. /\ "0012_languages" \in schema => t.locale \in Supported
      /\ tenants' = tenants \cup {t}
      /\ users' = users /\ (InboxesMatch => InboxesMatch')
  BY ProvisionedTenant
<1>2. s = [pc |-> "done", tenant |-> req[q].tenant, language |-> req[q].language,
           seen |-> req[q].seen, staged |-> {},
           answer |-> IF req[q].answer = 0 THEN code ELSE req[q].answer,
           told |-> req[q].told]
  BY Here, DoneFields
<1>3. req' = [req EXCEPT ![q] = s]
  BY DEF Ends
<1> HIDE DEF s, t
<1>4. Becomes(req, req', q, s)
  BY <1>3, Here, BecomesExcept
<1>5. Calm(op[q], req[q], s)
  BY <1>2 DEF Calm
<1>6. PICK T : T = tenants \cup {t}
  OBVIOUS
<1>7. PICK g : g = req'
  OBVIOUS
<1>8. AInv(op, req, T, users, schema)
  BY <1>1, <1>6, TenantMore DEF Accounts
<1>9. AInv(op, g, T, users, schema)
  <2>1. AccountOf(q, op[q], s, T, users, schema)
    BY <1>5, <1>8, CalmAccount DEF AInv
  <2>2. Becomes(req, g, q, s)
    BY <1>4, <1>7
  <2>3. Rivals(op, g)
    BY <1>5, <1>8, <2>2, CalmRivals DEF AInv
  <2> QED
    BY <1>8, <2>1, <2>2, <2>3, OneAccount
<1> QED
  BY <1>1, <1>6, <1>7, <1>9 DEF Accounts

LEMMA LossAccounts ==
    ASSUME Inv, Inv', Accounts, NEW c \in Connections, ConnectionLost(c),
           schema' = schema
    PROVE  Accounts'
<1> DEFINE t == pool.conn[c].holder  q == t[1]
<1>1. t \in Task /\ In(pool, t)
  BY DEF ConnectionLost, Inv, IInv, Tidy, Shape, In, Has
<1>2. q \in Requests /\ (t[2] = "inner" => t = Inner(q))
  BY <1>1, TaskIsOne
<1>3. /\ op' = op
      /\ t[2] = "main" => Effects(q) /\ Ends(q, ErrorOf(op[q]))
      /\ t[2] = "inner" =>
             /\ req' = [req EXCEPT ![q].pc = "rollback", ![q].answer = 500]
             /\ UNCHANGED <<tenants, inboxes, users>>
      /\ t[2] \notin {"main", "inner"} => req' = req /\ UNCHANGED <<tenants, inboxes, users>>
  BY DEF ConnectionLost, tables
<1>4. ErrorOf(op[q]) # 201
  BY ErrorCodes
<1> HIDE DEF t, q
<1>5. CASE t[2] = "main"
  <2>1. CASE UNCHANGED tables
    BY <1>2, <1>3, <1>4, <1>5, <2>1, EndsCalmly DEF tables
  <2>2. CASE ProvisionError(op[q]) = 0 /\ ProvisionTenant(q)
    BY <1>2, <1>3, <1>4, <1>5, <2>2, OrphanAccounts
  <2>3. CASE req[q].pc = "commit" /\ Committed(q)
    BY <1>2, <1>3, <1>5, <2>3, CommittedAccounts
  <2> QED
    BY <1>3, <1>5, <2>1, <2>2, <2>3 DEF Effects
<1>6. CASE t[2] = "inner"
  BY <1>1, <1>2, <1>3, <1>6, InnerAccounts
<1>7. CASE t[2] \notin {"main", "inner"}
  BY <1>3, <1>7 DEF Accounts, InboxesMatch
<1> QED
  BY <1>5, <1>6, <1>7

\* 0012 is applied when no account is written to, and all are in a language
\* that it accepts.
LEMMA MigrationAccounts ==
    ASSUME Accounts, Install!InstallationNext, UNCHANGED service
    PROVE  Accounts'
<1>1. UNCHANGED <<op, req, tenants, inboxes, users>>
  BY DEF service, tables
<1>2. PICK d \in Deployers :
          \/ Install!ApplyMigration(d) \/ schema' = schema
  BY DEF Install!InstallationNext, Install!LookForRole, Install!CreateRole,
         Install!ReadApplied, Install!SkipOrRefuse, Install!MigrationFails,
         Install!Verify, Install!Interrupted
<1>3. CASE schema' = schema
  BY <1>1, <1>3 DEF Accounts, InboxesMatch
<1>4. CASE Install!ApplyMigration(d)
  <2>1. PICK name : /\ schema' = schema \cup {name}
                    /\ name = "0012_languages" =>
                          /\ {r.locale : r \in tenants \cup users} \subseteq Supported
                          /\ \A q \in Requests :
                                 op[q].kind \in {"signup", "language"} =>
                                     req[q].staged = {}
    BY <1>4 DEF Install!ApplyMigration, Install!Waits, Install!Runs
  <2>2. PICK S : S = schema'
    OBVIOUS
  <2>3. AInv(op, req, tenants, users, schema)
    BY DEF Accounts
  <2>4. "0012_languages" \in S => \A r \in tenants \cup users : r.locale \in Supported
    BY <2>1, <2>2, <2>3 DEF AInv
  <2>5. ASSUME NEW q \in Requests
        PROVE  AccountOf(q, op[q], req[q], tenants, users, S)
    <3>1. AccountOf(q, op[q], req[q], tenants, users, schema)
      BY <2>3 DEF AInv
    <3> QED
      BY <2>1, <2>2, <3>1 DEF AccountOf
  <2>6. AInv(op, req, tenants, users, S)
    BY <2>3, <2>4, <2>5 DEF AInv
  <2> QED
    BY <1>1, <2>2, <2>6 DEF Accounts, InboxesMatch
<1> QED
  BY <1>2, <1>3, <1>4

LEMMA FirstAccounts ==
    ASSUME Init
    PROVE  Accounts
<1>1. /\ Possible /\ req = [q \in Requests |-> Fresh]
  BY DEF Init
<1>2. Fresh.pc = "new" /\ Fresh.staged = {} /\ Fresh.answer = 0
  BY DEF Fresh
<1>3. ASSUME NEW q \in Requests
      PROVE  AccountOf(q, op[q], req[q], tenants, users, schema)
  <2>1. req[q] = Fresh
    BY <1>1
  <2>2. \A u \in users : u.tenant # q
    BY <1>1 DEF Possible
  <2> QED
    BY <1>2, <2>1, <2>2 DEF AccountOf, Signs, Rewrites
<1>4. Rivals(op, req)
  BY <1>1, <1>2 DEF Rivals
<1>5. PeopleOk(users)
  BY <1>1 DEF Possible, PeopleOk, EmailsDiffer
<1> QED
  BY <1>1, <1>3, <1>4, <1>5 DEF Accounts, AInv, Possible, LocalesAccepted

LEMMA AccountsStay ==
    ASSUME Inv, Inv', Accounts, [ServiceNext]_serviceVars
    PROVE  Accounts'
<1>1. CASE UNCHANGED serviceVars \/ Starts
  BY <1>1 DEF serviceVars, service, tables, Starts, installed, Accounts, InboxesMatch
<1>2. CASE Provisions
  BY <1>2, MigrationAccounts DEF Provisions
<1>3. CASE Serves
  <2>0. schema' = schema
    BY <1>3 DEF Serves, installed
  <2>1. ASSUME NEW q \in Requests, Arrive(q) \/ Step(q)
        PROVE  Accounts'
    BY <2>0, <2>1, ArriveAccounts, ProvisionAccounts, InsertOwnerAccounts,
       AuthenticatesAccounts, BeginAccounts, SetLanguageAccounts, CommitAccounts,
       OthersAccounts, EndingAccounts DEF Step
  <2>2. ASSUME NEW t \in Task, CheckoutTimesOut(t)
        PROVE  Accounts'
    BY <2>0, <2>2, TimeoutAccounts
  <2>3. ASSUME NEW c \in Connections, ConnectionLost(c)
        PROVE  Accounts'
    BY <2>0, <2>3, LossAccounts
  <2> QED
    BY <1>3, <2>1, <2>2, <2>3 DEF Serves, Next
<1> QED
  BY <1>1, <1>2, <1>3 DEF ServiceNext

LEMMA AccountsAreKept ==
    ASSUME Accounts
    PROVE  AccountsAreWhole
<1>1. AInv(op, req, tenants, users, schema) /\ InboxesMatch
  BY DEF Accounts
<1>2. EmailsDiffer /\ LocalesAccepted
  BY <1>1 DEF AInv, PeopleOk, EmailsDiffer, LocalesAccepted
<1>3. ASSUME NEW q \in Requests, op[q].kind = "signup", req[q].answer = 201
      PROVE  \E t \in tenants, u \in users :
                 /\ t.tenant = q /\ u.tenant = q /\ u.role = "owner"
                 /\ u.email = op[q].email.folded
  BY <1>1, <1>3 DEF AInv, AccountOf, Signs
<1> QED
  BY <1>1, <1>2, <1>3 DEF AccountsAreWhole

\* An account is whole or it was not answered with success, for any number of
\* signups at a time, whichever connection breaks and whatever is deployed
\* meanwhile: a tenant has its inbox and who reads 201 his owner, an address is
\* one owner's, and the languages are those the migrations in force accept.
THEOREM AccountsWhole == ServiceSpec => []AccountsAreWhole
<1>1. ServiceInit => Inv /\ Accounts
  BY InitEstablishes, FirstAccounts DEF ServiceInit
<1>2. Inv /\ Accounts /\ [ServiceNext]_serviceVars => (Inv /\ Accounts)'
  BY NextPreserves, AccountsStay
<1>3. Inv /\ Accounts => AccountsAreWhole
  BY AccountsAreKept
<1> QED
  BY <1>1, <1>2, <1>3, PTL DEF ServiceSpec

-----------------------------------------------------------------------------
(* The deployments.                                                        *)

Phases == {"idle", "create", "read", "files", "ready", "failed"}

Deployer == [pc : Phases, already : Install!Record, at : Nat \ {0}, tries : Nat]

DeployersOk ==
    /\ role \in {"absent", "plain", "bypass"}
    /\ recorded \in Install!Record
    /\ dep \in [Deployers -> Deployer]

\* A file stands in the record with the digest it has in the checkout.
Stands(f) == f.name \in DOMAIN recorded /\ recorded[f.name] = f.sha256

\* What a deployer read is still in the record: nothing is ever taken out of
\* it and no digest is overwritten.
ReadHolds(d) ==
    /\ DOMAIN dep[d].already \subseteq DOMAIN recorded
    /\ \A n \in DOMAIN dep[d].already : recorded[n] = dep[d].already[n]

\* What is behind a deployer stands.
BehindStands(d) ==
    \A i \in DOMAIN Checkout[d] : i < dep[d].at => Stands(Checkout[d][i])

Holds(d) ==
    /\ dep[d].pc \in {"create", "read"} => dep[d].at = 1
    /\ dep[d].pc \in {"read", "files"} => role # "absent"
    /\ dep[d].pc = "files" => ReadHolds(d) /\ BehindStands(d)
    /\ dep[d].pc = "ready" =>
           /\ role = "plain"
           /\ \A i \in DOMAIN Checkout[d] : Stands(Checkout[d][i])

\* The inductive invariant: the record is what took effect, and each
\* deployer is right about it as far as it has come.
Deployments ==
    /\ DeployersOk
    /\ DOMAIN recorded = schema
    /\ \A d \in Deployers : Holds(d)

-----------------------------------------------------------------------------
(* The record grows and keeps what it has.                                 *)

LEMMA CurrentIsFile ==
    ASSUME DeployersOk, NEW d \in Deployers, Install!AtFile(d), dep[d].at \in DOMAIN Checkout[d]
    PROVE  Install!Current(d) \in Install!File
BY DEF Install!Current, Install!File

LEMMA RecordShape ==
    ASSUME NEW R \in Install!Record
    PROVE  /\ R = [n \in DOMAIN R |-> R[n]]
           /\ DOMAIN R \subseteq {f.name : f \in Install!File}
           /\ \A n \in DOMAIN R : R[n] \in {f.sha256 : f \in Install!File}
BY DEF Install!Record

LEMMA RecordMade ==
    ASSUME NEW N, N \subseteq {f.name : f \in Install!File},
           NEW R \in [N -> {f.sha256 : f \in Install!File}]
    PROVE  R \in Install!Record
BY DEF Install!Record

LEMMA WithType ==
    ASSUME recorded \in Install!Record, NEW f \in Install!File
    PROVE  /\ Install!With(f) \in Install!Record
           /\ DOMAIN Install!With(f) = DOMAIN recorded \cup {f.name}
           /\ Install!With(f)[f.name] = f.sha256
           /\ \A n \in DOMAIN recorded : n # f.name => Install!With(f)[n] = recorded[n]
<1> DEFINE N == DOMAIN recorded \cup {f.name}
<1>1. N \subseteq {g.name : g \in Install!File}
  BY RecordShape
<1>2. \A n \in N : (IF n = f.name THEN f.sha256 ELSE recorded[n])
                     \in {g.sha256 : g \in Install!File}
  BY RecordShape
<1>3. Install!With(f) \in [N -> {g.sha256 : g \in Install!File}]
  BY <1>2 DEF Install!With
<1>4. Install!With(f) \in Install!Record
  BY <1>1, <1>3, RecordMade
<1>5. QED
  BY <1>4 DEF Install!With

\* The steps of a deployer are a change of its own record alone.
LEMMA EndsEffect ==
    ASSUME DeployersOk, NEW d \in Deployers, NEW pc \in Phases, Install!Ends(d, pc)
    PROVE  /\ dep' \in [Deployers -> Deployer]
           /\ dep'[d].pc = pc /\ dep'[d].at = dep[d].at
           /\ dep'[d].already = dep[d].already
           /\ \A e \in Deployers \ {d} : dep'[e] = dep[e]
<1> DEFINE x == [dep[d] EXCEPT !.pc = pc]
<1>1. dep[d] \in Deployer
  BY DEF DeployersOk
<1>2. /\ x \in Deployer /\ x.pc = pc /\ x.at = dep[d].at
      /\ x.already = dep[d].already
  BY <1>1 DEF Deployer
<1>3. dep' = [dep EXCEPT ![d] = x]
  BY DEF Install!Ends, DeployersOk
<1>4. QED
  BY <1>2, <1>3 DEF DeployersOk

LEMMA MovesEffect ==
    ASSUME DeployersOk, NEW d \in Deployers, Install!Moves(d)
    PROVE  /\ dep' \in [Deployers -> Deployer]
           /\ dep'[d].pc = dep[d].pc /\ dep'[d].at = dep[d].at + 1
           /\ dep'[d].already = dep[d].already
           /\ \A e \in Deployers \ {d} : dep'[e] = dep[e]
<1> DEFINE x == [dep[d] EXCEPT !.at = @ + 1]
<1>1. dep[d] \in Deployer
  BY DEF DeployersOk
<1>2. /\ x \in Deployer /\ x.pc = dep[d].pc /\ x.at = dep[d].at + 1
      /\ x.already = dep[d].already
  BY <1>1 DEF Deployer
<1>3. dep' = [dep EXCEPT ![d] = x]
  BY DEF Install!Moves, DeployersOk
<1>4. QED
  BY <1>2, <1>3 DEF DeployersOk

\* Whoever does not move stays right when the record only grows and the role
\* stays what it is once it is there.
LEMMA OthersStay ==
    ASSUME NEW e \in Deployers, Holds(e), dep'[e] = dep[e],
           role # "absent" => role' = role,
           DOMAIN recorded \subseteq DOMAIN recorded',
           \A n \in DOMAIN recorded : recorded'[n] = recorded[n]
    PROVE  Holds(e)'
<1>1. \A i \in DOMAIN Checkout[e] : Stands(Checkout[e][i]) => Stands(Checkout[e][i])'
  BY DEF Stands
<1>2. ReadHolds(e) => ReadHolds(e)'
  BY DEF ReadHolds
<1>3. BehindStands(e) => BehindStands(e)'
  BY <1>1 DEF BehindStands
<1>4. QED
  BY <1>1, <1>2, <1>3 DEF Holds

-----------------------------------------------------------------------------

LEMMA DeploymentsStart ==
    ASSUME Install!InstallationInit
    PROVE  Deployments
<1>1. Install!NoRecord \in Install!Record /\ DOMAIN Install!NoRecord = {}
  <2>1. Install!NoRecord \in [{} -> {f.sha256 : f \in Install!File}]
    BY DEF Install!NoRecord
  <2>2. QED
    BY <2>1, RecordMade
<1>2. [pc |-> "idle", already |-> Install!NoRecord, at |-> 1, tries |-> 0] \in Deployer
  BY <1>1 DEF Deployer, Phases
<1>3. dep \in [Deployers -> Deployer] /\ \A d \in Deployers : dep[d].pc = "idle"
  BY <1>2 DEF Install!InstallationInit
<1>4. DeployersOk /\ DOMAIN recorded = schema
  BY <1>1, <1>3 DEF Install!InstallationInit, DeployersOk
<1>5. QED
  BY <1>3, <1>4 DEF Deployments, Holds

\* The steps that leave the database alone: only the deployer has to be right.
LEMMA DeployerStep ==
    ASSUME Deployments, NEW d \in Deployers, dep' \in [Deployers -> Deployer],
           \A e \in Deployers \ {d} : dep'[e] = dep[e],
           UNCHANGED <<role, schema, recorded>>,
           Holds(d)'
    PROVE  Deployments'
<1>1. \A e \in Deployers \ {d} : Holds(e)'
  BY OthersStay DEF Deployments
<1>2. DeployersOk' /\ (DOMAIN recorded = schema)'
  BY DEF Deployments, DeployersOk
<1>3. QED
  BY <1>1, <1>2 DEF Deployments

LEMMA Looking ==
    ASSUME Deployments, NEW d \in Deployers, Install!LookForRole(d)
    PROVE  Deployments'
<1> DEFINE x == [pc |-> IF role = "absent" THEN "create" ELSE "read",
                 already |-> Install!NoRecord, at |-> 1, tries |-> dep[d].tries + 1]
<1>1. Install!NoRecord \in Install!Record
  <2>1. Install!NoRecord \in [{} -> {f.sha256 : f \in Install!File}]
    BY DEF Install!NoRecord
  <2>2. QED
    BY <2>1, RecordMade
<1>2. dep[d].tries \in Nat
  BY DEF Deployments, DeployersOk, Deployer
<1>3. x \in Deployer /\ x.pc \in {"create", "read"} /\ (x.pc = "read" => role # "absent")
      /\ x.at = 1
  BY <1>1, <1>2 DEF Deployer, Phases
<1>4. dep' = [dep EXCEPT ![d] = x] /\ UNCHANGED <<role, schema, recorded>>
  BY DEF Install!LookForRole, Deployments, DeployersOk
<1>5. /\ dep' \in [Deployers -> Deployer] /\ dep'[d] = x
      /\ \A e \in Deployers \ {d} : dep'[e] = dep[e]
  BY <1>3, <1>4 DEF Deployments, DeployersOk
<1>6. Holds(d)'
  BY <1>3, <1>4, <1>5 DEF Holds
<1>7. QED
  BY <1>4, <1>5, <1>6, DeployerStep

LEMMA Creating ==
    ASSUME Deployments, NEW d \in Deployers, Install!CreateRole(d)
    PROVE  Deployments'
<1>1. CASE role = "absent"
  <2>1. Install!Ends(d, "read") /\ role' = "plain" /\ UNCHANGED <<schema, recorded>>
    BY <1>1 DEF Install!CreateRole
  <2>2. /\ dep' \in [Deployers -> Deployer]
        /\ dep'[d].pc = "read" /\ dep'[d].at = dep[d].at
        /\ \A e \in Deployers \ {d} : dep'[e] = dep[e]
    BY <2>1, EndsEffect DEF Deployments, Phases
  <2>3. \A e \in Deployers \ {d} : Holds(e)'
    BY <1>1, <2>1, <2>2, OthersStay DEF Deployments
  <2>4. Holds(d)'
    <3>1. Holds(d) /\ dep[d].pc = "create"
      BY DEF Deployments, Install!CreateRole
    <3>2. QED
      BY <2>1, <2>2, <3>1 DEF Holds
  <2>5. DeployersOk' /\ (DOMAIN recorded = schema)'
    BY <2>1, <2>2 DEF Deployments, DeployersOk
  <2>6. QED
    BY <2>3, <2>4, <2>5 DEF Deployments
<1>2. CASE role # "absent"
  <2>1. Install!Ends(d, "failed") /\ UNCHANGED <<role, schema, recorded>>
    BY <1>2 DEF Install!CreateRole
  <2>2. /\ dep' \in [Deployers -> Deployer] /\ dep'[d].pc = "failed"
        /\ \A e \in Deployers \ {d} : dep'[e] = dep[e]
    BY <2>1, EndsEffect DEF Deployments, Phases
  <2>3. Holds(d)'
    BY <2>2 DEF Holds
  <2>4. QED
    BY <2>1, <2>2, <2>3, DeployerStep
<1>3. QED
  BY <1>1, <1>2

LEMMA ReadingRecord ==
    ASSUME Deployments, NEW d \in Deployers, Install!ReadApplied(d)
    PROVE  Deployments'
<1> DEFINE x == [dep[d] EXCEPT !.pc = "files", !.already = recorded]
<1>1. /\ dep[d] \in Deployer /\ recorded \in Install!Record
      /\ Holds(d) /\ dep[d].pc = "read"
  BY DEF Deployments, DeployersOk, Install!ReadApplied
<1>2. /\ x \in Deployer /\ x.pc = "files" /\ x.already = recorded
      /\ x.at = dep[d].at
  BY <1>1 DEF Deployer, Phases
<1>3. dep' = [dep EXCEPT ![d] = x] /\ UNCHANGED <<role, schema, recorded>>
  BY DEF Install!ReadApplied, Deployments, DeployersOk
<1>4. /\ dep' \in [Deployers -> Deployer] /\ dep'[d] = x
      /\ \A e \in Deployers \ {d} : dep'[e] = dep[e]
  BY <1>2, <1>3 DEF Deployments, DeployersOk
<1>5. ReadHolds(d)'
  BY <1>2, <1>3, <1>4 DEF ReadHolds
<1>6. BehindStands(d)'
  <2>1. dep'[d].at = 1
    BY <1>1, <1>2, <1>4 DEF Holds
  <2>2. \A i \in DOMAIN Checkout[d] : ~ (i < 1)
    BY CheckoutsAreLists
  <2>3. QED
    BY <2>1, <2>2 DEF BehindStands
<1>7. Holds(d)'
  BY <1>1, <1>2, <1>3, <1>4, <1>5, <1>6 DEF Holds
<1>8. QED
  BY <1>3, <1>4, <1>7, DeployerStep

\* An index that AtFile lets through is one.
LEMMA IndexIsThere ==
    ASSUME DeployersOk, NEW d \in Deployers, Install!AtFile(d)
    PROVE  dep[d].at \in DOMAIN Checkout[d]
<1>1. dep[d].at \in Nat \ {0} /\ Checkout[d] \in Seq(File)
  BY CheckoutsAreLists DEF DeployersOk, Deployer
<1>2. QED
  BY <1>1 DEF Install!AtFile

\* Giving up, for whatever reason, is always possible.
LEMMA Failing ==
    ASSUME Deployments, NEW d \in Deployers, Install!Ends(d, "failed"),
           UNCHANGED <<role, schema, recorded>>
    PROVE  Deployments'
<1>1. /\ dep' \in [Deployers -> Deployer] /\ dep'[d].pc = "failed"
      /\ \A e \in Deployers \ {d} : dep'[e] = dep[e]
  BY EndsEffect DEF Deployments, Phases
<1>2. Holds(d)'
  BY <1>1 DEF Holds
<1>3. QED
  BY <1>1, <1>2, DeployerStep

\* Moving past a file that stands.
LEMMA MovingOn ==
    ASSUME Deployments, NEW d \in Deployers, Install!AtFile(d), Install!Moves(d),
           dep[d].at \in DOMAIN Checkout[d],
           role' = role, NEW f \in Install!File, f = Install!Current(d), Stands(f)',
           DOMAIN recorded \subseteq DOMAIN recorded',
           \A n \in DOMAIN recorded : recorded'[n] = recorded[n]
    PROVE  Holds(d)'
<1>1. /\ Holds(d) /\ dep[d].pc = "files" /\ dep[d].at \in Nat
  BY DEF Deployments, Install!AtFile, DeployersOk, Deployer
<1>2. /\ dep'[d].pc = "files" /\ dep'[d].at = dep[d].at + 1
      /\ dep'[d].already = dep[d].already
  BY <1>1, MovesEffect DEF Deployments
<1>3. ReadHolds(d)'
  BY <1>1, <1>2 DEF Holds, ReadHolds
<1>4. BehindStands(d)'
  <2>1. SUFFICES ASSUME NEW i \in DOMAIN Checkout[d], i < dep[d].at + 1
                 PROVE  Stands(Checkout[d][i])'
    BY <1>2 DEF BehindStands
  <2>2. i \in Nat
    BY CheckoutsAreLists
  <2>3. CASE i < dep[d].at
    BY <1>1, <2>3 DEF Holds, BehindStands, Stands
  <2>4. CASE i = dep[d].at
    <3>1. Checkout[d][i] = f
      BY <2>4 DEF Install!Current
    <3>2. QED
      BY <3>1
  <2>5. QED
    BY <1>1, <2>1, <2>2, <2>3, <2>4
<1>5. QED
  BY <1>1, <1>2, <1>3, <1>4 DEF Holds

LEMMA Skipping ==
    ASSUME Deployments, NEW d \in Deployers, Install!SkipOrRefuse(d)
    PROVE  Deployments'
<1>1. UNCHANGED <<role, schema, recorded>> /\ Install!AtFile(d)
  BY DEF Install!SkipOrRefuse
<1>2. dep[d].at \in DOMAIN Checkout[d]
  BY <1>1, IndexIsThere DEF Deployments
<1>3. CASE Install!Moves(d)
  <2>1. PICK f \in Install!File : f = Install!Current(d)
    BY <1>1, <1>2, CurrentIsFile DEF Deployments
  <2>2. CASE dep[d].already[f.name] = f.sha256
    <3>1. f.name \in DOMAIN dep[d].already
      BY <2>1 DEF Install!SkipOrRefuse
    <3>2. ReadHolds(d)
      BY <1>1 DEF Deployments, Holds, Install!AtFile
    <3>3. Stands(f)'
      BY <1>1, <2>2, <3>1, <3>2 DEF ReadHolds, Stands
    <3>4. Holds(d)'
      BY <1>1, <1>2, <1>3, <2>1, <3>3, MovingOn
    <3>5. QED
      BY <1>1, <1>3, <3>4, MovesEffect, DeployerStep DEF Deployments
  <2>3. CASE dep[d].already[f.name] # f.sha256
    <3>1. Install!Ends(d, "failed")
      BY <2>1, <2>3 DEF Install!SkipOrRefuse
    <3>2. QED
      BY <1>1, <3>1, Failing
  <2>4. QED
    BY <2>2, <2>3
<1>4. CASE Install!Ends(d, "failed")
  BY <1>1, <1>4, Failing
<1>5. QED
  BY <1>3, <1>4 DEF Install!SkipOrRefuse

LEMMA Applying ==
    ASSUME Deployments, NEW d \in Deployers, Install!ApplyMigration(d)
    PROVE  Deployments'
<1>1. Install!AtFile(d) /\ Install!Moves(d) /\ role' = role
  BY DEF Install!ApplyMigration
<1>2. dep[d].at \in DOMAIN Checkout[d]
  BY <1>1, IndexIsThere DEF Deployments
<1>3. PICK f \in Install!File : f = Install!Current(d)
  BY <1>1, <1>2, CurrentIsFile DEF Deployments
<1>4. /\ recorded' = Install!With(f) /\ schema' = schema \cup {f.name}
      /\ f.name \notin DOMAIN recorded
  BY <1>3 DEF Install!ApplyMigration, Install!Runs
<1>5. /\ recorded' \in Install!Record /\ DOMAIN recorded' = DOMAIN recorded \cup {f.name}
      /\ Stands(f)'
      /\ \A n \in DOMAIN recorded : recorded'[n] = recorded[n]
  BY <1>4, WithType DEF Deployments, DeployersOk, Stands
<1>6. Holds(d)'
  BY <1>1, <1>2, <1>3, <1>5, MovingOn
<1>7. /\ dep' \in [Deployers -> Deployer]
      /\ \A e \in Deployers \ {d} : dep'[e] = dep[e]
  BY <1>1, MovesEffect DEF Deployments
<1>8. \A e \in Deployers \ {d} : Holds(e)'
  BY <1>1, <1>5, <1>7, OthersStay DEF Deployments
<1>9. DeployersOk' /\ (DOMAIN recorded = schema)'
  BY <1>1, <1>4, <1>5, <1>7 DEF Deployments, DeployersOk
<1>10. QED
  BY <1>6, <1>8, <1>9 DEF Deployments

LEMMA Verifying ==
    ASSUME Deployments, NEW d \in Deployers, Install!Verify(d)
    PROVE  Deployments'
<1>1. UNCHANGED <<role, schema, recorded>>
  BY DEF Install!Verify
<1>2. CASE role = "plain"
  <2>1. Install!Ends(d, "ready")
    BY <1>2 DEF Install!Verify
  <2>2. /\ dep' \in [Deployers -> Deployer] /\ dep'[d].pc = "ready"
        /\ \A e \in Deployers \ {d} : dep'[e] = dep[e]
    BY <2>1, EndsEffect DEF Deployments, Phases
  <2>3. \A i \in DOMAIN Checkout[d] : i < dep[d].at
    <3>1. dep[d].at \in Nat /\ dep[d].at > Len(Checkout[d])
      BY DEF Install!Verify, Deployments, DeployersOk, Deployer
    <3>2. Checkout[d] \in Seq(File)
      BY CheckoutsAreLists
    <3>3. QED
      BY <3>1, <3>2
  <2>4. \A i \in DOMAIN Checkout[d] : Stands(Checkout[d][i])
    BY <2>3 DEF Install!Verify, Deployments, Holds, BehindStands
  <2>5. Holds(d)'
    BY <1>1, <1>2, <2>2, <2>4 DEF Holds, Stands
  <2>6. QED
    BY <1>1, <2>2, <2>5, DeployerStep
<1>3. CASE role # "plain"
  <2>1. Install!Ends(d, "failed")
    BY <1>3 DEF Install!Verify
  <2>2. QED
    BY <1>1, <2>1, Failing
<1>4. QED
  BY <1>2, <1>3

LEMMA DeploymentsStay ==
    ASSUME Deployments, [Install!InstallationNext]_installed
    PROVE  Deployments'
<1>1. CASE UNCHANGED installed
  BY <1>1 DEF installed, Deployments, DeployersOk, Holds, ReadHolds, BehindStands, Stands
<1>2. ASSUME NEW d \in Deployers, Install!MigrationFails(d) \/ Install!Interrupted(d)
      PROVE  Deployments'
  BY <1>2, Failing DEF Install!MigrationFails, Install!Interrupted
<1>3. QED
  BY <1>1, <1>2, Looking, Creating, ReadingRecord, Skipping, Applying, Verifying
     DEF Install!InstallationNext

LEMMA DeployedBefore ==
    ASSUME Deployed
    PROVE  Deployments
<1>1. /\ role \in {"plain", "bypass"} /\ recorded \in Install!Record
      /\ dep \in [Deployers -> [pc : {"idle", "ready"}, already : Install!Record,
                                at : Nat \ {0}, tries : Nat]]
      /\ ReadyIsCurrent
  BY DEF Deployed
<1>2. DeployersOk
  BY <1>1 DEF DeployersOk, Deployer, Phases
<1>3. \A d \in Deployers : dep[d].pc \in {"idle", "ready"}
  BY <1>1
<1>4. /\ DOMAIN recorded = schema
      /\ \A d \in Deployers : dep[d].pc = "ready" =>
             role = "plain" /\ \A i \in DOMAIN Checkout[d] : Stands(Checkout[d][i])
  BY <1>1 DEF ReadyIsCurrent, Install!ReadyIsCurrent, Stands
<1> QED
  BY <1>2, <1>3, <1>4 DEF Deployments, Holds

\* The record of migrations is what took effect, and each deployer is right
\* about it as far as it has come, beside whatever is served.
THEOREM DeploymentsHold == ServiceSpec => []Deployments
<1>1. ServiceInit => Deployments
  BY DeploymentsStart, DeployedBefore DEF ServiceInit
<1>2. Deployments /\ [ServiceNext]_serviceVars => Deployments'
  <2>1. [ServiceNext]_serviceVars => [Install!InstallationNext]_installed
    BY DEF ServiceNext, Starts, Serves, Provisions, serviceVars, installed
  <2> QED
    BY <2>1, DeploymentsStay
<1> QED
  BY <1>1, <1>2, PTL DEF ServiceSpec

\* A deployer that says "Ready" leaves the database its checkout describes,
\* under a role Row Level Security binds, and the record never lies: for any
\* number of deployers, files, interruptions and retries, while it is served.
THEOREM ReadyMeansCurrent == ServiceSpec => []ReadyIsCurrent
<1>1. Deployments => ReadyIsCurrent
  BY DEF Deployments, Holds, Stands, ReadyIsCurrent, Install!ReadyIsCurrent
<1>2. QED
  BY <1>1, DeploymentsHold, PTL

=============================================================================
