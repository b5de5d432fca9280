--------------------------- MODULE TaskBodyProofs ---------------------------
(***************************************************************************)
(* Proofs about the rendered-body cache: a held body that the next request *)
(* would be served is what rendering now would give, and every response    *)
(* shows each vault as it was during the request, for every set of queries,*)
(* rows, readers and vaults and every bound.                               *)
(***************************************************************************)
EXTENDS TaskBody, SequenceTheorems, WellFoundedInduction, TLAPS

-----------------------------------------------------------------------------
(* The inductive invariant *)

RowType == [kind : {"plain", "deferred", "completed"}, at : Int]
QueryType == [vaults : SUBSET Vaults, upcoming : Nat]
Positions == {"idle", "drive", "get", "lookup", "project", "rows", "store", "return"}
Entries == [body : Bodies, signals : Signal, expiresAt : Int, built : Nat]
Calls == [query : QueryType, todo : SUBSET Vaults, started : Nat, now : Nat,
          projectedAt : Nat, signals : Signal, body : Bodies, boundary : SUBSET Int]

Distinct(s) == \A i, j \in 1 .. Len(s) : s[i] = s[j] => i = j

\* The variables' types; no query is held twice.
Types ==
  /\ now \in Nat /\ source \in [Vaults -> RowValues]
  /\ rows \in [Vaults -> RowValues \cup {NoRow}]
  /\ signal \in Signal /\ signalSeq \in Nat
  /\ entries \in [Queries -> Entries]
  /\ recency \in Seq(Queries) /\ Len(recency) <= MaxEntries /\ Distinct(recency)
  /\ pc \in [Readers -> Positions] /\ call \in [Readers -> Calls]
  /\ seen \in [Readers -> [Vaults -> SUBSET RowValues]]

\* No signal that anyone remembers is newer than the newest.
Known ==
  /\ \A v \in Vaults : signal[v] <= signalSeq
  /\ \A q \in Queries, v \in Vaults : entries[q].signals[v] <= signalSeq
  /\ \A p \in Readers, v \in Vaults : call[p].signals[v] <= signalSeq

\* The vaults a reader has driven, projected, and read the rows of.
Driven(p) == IF pc[p] = "idle" THEN {}
             ELSE IF pc[p] = "drive" THEN call[p].query.vaults \ call[p].todo
             ELSE call[p].query.vaults
Projected(p) == IF pc[p] = "project" THEN call[p].query.vaults \ call[p].todo
                ELSE IF pc[p] \in {"rows", "store"} THEN call[p].query.vaults ELSE {}
RowsRead(p) == IF pc[p] = "rows" THEN call[p].query.vaults \ call[p].todo
               ELSE IF pc[p] = "store" THEN call[p].query.vaults ELSE {}

\* A call's query is one of the queries, what is left to do is part of it, and its
\* moments are in order.
Ordered(p) ==
  /\ pc[p] # "idle" => call[p].query \in Queries
  /\ call[p].todo \subseteq call[p].query.vaults
  /\ call[p].started <= now
  /\ pc[p] = "lookup" => call[p].started <= call[p].now /\ call[p].now <= now
  /\ pc[p] \in {"project", "rows", "store"} =>
       /\ call[p].started <= call[p].now
       /\ call[p].now <= call[p].projectedAt
       /\ call[p].projectedAt <= now

\* During a call a vault's row, and once driven its published row, is one it had then.
Witnessed(p) ==
  /\ \A v \in Vaults : pc[p] # "idle" => source[v] \in seen[p][v]
  /\ \A v \in Driven(p) : rows[v] \in seen[p][v]

\* A projected vault shows a row it had during the call, the published one if its
\* signal has not moved since.
ProjectedSound(p) ==
  \A v \in Projected(p) :
    /\ \E r \in seen[p][v] :
         call[p].body[v] = Response(r, call[p].projectedAt, call[p].query.upcoming)
    /\ call[p].signals[v] = signal[v] =>
         call[p].body[v] = Response(rows[v], call[p].projectedAt, call[p].query.upcoming)

\* The boundary considers every instant of a row it was read from.
BoundarySound(p) ==
  \A v \in RowsRead(p) :
    call[p].signals[v] = signal[v] =>
      Instants(rows[v], call[p].query.upcoming) \subseteq call[p].boundary

\* The entry shows the row as of a moment since it was built, and expires no later than
\* the next instant of the row.
Renders(e, u, v, r, n) ==
  /\ \E t \in e.built .. n : e.body[v] = Response(r, t, u)
  /\ \A i \in Instants(r, u) : i > e.built => e.expiresAt # Never /\ e.expiresAt <= i

\* A held body that matches the signals a reader has read renders rows of its call.
LookupSound(p) ==
  pc[p] = "lookup" /\ Held(call[p].query) =>
    \A v \in call[p].query.vaults :
      entries[call[p].query].signals[v] = call[p].signals[v] =>
        \E r \in seen[p][v] :
          Renders(entries[call[p].query], call[p].query.upcoming, v, r, now)

\* A response shows every selected vault as it was during the call.
Served(p) ==
  pc[p] = "return" =>
    \A v \in call[p].query.vaults :
      \/ \E r \in seen[p][v], t \in call[p].started .. now :
           call[p].body[v] = Response(r, t, call[p].query.upcoming)
      \/ AgesOutAt(call[p].body[v], call[p].now)

CallSound(p) == /\ Ordered(p) /\ Witnessed(p) /\ ProjectedSound(p) /\ BoundarySound(p)
                /\ Served(p)

\* A held body renders the published rows of the vaults whose signals have not moved.
HeldSound(q) ==
  /\ entries[q].built <= now
  /\ Held(q) => \A v \in q.vaults :
       entries[q].signals[v] = signal[v] => Renders(entries[q], q.upcoming, v, rows[v], now)

IInv == /\ Types /\ Known
        /\ \A q \in Queries : HeldSound(q)
        /\ \A p \in Readers : CallSound(p) /\ LookupSound(p)

-----------------------------------------------------------------------------
(* The projection and its boundary *)

\* A set of naturals has a least element.
LEMMA NatMin ==
  ASSUME NEW T \in SUBSET Nat, T # {}
  PROVE  \E x \in T : \A y \in T : x <= y
<1> DEFINE less == {ss \in Nat \X Nat : ss[1] < ss[2]}
<1>1. IsWellFoundedOn(less, Nat)
  BY NatLessThanWellFounded, Zenon DEF OpToRel
<1>2. PICK x \in T : \A y \in T : ~(<<y, x>> \in less)
  BY <1>1, WFMin, Zenon
<1>3. \A y \in T : ~(y < x)
  BY <1>2
<1> QED
  BY <1>3

\* The boundary is an instant no later than any candidate after now.
LEMMA BoundaryFacts ==
  ASSUME NEW S \in SUBSET Int, NEW at \in Nat
  PROVE  /\ Boundary(S, at) \in Int
         /\ \A i \in S : i > at => Boundary(S, at) # Never /\ Boundary(S, at) <= i
<1> DEFINE later == {i \in S : i > at}
<1>1. CASE later = {}
  BY <1>1 DEF Boundary, Never
<1>2. CASE later # {}
  <2>0. \A i \in Int : i > at => i \in Nat
    OBVIOUS
  <2>1. later \in SUBSET Nat
    BY <2>0
  <2>2. \E x \in later : \A y \in later : x <= y
    BY <1>2, <2>1, NatMin
  <2>3. Min(later) \in later /\ \A y \in later : Min(later) <= y
    BY <2>2 DEF Min
  <2>4. Boundary(S, at) = Min(later)
    BY <1>2 DEF Boundary
  <2> QED
    BY <2>1, <2>3, <2>4 DEF Never
<1> QED
  BY <1>1, <1>2

\* Rows and queries are records of their type.
LEMMA RowTypes ==
  /\ \A r \in RowValues \cup {NoRow} : r \in RowType
  /\ \A q \in Queries : q \in QueryType
BY TaskBodyAssumption DEF RowType, QueryType, NoRow

\* What a row is shown as.
LEMMA ShownType ==
  ASSUME NEW r \in RowType, NEW t \in Int, NEW u \in Nat
  PROVE  Shown(r, t, u) \in {"hidden", "plain", "upcoming", "recent"}
BY TaskBodyAssumption DEF Shown, RowType

\* A response has its type.
LEMMA ResponseType ==
  ASSUME NEW r \in RowValues \cup {NoRow}, NEW t \in Int, NEW u \in Nat
  PROVE  Response(r, t, u) \in [shown : {"hidden", "plain", "upcoming", "recent"},
                                row : RowValues \cup {NoRow}]
<1>1. Shown(r, t, u) \in {"hidden", "plain", "upcoming", "recent"}
  BY RowTypes, ShownType
<1> QED
  BY <1>1 DEF Response, Hidden

\* The instants of a row are integers.
LEMMA InstantsType ==
  ASSUME NEW r \in RowType, NEW u \in Nat
  PROVE  Instants(r, u) \subseteq Int
BY TaskBodyAssumption DEF Instants, RowType

\* A response rendered since the body was built is still what rendering gives as long as
\* no instant of the row has come, but for the row that ages out at the build itself.
LEMMA Stays ==
  ASSUME NEW r \in RowType, NEW u \in Nat, NEW b \in Nat, NEW t \in Int, NEW n \in Int,
         b <= t, t <= n,
         \A i \in Instants(r, u) : i <= b \/ n < i
  PROVE  \/ Response(r, t, u) = Response(r, n, u)
         \/ AgesOutAt(Response(r, t, u), b)
<1>1. LookbackHours \in Nat /\ r.at \in Int
  BY TaskBodyAssumption DEF RowType
<1>2. CASE r.kind = "plain"
  BY <1>2 DEF Response, Shown
<1>3. CASE r.kind = "completed"
  <2>1. r.at + LookbackHours <= b \/ n < r.at + LookbackHours
    BY <1>3, <1>1 DEF Instants
  <2>2. \A x \in Int : Shown(r, x, u) = IF r.at >= x - LookbackHours THEN "recent" ELSE "hidden"
    BY <1>3 DEF Shown
  <2>3. CASE n < r.at + LookbackHours
    <3>1. r.at >= n - LookbackHours /\ r.at >= t - LookbackHours
      BY <1>1, <2>3
    <3> QED
      BY <2>2, <3>1 DEF Response
  <2>4. CASE r.at + LookbackHours < t
    <3>1. ~(r.at >= n - LookbackHours) /\ ~(r.at >= t - LookbackHours)
      BY <1>1, <2>4
    <3> QED
      BY <2>2, <3>1 DEF Response
  <2>5. CASE r.at + LookbackHours = b /\ t = b
    <3>1. r.at >= t - LookbackHours
      BY <1>1, <2>5
    <3>2. Response(r, t, u) = [shown |-> "recent", row |-> r]
      BY <2>2, <3>1 DEF Response
    <3> QED
      BY <2>5, <3>2 DEF AgesOutAt
  <2> QED
    BY <1>1, <2>1, <2>3, <2>4, <2>5
<1>4. CASE r.kind = "deferred"
  <2>1. (r.at <= b \/ n < r.at) /\ (r.at - u <= b \/ n < r.at - u)
    BY <1>4, <1>1 DEF Instants
  <2>2. \A x \in Int : Shown(r, x, u) = IF r.at <= x THEN "plain"
                                        ELSE IF r.at <= x + u THEN "upcoming" ELSE "hidden"
    BY <1>4 DEF Shown
  <2>3. (r.at <= t <=> r.at <= n) /\ (r.at <= t + u <=> r.at <= n + u)
    BY <1>1, <2>1
  <2>4. Shown(r, t, u) = Shown(r, n, u)
    BY <2>2, <2>3
  <2> QED
    BY <2>4 DEF Response
<1> QED
  BY <1>2, <1>3, <1>4 DEF RowType

\* What an unexpired entry shows.
LEMMA StillShown ==
  ASSUME NEW e \in Entries, NEW u \in Nat, NEW v \in Vaults, NEW r \in RowType,
         NEW t \in e.built .. now, NEW n \in Nat, now \in Nat, t <= n,
         e.body[v] = Response(r, t, u),
         \A i \in Instants(r, u) : i > e.built => e.expiresAt # Never /\ e.expiresAt <= i,
         Unexpired(e, n)
  PROVE  e.body[v] = Response(r, n, u) \/ AgesOutAt(e.body[v], e.built)
<1>1. PICK b \in Nat : b = e.built
  BY DEF Entries
<1>2. e.expiresAt \in Int /\ t \in Int /\ b <= t
  BY <1>1 DEF Entries
<1>3. \A i \in Instants(r, u) : i <= b \/ n < i
  BY <1>1, <1>2, InstantsType DEF Unexpired
<1> QED
  BY <1>1, <1>2, <1>3, Stays

\* What an entry renders it renders later, too.
LEMMA RendersLater ==
  ASSUME NEW e, NEW u, NEW v, NEW r, NEW n \in Nat, NEW m \in Nat, n <= m, e.built \in Nat,
         Renders(e, u, v, r, n)
  PROVE  Renders(e, u, v, r, m)
BY DEF Renders

-----------------------------------------------------------------------------
(* The least-recently-used order *)

In(x, s) == \E i \in DOMAIN s : s[i] = x

\* Removing an element leaves the others, in order.
LEMMA RemoveAtFacts ==
  ASSUME NEW S, NEW s \in Seq(S), Distinct(s), NEW k \in 1 .. Len(s)
  PROVE  /\ RemoveAt(s, k) \in Seq(S)
         /\ Len(RemoveAt(s, k)) = Len(s) - 1
         /\ Distinct(RemoveAt(s, k))
         /\ \A x : In(x, RemoveAt(s, k)) <=> In(x, s) /\ x # s[k]
<1> DEFINE a == SubSeq(s, 1, k - 1)
           b == SubSeq(s, k + 1, Len(s))
           w == RemoveAt(s, k)
<1>1. Len(s) \in Nat /\ DOMAIN s = 1 .. Len(s) /\ \A i \in 1 .. Len(s) : s[i] \in S
  OBVIOUS
<1>2. /\ a \in Seq(S) /\ Len(a) = k - 1
      /\ \A i \in 1 .. k - 1 : a[i] = s[i]
  BY <1>1, SubSeqProperties
<1>3. /\ b \in Seq(S) /\ Len(b) = Len(s) - k
      /\ \A i \in 1 .. Len(s) - k : b[i] = s[k + i]
  <2>1. \A i \in k + 1 .. Len(s) : s[i] \in S
    BY <1>1
  <2>2. /\ b \in Seq(S) /\ Len(b) = IF k + 1 <= Len(s) THEN Len(s) - (k + 1) + 1 ELSE 0
        /\ \A i \in 1 .. Len(s) - (k + 1) + 1 : b[i] = s[(k + 1) + i - 1]
    BY <1>1, <2>1, SubSeqProperties
  <2>3. /\ (IF k + 1 <= Len(s) THEN Len(s) - (k + 1) + 1 ELSE 0) = Len(s) - k
        /\ \A i \in 1 .. Len(s) - k : i \in 1 .. Len(s) - (k + 1) + 1 /\ (k + 1) + i - 1 = k + i
    <3>1. PICK n \in Nat : n = Len(s)
      BY <1>1
    <3>2. k \in 1 .. n
      BY <3>1
    <3>3. (IF k + 1 <= n THEN n - (k + 1) + 1 ELSE 0) = n - k
      BY <3>2
    <3>4. \A i \in 1 .. n - k : i \in 1 .. n - (k + 1) + 1 /\ (k + 1) + i - 1 = k + i
      BY <3>2
    <3> QED
      BY <3>1, <3>3, <3>4
  <2> HIDE DEF b
  <2> QED
    BY <2>2, <2>3
<1>4. w = a \o b
  BY DEF RemoveAt
<1> HIDE DEF a, b, w
<1>5. /\ w \in Seq(S) /\ Len(w) = Len(s) - 1
      /\ \A i \in 1 .. Len(s) - 1 : w[i] = IF i < k THEN s[i] ELSE s[i + 1]
  <2>1. /\ w \in Seq(S) /\ Len(w) = Len(a) + Len(b)
        /\ \A i \in 1 .. Len(a) + Len(b) : w[i] = IF i <= Len(a) THEN a[i] ELSE b[i - Len(a)]
    BY <1>2, <1>3, <1>4, ConcatProperties
  <2>3. /\ Len(a) + Len(b) = Len(s) - 1
        /\ \A i \in 1 .. Len(s) - 1 : w[i] = IF i <= k - 1 THEN a[i] ELSE b[i - (k - 1)]
    <3>1. Len(a) + Len(b) = Len(s) - 1
      BY <1>1, <1>2, <1>3
    <3> QED
      BY <1>2, <2>1, <3>1
  <2>2. ASSUME NEW i \in 1 .. Len(s) - 1
        PROVE  w[i] = IF i < k THEN s[i] ELSE s[i + 1]
    <3>1. CASE i < k
      BY <1>1, <1>2, <2>3, <3>1
    <3>2. CASE ~(i < k)
      <4>1. i - (k - 1) \in 1 .. Len(s) - k /\ k + (i - (k - 1)) = i + 1
        BY <1>1, <3>2
      <4>2. b[i - (k - 1)] = s[i + 1]
        BY <1>3, <4>1
      <4> QED
        BY <1>1, <2>3, <3>2, <4>2
    <3> QED
      BY <3>1, <3>2
  <2> QED
    BY <2>1, <2>2, <2>3
<1>6. Distinct(w)
  <2> SUFFICES ASSUME NEW i \in 1 .. Len(w), NEW j \in 1 .. Len(w), w[i] = w[j]
               PROVE  i = j
    BY DEF Distinct
  <2> QED
    BY <1>1, <1>5 DEF Distinct
<1>7. ASSUME NEW x PROVE In(x, w) <=> In(x, s) /\ x # s[k]
  <2>1. ASSUME NEW i \in DOMAIN w, w[i] = x PROVE In(x, s) /\ x # s[k]
    <3>1. i \in 1 .. Len(s) - 1
      BY <1>5, <2>1
    <3>2. CASE i < k
      <4>1. i \in 1 .. Len(s) /\ x = s[i] /\ i # k
        BY <1>1, <1>5, <2>1, <3>1, <3>2
      <4> QED
        BY <1>1, <4>1 DEF In, Distinct
    <3>3. CASE ~(i < k)
      <4>1. i + 1 \in 1 .. Len(s) /\ x = s[i + 1] /\ i + 1 # k
        BY <1>1, <1>5, <2>1, <3>1, <3>3
      <4> QED
        BY <1>1, <4>1 DEF In, Distinct
    <3> QED
      BY <3>2, <3>3
  <2>2. ASSUME NEW i \in 1 .. Len(s), s[i] = x, x # s[k] PROVE In(x, w)
    <3>1. CASE i < k
      <4>1. i \in DOMAIN w /\ w[i] = x
        BY <1>1, <1>5, <2>2, <3>1
      <4> QED
        BY <4>1 DEF In
    <3>2. CASE ~(i < k)
      <4>1. i - 1 \in 1 .. Len(s) - 1 /\ ~(i - 1 < k) /\ (i - 1) + 1 = i
        BY <1>1, <2>2, <3>2
      <4>2. i - 1 \in DOMAIN w /\ w[i - 1] = x
        BY <1>5, <2>2, <4>1
      <4> QED
        BY <4>2 DEF In
    <3> QED
      BY <3>1, <3>2
  <2> QED
    BY <1>1, <2>1, <2>2 DEF In
<1> QED
  BY <1>5, <1>6, <1>7 DEF w

\* Appending a new element.
LEMMA AppendFacts ==
  ASSUME NEW S, NEW s \in Seq(S), Distinct(s), NEW q \in S, ~In(q, s)
  PROVE  /\ Append(s, q) \in Seq(S)
         /\ Len(Append(s, q)) = Len(s) + 1
         /\ Distinct(Append(s, q))
         /\ \A x : In(x, Append(s, q)) <=> In(x, s) \/ x = q
<1> DEFINE w == Append(s, q)
<1>1. /\ w \in Seq(S) /\ Len(w) = Len(s) + 1 /\ Len(s) \in Nat
      /\ \A i \in 1 .. Len(s) : w[i] = s[i]
      /\ w[Len(s) + 1] = q
  BY AppendProperties
<1>2. DOMAIN w = 1 .. Len(s) + 1 /\ DOMAIN s = 1 .. Len(s)
  BY <1>1
<1> HIDE DEF w
<1>3. \A i \in 1 .. Len(s) + 1 : i \in 1 .. Len(s) \/ i = Len(s) + 1
  BY <1>1
<1>4. \A i \in 1 .. Len(s) : s[i] # q
  BY <1>2 DEF In
<1>5. Distinct(w)
  BY <1>1, <1>3, <1>4 DEF Distinct
<1>6. ASSUME NEW x PROVE In(x, w) <=> In(x, s) \/ x = q
  BY <1>1, <1>2, <1>3 DEF In
<1> QED
  BY <1>1, <1>5, <1>6 DEF w

\* Dropping the first element.
LEMMA TailFacts ==
  ASSUME NEW S, NEW s \in Seq(S), Distinct(s), s # << >>
  PROVE  /\ Tail(s) \in Seq(S)
         /\ Len(Tail(s)) = Len(s) - 1
         /\ Distinct(Tail(s))
         /\ \A x : In(x, Tail(s)) => In(x, s)
<1> DEFINE w == Tail(s)
<1>1. /\ w \in Seq(S) /\ Len(w) = Len(s) - 1 /\ Len(s) \in Nat
      /\ \A i \in 1 .. Len(w) : w[i] = s[i + 1]
  BY HeadTailProperties
<1>2. DOMAIN w = 1 .. Len(s) - 1 /\ DOMAIN s = 1 .. Len(s)
  BY <1>1
<1> HIDE DEF w
<1>3. \A i \in 1 .. Len(s) - 1 : i + 1 \in 1 .. Len(s)
  BY <1>1
<1>4. Distinct(w)
  <2> SUFFICES ASSUME NEW i \in 1 .. Len(w), NEW j \in 1 .. Len(w), w[i] = w[j]
               PROVE  i = j
    BY DEF Distinct
  <2>1. i + 1 = j + 1
    BY <1>1, <1>3 DEF Distinct
  <2> QED
    BY <1>1, <2>1
<1>5. ASSUME NEW x, In(x, w) PROVE In(x, s)
  BY <1>1, <1>2, <1>3, <1>5 DEF In
<1> QED
  BY <1>1, <1>4, <1>5 DEF w

\* The held queries without one of them.
LEMMA WithoutFacts ==
  ASSUME Types, NEW q
  PROVE  /\ Without(q) \in Seq(Queries)
         /\ Distinct(Without(q))
         /\ Len(Without(q)) = IF Held(q) THEN Len(recency) - 1 ELSE Len(recency)
         /\ ~In(q, Without(q))
         /\ \A x : In(x, Without(q)) => Held(x)
<1>1. recency \in Seq(Queries) /\ Distinct(recency) /\ DOMAIN recency = 1 .. Len(recency)
  BY DEF Types
<1>2. CASE Held(q)
  <2> DEFINE k == CHOOSE i \in DOMAIN recency : recency[i] = q
  <2>1. k \in 1 .. Len(recency) /\ recency[k] = q
    BY <1>1, <1>2 DEF Held
  <2>2. Without(q) = RemoveAt(recency, k)
    BY <1>2 DEF Without
  <2> HIDE DEF k
  <2>3. /\ RemoveAt(recency, k) \in Seq(Queries)
        /\ Len(RemoveAt(recency, k)) = Len(recency) - 1
        /\ Distinct(RemoveAt(recency, k))
        /\ \A x : In(x, RemoveAt(recency, k)) <=> In(x, recency) /\ x # recency[k]
    BY <1>1, <2>1, RemoveAtFacts
  <2> QED
    BY <1>2, <2>1, <2>2, <2>3 DEF In, Held
<1>3. CASE ~Held(q)
  BY <1>1, <1>3 DEF Without, In, Held
<1> QED
  BY <1>2, <1>3

\* Marking a query most recently used.
LEMMA TouchFacts ==
  ASSUME Types, NEW q \in Queries
  PROVE  LET held == Append(Without(q), q) IN
         /\ held \in Seq(Queries) /\ Distinct(held)
         /\ Len(held) = IF Held(q) THEN Len(recency) ELSE Len(recency) + 1
         /\ In(q, held) /\ held # << >>
         /\ \A x : In(x, held) => Held(x) \/ x = q
<1> DEFINE w == Without(q)
<1>1. /\ w \in Seq(Queries) /\ Distinct(w) /\ ~In(q, w)
      /\ Len(w) = IF Held(q) THEN Len(recency) - 1 ELSE Len(recency)
      /\ \A x : In(x, w) => Held(x)
  BY WithoutFacts
<1>2. Len(recency) \in Nat
  BY DEF Types
<1> HIDE DEF w
<1>3. /\ Append(w, q) \in Seq(Queries) /\ Len(Append(w, q)) = Len(w) + 1
      /\ Distinct(Append(w, q)) /\ Append(w, q) # << >>
      /\ \A x : In(x, Append(w, q)) <=> In(x, w) \/ x = q
  BY <1>1, AppendFacts, AppendProperties
<1> QED
  BY <1>1, <1>2, <1>3 DEF w

\* Eviction keeps the bound.
LEMMA EvictedFacts ==
  ASSUME Types, NEW q \in Queries
  PROVE  /\ Evicted(q) \in Seq(Queries) /\ Distinct(Evicted(q))
         /\ Len(Evicted(q)) <= MaxEntries
         /\ \A x : In(x, Evicted(q)) => Held(x) \/ x = q
<1> DEFINE h == Append(Without(q), q)
<1>1. /\ h \in Seq(Queries) /\ Distinct(h) /\ h # << >>
      /\ Len(h) = IF Held(q) THEN Len(recency) ELSE Len(recency) + 1
      /\ \A x : In(x, h) => Held(x) \/ x = q
  BY TouchFacts
<1>2. Evicted(q) = IF Len(h) > MaxEntries THEN Tail(h) ELSE h
  BY DEF Evicted
<1>3. Len(recency) \in Nat /\ Len(recency) <= MaxEntries /\ MaxEntries \in Nat
  BY TaskBodyAssumption DEF Types
<1> HIDE DEF h
<1>4. /\ Tail(h) \in Seq(Queries) /\ Len(Tail(h)) = Len(h) - 1 /\ Distinct(Tail(h))
      /\ \A x : In(x, Tail(h)) => In(x, h)
  BY <1>1, TailFacts
<1>5. Len(h) \in Nat /\ Len(h) <= MaxEntries + 1
  BY <1>1, <1>3
<1> QED
  BY <1>1, <1>2, <1>3, <1>4, <1>5

-----------------------------------------------------------------------------
(* What a step keeps *)

\* Listing vaults: a vault whose signal is not a new one kept its published row.
Publishes ==
  /\ rows' \in [Vaults -> RowValues \cup {NoRow}] /\ signal' \in Signal /\ signalSeq' \in Nat
  /\ signalSeq <= signalSeq'
  /\ \A w \in Vaults : signal'[w] <= signalSeq'
  /\ \A w \in Vaults : rows'[w] = rows[w] \/ rows'[w] = source[w]
  /\ \A w \in Vaults : signal'[w] <= signalSeq => signal'[w] = signal[w] /\ rows'[w] = rows[w]

\* A list of one vault publishes, and the vault's published row is its current one.
LEMMA ListVaultPublishes ==
  ASSUME Types, Known, NEW v \in Vaults, ListVault(v)
  PROVE  Publishes /\ rows'[v] = source[v]
<1>1. CASE signal[v] > 0 /\ rows[v] = source[v]
  BY <1>1 DEF ListVault, storeVars, Publishes, Types, Known
<1>2. CASE ~(signal[v] > 0 /\ rows[v] = source[v])
  <2>1. /\ rows' = [rows EXCEPT ![v] = source[v]]
        /\ signalSeq' = signalSeq + 1
        /\ signal' = [signal EXCEPT ![v] = signalSeq + 1]
    BY <1>2 DEF ListVault
  <2> QED
    BY <2>1 DEF Publishes, Types, Known, Signal
<1> QED
  BY <1>1, <1>2

\* So does a step that leaves the snapshot store alone.
LEMMA StillPublishes ==
  ASSUME Types, Known, UNCHANGED storeVars
  PROVE  Publishes
BY DEF storeVars, Publishes, Types, Known

\* What a call has established stays so while the others go on.
LEMMA CallKept ==
  ASSUME Types, Known, Publishes, NEW p \in Readers, CallSound(p),
         pc'[p] = pc[p], call'[p] = call[p], now' \in Nat, now <= now',
         \A v \in Vaults : seen[p][v] \subseteq seen'[p][v],
         pc[p] # "idle" => \A v \in Vaults : source'[v] \in seen'[p][v]
  PROVE  CallSound(p)'
<1>1. /\ call[p] \in Calls /\ call[p].query \in QueryType /\ call[p].query.vaults \subseteq Vaults
      /\ now \in Nat /\ call[p].started \in Nat /\ call[p].now \in Nat
      /\ call[p].projectedAt \in Nat
  BY DEF Types, Calls, QueryType
<1>2. Driven(p)' = Driven(p) /\ Projected(p)' = Projected(p) /\ RowsRead(p)' = RowsRead(p)
  BY DEF Driven, Projected, RowsRead
<1>3. Driven(p) \subseteq Vaults /\ Projected(p) \subseteq Vaults /\ RowsRead(p) \subseteq Vaults
  BY <1>1 DEF Driven, Projected, RowsRead
<1>4. \A v \in Vaults : call[p].signals[v] = signal'[v] =>
                          call[p].signals[v] = signal[v] /\ rows'[v] = rows[v]
  BY DEF Publishes, Known
<1>5. Ordered(p)'
  BY <1>1 DEF CallSound, Ordered
<1>6. Witnessed(p)'
  <2>1. \A v \in Driven(p) : rows[v] \in seen[p][v] /\ source[v] \in seen[p][v]
    BY <1>3 DEF CallSound, Witnessed, Driven
  <2>2. \A v \in Driven(p) : rows'[v] \in seen'[p][v]
    BY <1>3, <2>1 DEF Publishes
  <2> QED
    BY <1>2, <2>2 DEF Witnessed
<1>7. ProjectedSound(p)'
  BY <1>2, <1>3, <1>4 DEF CallSound, ProjectedSound
<1>8. BoundarySound(p)'
  BY <1>2, <1>3, <1>4 DEF CallSound, BoundarySound
<1>9. Served(p)'
  <2>1. call[p].started .. now \subseteq call[p].started .. now'
    BY <1>1
  <2> QED
    BY <1>1, <2>1 DEF CallSound, Served
<1> QED
  BY <1>5, <1>6, <1>7, <1>8, <1>9 DEF CallSound

\* A held body is kept, dropped, or replaced by one that renders the published rows.
CacheStep ==
  /\ entries' \in [Queries -> Entries]
  /\ recency' \in Seq(Queries) /\ Len(recency') <= MaxEntries /\ Distinct(recency')
  /\ \A q \in Queries :
       \/ entries'[q] = entries[q] /\ (In(q, recency') => Held(q))
       \/ entries'[q] = NoEntry /\ ~In(q, recency')
       \/ /\ UNCHANGED <<storeVars, now>>
          /\ entries'[q].built <= now
          /\ \A v \in Vaults : entries'[q].signals[v] <= signalSeq
          /\ \A v \in q.vaults : Renders(entries'[q], q.upcoming, v, rows[v], now)

\* Held bodies stay sound.
LEMMA HeldKept ==
  ASSUME Types, Known, Publishes, CacheStep, now' \in Nat, now <= now',
         NEW q \in Queries, HeldSound(q)
  PROVE  HeldSound(q)' /\ \A v \in Vaults : entries'[q].signals[v] <= signalSeq'
<1>1. now \in Nat /\ entries[q].built \in Nat /\ q.vaults \subseteq Vaults
      /\ signalSeq \in Nat /\ signalSeq' \in Nat /\ signalSeq <= signalSeq'
      /\ entries[q].signals \in Signal
  BY RowTypes DEF Types, Entries, QueryType, Publishes
<1>2. CASE entries'[q] = entries[q] /\ (In(q, recency') => Held(q))
  <2>1. \A v \in Vaults : entries[q].signals[v] = signal'[v] =>
                            entries[q].signals[v] = signal[v] /\ rows'[v] = rows[v]
    BY DEF Publishes, Known
  <2>2. \A v \in Vaults : entries[q].signals[v] \in Nat /\ entries[q].signals[v] <= signalSeq
    BY <1>1 DEF Known, Signal
  <2>3. ASSUME Held(q)', NEW v \in q.vaults, entries'[q].signals[v] = signal'[v]
        PROVE  Renders(entries'[q], q.upcoming, v, rows'[v], now')
    <3>1. Held(q)
      BY <1>2, <2>3 DEF Held, In
    <3>2. Renders(entries[q], q.upcoming, v, rows'[v], now)
      BY <1>1, <1>2, <2>1, <2>3, <3>1 DEF HeldSound
    <3> QED
      BY <1>1, <1>2, <3>2, RendersLater
  <2> QED
    BY <1>1, <1>2, <2>2, <2>3 DEF HeldSound
<1>3. CASE entries'[q] = NoEntry /\ ~In(q, recency')
  <2>1. ~Held(q)'
    BY <1>3 DEF Held, In
  <2> QED
    BY <1>1, <1>3, <2>1 DEF HeldSound, NoEntry
<1>4. CASE /\ UNCHANGED <<storeVars, now>>
           /\ entries'[q].built <= now
           /\ \A v \in Vaults : entries'[q].signals[v] <= signalSeq
           /\ \A v \in q.vaults : Renders(entries'[q], q.upcoming, v, rows[v], now)
  BY <1>4 DEF HeldSound, storeVars
<1> QED
  BY <1>2, <1>3, <1>4 DEF CacheStep

\* A reader between its signals and its lookup keeps what it may find.
LEMMA LookupKept ==
  ASSUME Types, Known, CacheStep, now' \in Nat, now <= now',
         NEW p \in Readers, CallSound(p), LookupSound(p),
         pc'[p] = pc[p], call'[p] = call[p],
         \A v \in Vaults : seen[p][v] \subseteq seen'[p][v]
  PROVE  LookupSound(p)'
<1> SUFFICES ASSUME pc[p] = "lookup", In(call[p].query, recency'),
                    NEW v \in call[p].query.vaults,
                    entries'[call[p].query].signals[v] = call[p].signals[v]
             PROVE  \E r \in seen'[p][v] :
                      Renders(entries'[call[p].query], call[p].query.upcoming, v, r, now')
  BY DEF LookupSound, Held, In
<1>1. PICK q \in Queries : q = call[p].query
  BY DEF CallSound, Ordered
<1>2. now \in Nat /\ entries[q].built \in Nat /\ v \in Vaults
  BY <1>1, RowTypes DEF Types, Entries, QueryType
<1>3. CASE entries'[q] = entries[q] /\ (In(q, recency') => Held(q))
  <2>1. PICK r \in seen[p][v] : Renders(entries[q], q.upcoming, v, r, now)
    BY <1>1, <1>3 DEF LookupSound
  <2>2. Renders(entries'[q], q.upcoming, v, r, now')
    BY <1>2, <1>3, <2>1, RendersLater
  <2> QED
    BY <1>1, <1>2, <2>1, <2>2
<1>4. CASE /\ UNCHANGED <<storeVars, now>>
           /\ \A w \in q.vaults : Renders(entries'[q], q.upcoming, w, rows[w], now)
  <2>1. rows[v] \in seen[p][v]
    BY <1>1 DEF CallSound, Witnessed, Driven
  <2> QED
    BY <1>1, <1>2, <1>4, <2>1
<1> QED
  BY <1>1, <1>3, <1>4 DEF CacheStep

\* A reader's step keeps the invariant if it keeps the reader's own part of it and
\* leaves the cache sound.
LEMMA StepInv ==
  ASSUME IInv, NEW p \in Readers, NEW c \in Calls, NEW k \in Positions,
         NEW s \in [Vaults -> SUBSET RowValues],
         UNCHANGED <<now, source>>, Publishes, CacheStep,
         call' = [call EXCEPT ![p] = c], pc' = [pc EXCEPT ![p] = k],
         seen' = [seen EXCEPT ![p] = s],
         \A v \in Vaults : c.signals[v] <= signalSeq',
         CallSound(p)', LookupSound(p)'
  PROVE  IInv'
<1>1. Types /\ Known
  BY DEF IInv
<1>2. /\ pc' \in [Readers -> Positions] /\ call' \in [Readers -> Calls]
      /\ seen' \in [Readers -> [Vaults -> SUBSET RowValues]]
  BY <1>1 DEF Types
<1>3. call'[p] = c /\ \A o \in Readers : o # p =>
        pc'[o] = pc[o] /\ call'[o] = call[o] /\ seen'[o] = seen[o]
  BY <1>1 DEF Types
<1>4. Types'
  BY <1>1, <1>2 DEF Types, Publishes, CacheStep
<1>5. now' \in Nat /\ now <= now' /\ now' = now
  BY <1>1 DEF Types
<1>6. \A q \in Queries : HeldSound(q)' /\ \A v \in Vaults : entries'[q].signals[v] <= signalSeq'
  BY <1>1, <1>5, HeldKept DEF IInv
<1>7. \A o \in Readers, v \in Vaults : call'[o].signals[v] <= signalSeq'
  <2>1. ASSUME NEW o \in Readers, NEW v \in Vaults, o # p
        PROVE  call'[o].signals[v] <= signalSeq'
    <3>1. call[o].signals[v] \in Nat /\ call[o].signals[v] <= signalSeq
      BY <1>1 DEF Types, Calls, Signal, Known
    <3> QED
      BY <1>1, <1>3, <2>1, <3>1 DEF Publishes, Types
  <2> QED
    BY <1>3, <2>1
<1>8. Known'
  BY <1>6, <1>7 DEF Known, Publishes
<1>9. ASSUME NEW o \in Readers PROVE CallSound(o)' /\ LookupSound(o)'
  <2>1. CASE o = p
    BY <2>1
  <2>2. CASE o # p
    <3>1. CallSound(o) /\ LookupSound(o)
      BY DEF IInv
    <3>2. pc[o] # "idle" => \A v \in Vaults : source'[v] \in seen'[o][v]
      BY <1>3, <2>2, <3>1 DEF CallSound, Witnessed
    <3>3. \A v \in Vaults : seen[o][v] \subseteq seen'[o][v]
      BY <1>3, <2>2
    <3>4. pc'[o] = pc[o] /\ call'[o] = call[o]
      BY <1>3, <2>2
    <3>5. CallSound(o)'
      BY <1>1, <1>5, <3>1, <3>2, <3>3, <3>4, CallKept
    <3>6. LookupSound(o)'
      BY <1>1, <1>5, <3>1, <3>3, <3>4, LookupKept
    <3> QED
      BY <3>5, <3>6
  <2> QED
    BY <2>1, <2>2
<1> QED
  BY <1>4, <1>6, <1>8, <1>9 DEF IInv

\* A step that leaves the cache alone.
LEMMA CacheKept ==
  ASSUME Types, UNCHANGED cacheVars
  PROVE  CacheStep
BY DEF cacheVars, CacheStep, Types, Held, In

-----------------------------------------------------------------------------
(* The actions *)

\* The empty call and the empty entry have their types.
LEMMA NoneTypes ==
  /\ NoCall \in Calls /\ NoEntry \in Entries
  /\ \A v \in Vaults : NoCall.signals[v] = 0 /\ NoEntry.signals[v] = 0
BY DEF NoCall, NoEntry, Calls, Entries, QueryType, Signal, Bodies, Nothing, Hidden, Never

\* The facts about a reader that its actions use.
LEMMA Reader ==
  ASSUME IInv, NEW p \in Readers
  PROVE  /\ Types /\ Known /\ CallSound(p) /\ LookupSound(p)
         /\ call[p] \in Calls /\ call[p].query \in QueryType
         /\ call[p].query.vaults \subseteq Vaults /\ call[p].query.upcoming \in Nat
         /\ seen[p] \in [Vaults -> SUBSET RowValues]
         /\ seen = [seen EXCEPT ![p] = seen[p]]
         /\ pc[p] # "idle" => call[p].query \in Queries
         /\ \A v \in Vaults : call[p].signals[v] \in Nat /\ call[p].signals[v] <= signalSeq
         /\ now \in Nat /\ signalSeq \in Nat
BY DEF IInv, Types, Known, CallSound, Ordered, Calls, QueryType, Signal

\* The signals of a selection.
LEMMA SignalsFacts ==
  ASSUME Types, Known, NEW vs \in SUBSET Vaults
  PROVE  /\ Signals(vs) \in Signal
         /\ \A v \in Vaults : Signals(vs)[v] <= signalSeq
         /\ \A v \in vs : Signals(vs)[v] = signal[v]
BY DEF Signals, Types, Known, Signal

\* A request begins.
LEMMA BeginInv ==
  ASSUME IInv, NEW p \in Readers, NEW q \in Queries, Begin(p, q)
  PROVE  IInv'
<1> DEFINE c == [NoCall EXCEPT !.query = q, !.todo = q.vaults, !.started = now]
           k == IF q.vaults = {} THEN "get" ELSE "drive"
           s == [v \in Vaults |-> {source[v]}]
<1>1. /\ call' = [call EXCEPT ![p] = c] /\ pc' = [pc EXCEPT ![p] = k]
      /\ seen' = [seen EXCEPT ![p] = s]
      /\ UNCHANGED <<now, source>> /\ UNCHANGED storeVars /\ UNCHANGED cacheVars
  BY DEF Begin
<1>2. Types /\ Known /\ q \in QueryType /\ now \in Nat
  BY RowTypes, Reader
<1>3. /\ c \in Calls /\ k \in Positions /\ s \in [Vaults -> SUBSET RowValues]
      /\ c.query = q /\ c.todo = q.vaults /\ c.started = now /\ c.signals = NoCall.signals
  <2>1. k \in Positions
    BY DEF Positions
  <2>2. s \in [Vaults -> SUBSET RowValues]
    BY <1>2 DEF Types
  <2>3. NoCall \in Calls /\ q.vaults \in SUBSET Vaults
    BY <1>2, NoneTypes DEF QueryType
  <2>4. /\ c \in Calls /\ c.query = q /\ c.todo = q.vaults
        /\ c.started = now /\ c.signals = NoCall.signals
    BY <1>2, <2>3 DEF Calls
  <2> QED
    BY <2>1, <2>2, <2>4
<1> HIDE DEF c
<1>4. Publishes /\ CacheStep /\ rows' = rows /\ signalSeq' = signalSeq
  BY <1>1, <1>2, StillPublishes, CacheKept DEF storeVars
<1>5. call'[p] = c /\ pc'[p] = k /\ seen'[p] = s
  BY <1>1, <1>2 DEF Types
<1>6. Driven(p)' = {} /\ Projected(p)' = {} /\ RowsRead(p)' = {}
  BY <1>3, <1>5 DEF Driven, Projected, RowsRead
<1>7. CallSound(p)'
  BY <1>1, <1>2, <1>3, <1>5, <1>6
  DEF CallSound, Ordered, Witnessed, ProjectedSound, BoundarySound, Served
<1>8. LookupSound(p)'
  BY <1>5 DEF LookupSound
<1>9. \A v \in Vaults : c.signals[v] <= signalSeq'
  BY <1>3, <1>4, NoneTypes, Reader
<1> QED
  BY <1>1, <1>3, <1>4, <1>7, <1>8, <1>9, StepInv

\* A selected vault is driven: its published row is its current one, which is witnessed.
LEMMA DriveInv ==
  ASSUME IInv, NEW p \in Readers, NEW v \in Vaults, Drive(p, v)
  PROVE  IInv'
<1> DEFINE c == [call[p] EXCEPT !.todo = @ \ {v}]
           k == IF call[p].todo = {v} THEN "get" ELSE "drive"
<1>0. /\ Types /\ Known /\ CallSound(p) /\ call[p] \in Calls
      /\ call[p].query.vaults \subseteq Vaults /\ seen[p] \in [Vaults -> SUBSET RowValues]
      /\ seen = [seen EXCEPT ![p] = seen[p]] /\ call[p].query \in QueryType
      /\ \A w \in Vaults : call[p].signals[w] \in Nat /\ call[p].signals[w] <= signalSeq
      /\ now \in Nat /\ signalSeq \in Nat
  BY Reader
<1>1. /\ call' = [call EXCEPT ![p] = c] /\ pc' = [pc EXCEPT ![p] = k]
      /\ UNCHANGED <<now, source, seen>> /\ UNCHANGED cacheVars
      /\ pc[p] = "drive" /\ ListVault(v) /\ v \in call[p].todo
  BY <1>0 DEF Drive, Visit
<1>2. Publishes /\ rows'[v] = source[v] /\ CacheStep
  BY <1>0, <1>1, ListVaultPublishes, CacheKept
<1>3. /\ c \in Calls /\ k \in Positions
      /\ c.query = call[p].query /\ c.todo = call[p].todo \ {v}
      /\ c.started = call[p].started /\ c.signals = call[p].signals
  BY <1>0 DEF Calls, Positions
<1> HIDE DEF c
<1>5. call'[p] = c /\ pc'[p] = k /\ seen'[p] = seen[p]
  BY <1>0, <1>1 DEF Types
<1>6. Driven(p)' \subseteq Driven(p) \cup {v} /\ Projected(p)' = {} /\ RowsRead(p)' = {}
  BY <1>0, <1>1, <1>3, <1>5 DEF Driven, Projected, RowsRead
<1>7. Witnessed(p)'
  <2>1. \A w \in Driven(p) : w \in Vaults /\ rows[w] \in seen[p][w] /\ source[w] \in seen[p][w]
    BY <1>0, <1>1 DEF CallSound, Witnessed, Driven
  <2>2. source[v] \in seen[p][v] /\ \A w \in Vaults : source'[w] \in seen'[p][w]
    BY <1>0, <1>1 DEF CallSound, Witnessed
  <2>3. \A w \in Driven(p)' : rows'[w] \in seen'[p][w]
    BY <1>1, <1>2, <1>6, <2>1, <2>2 DEF Publishes
  <2> QED
    BY <2>2, <2>3 DEF Witnessed
<1>8. CallSound(p)'
  BY <1>0, <1>1, <1>3, <1>5, <1>6, <1>7
  DEF CallSound, Ordered, ProjectedSound, BoundarySound, Served
<1>9. LookupSound(p)'
  BY <1>5 DEF LookupSound
<1>10. \A w \in Vaults : c.signals[w] <= signalSeq'
  BY <1>0, <1>2, <1>3 DEF Publishes
<1>11. seen' = [seen EXCEPT ![p] = seen[p]]
  BY <1>0, <1>1
<1> QED
  BY <1>0, <1>1, <1>2, <1>3, <1>8, <1>9, <1>10, <1>11, StepInv

\* Get reads the clock and the signals.
LEMMA ReadSignalsInv ==
  ASSUME IInv, NEW p \in Readers, ReadSignals(p)
  PROVE  IInv'
<1> DEFINE c == [call[p] EXCEPT !.now = now, !.signals = Signals(call[p].query.vaults)]
<1>0. /\ Types /\ Known /\ CallSound(p) /\ call[p] \in Calls
      /\ call[p].query.vaults \subseteq Vaults /\ seen[p] \in [Vaults -> SUBSET RowValues]
      /\ seen = [seen EXCEPT ![p] = seen[p]] /\ call[p].query \in QueryType
      /\ now \in Nat /\ signalSeq \in Nat
  BY Reader
<1>1. /\ call' = [call EXCEPT ![p] = c] /\ pc' = [pc EXCEPT ![p] = "lookup"]
      /\ UNCHANGED <<now, source, seen, rows>> /\ UNCHANGED storeVars /\ UNCHANGED cacheVars
      /\ pc[p] = "get"
  BY <1>0 DEF ReadSignals, storeVars
<1>2. Publishes /\ CacheStep /\ signalSeq' = signalSeq /\ entries' = entries
      /\ recency' = recency
  BY <1>0, <1>1, StillPublishes, CacheKept DEF storeVars, cacheVars
<1>3. /\ Signals(call[p].query.vaults) \in Signal
      /\ \A v \in Vaults : Signals(call[p].query.vaults)[v] <= signalSeq
      /\ \A v \in call[p].query.vaults : Signals(call[p].query.vaults)[v] = signal[v]
  BY <1>0, SignalsFacts
<1>4. /\ c \in Calls
      /\ c.query = call[p].query /\ c.todo = call[p].todo /\ c.started = call[p].started
      /\ c.now = now /\ c.signals = Signals(call[p].query.vaults)
  BY <1>0, <1>3 DEF Calls
<1> HIDE DEF c
<1>5. call'[p] = c /\ pc'[p] = "lookup" /\ seen'[p] = seen[p]
  BY <1>0, <1>1 DEF Types
<1>6. Driven(p)' = Driven(p) /\ Projected(p)' = {} /\ RowsRead(p)' = {}
  BY <1>1, <1>4, <1>5 DEF Driven, Projected, RowsRead
<1>7. CallSound(p)'
  BY <1>0, <1>1, <1>4, <1>5, <1>6
  DEF CallSound, Ordered, Witnessed, ProjectedSound, BoundarySound, Served
<1>8. LookupSound(p)'
  <2> SUFFICES ASSUME Held(c.query), NEW v \in c.query.vaults,
                      entries[c.query].signals[v] = c.signals[v]
               PROVE  \E r \in seen[p][v] :
                        Renders(entries[c.query], c.query.upcoming, v, r, now)
    BY <1>1, <1>2, <1>5 DEF LookupSound, Held
  <2>1. c.query \in Queries /\ HeldSound(c.query)
    BY <1>0, <1>1, <1>4 DEF IInv, CallSound, Ordered
  <2>2. Renders(entries[c.query], c.query.upcoming, v, rows[v], now)
    BY <1>3, <1>4, <2>1 DEF HeldSound
  <2>3. rows[v] \in seen[p][v]
    BY <1>0, <1>1, <1>4 DEF CallSound, Witnessed, Driven
  <2> QED
    BY <2>2, <2>3
<1>9. \A v \in Vaults : c.signals[v] <= signalSeq'
  BY <1>2, <1>3, <1>4
<1>10. "lookup" \in Positions /\ seen' = [seen EXCEPT ![p] = seen[p]]
  BY <1>0, <1>1 DEF Positions
<1> QED
  BY <1>0, <1>1, <1>2, <1>4, <1>7, <1>8, <1>9, <1>10, StepInv

\* A held body is served: it shows a row of the call as of a moment of the call.
LEMMA HitInv ==
  ASSUME IInv, NEW p \in Readers, Hit(p)
  PROVE  IInv'
<1> DEFINE e == entries[call[p].query]
           c == [call[p] EXCEPT !.body = e.body, !.now = e.built, !.signals = NoCall.signals]
<1>0. /\ Types /\ Known /\ CallSound(p) /\ LookupSound(p) /\ call[p] \in Calls
      /\ call[p].query.vaults \subseteq Vaults /\ seen[p] \in [Vaults -> SUBSET RowValues]
      /\ seen = [seen EXCEPT ![p] = seen[p]] /\ call[p].query \in QueryType
      /\ call[p].query.upcoming \in Nat
      /\ \A w \in Vaults : call[p].signals[w] \in Nat /\ call[p].signals[w] <= signalSeq
      /\ now \in Nat /\ signalSeq \in Nat
  BY Reader
<1>1. /\ call' = [call EXCEPT ![p] = c] /\ pc' = [pc EXCEPT ![p] = "return"]
      /\ UNCHANGED <<now, source, seen, rows>> /\ UNCHANGED storeVars /\ entries' = entries
      /\ recency' = Append(Without(call[p].query), call[p].query)
      /\ pc[p] = "lookup" /\ Good(call[p])
  BY <1>0 DEF Hit, storeVars
<1>2. PICK q \in Queries : q = call[p].query
  BY <1>0, <1>1 DEF CallSound, Ordered
<1>3. /\ e \in Entries /\ e = entries[q] /\ e.body \in Bodies /\ e.built \in Nat
      /\ Held(q) /\ e.signals = call[p].signals /\ Unexpired(e, call[p].now)
  BY <1>0, <1>1, <1>2 DEF Types, Entries, Good
<1>4. /\ c \in Calls /\ c.query = q /\ c.todo = call[p].todo /\ c.started = call[p].started
      /\ c.now = e.built /\ c.body = e.body /\ c.signals = NoCall.signals
  BY <1>0, <1>2, <1>3, NoneTypes DEF Calls
<1> HIDE DEF c, e
<1>5. Publishes
  BY <1>0, <1>1, StillPublishes
<1>6. CacheStep
  <2>1. /\ recency' \in Seq(Queries) /\ Distinct(recency') /\ Len(recency') = Len(recency)
        /\ \A x : In(x, recency') => Held(x) \/ x = q
    BY <1>0, <1>1, <1>2, <1>3, TouchFacts
  <2>2. entries \in [Queries -> Entries] /\ Len(recency) <= MaxEntries
    BY <1>0 DEF Types
  <2> QED
    BY <1>1, <1>3, <2>1, <2>2 DEF CacheStep
<1>7. call'[p] = c /\ pc'[p] = "return" /\ seen'[p] = seen[p]
  BY <1>0, <1>1 DEF Types
<1>8. ASSUME NEW v \in q.vaults
      PROVE  \/ \E r \in seen[p][v], t \in c.started .. now : c.body[v] = Response(r, t, q.upcoming)
             \/ AgesOutAt(c.body[v], c.now)
  <2>1. v \in Vaults /\ q.upcoming \in Nat
    BY <1>0, <1>2
  <2>2. PICK r \in seen[p][v] : Renders(e, q.upcoming, v, r, now)
    BY <1>0, <1>1, <1>2, <1>3 DEF LookupSound
  <2>3. PICK t \in e.built .. now : e.body[v] = Response(r, t, q.upcoming)
    BY <2>2 DEF Renders
  <2>4. PICK b \in Nat, n \in Nat : /\ b = call[p].started /\ n = call[p].now
                                    /\ b <= n /\ n <= now
    BY <1>0, <1>1 DEF CallSound, Ordered, Calls
  <2>5. t \in Int /\ t <= now
    BY <1>0, <1>3
  <2>6. CASE b <= t
    <3>1. t \in c.started .. now
      BY <1>0, <1>4, <2>4, <2>5, <2>6
    <3> QED
      BY <1>4, <2>3, <3>1
  <2>7. CASE ~(b <= t)
    <3>1. t <= n /\ n \in c.started .. now
      BY <1>0, <1>4, <2>4, <2>5, <2>7
    <3>2. r \in RowType
      BY <1>0, <2>1, RowTypes
    <3>3. e.body[v] = Response(r, n, q.upcoming) \/ AgesOutAt(e.body[v], e.built)
      BY <1>0, <1>3, <2>1, <2>2, <2>3, <2>4, <3>1, <3>2, StillShown DEF Renders
    <3> QED
      BY <1>4, <3>1, <3>3
  <2> QED
    BY <2>6, <2>7
<1>9. Driven(p)' = Driven(p) /\ Projected(p)' = {} /\ RowsRead(p)' = {}
  BY <1>1, <1>2, <1>4, <1>7 DEF Driven, Projected, RowsRead
<1>10. Served(p)'
  BY <1>1, <1>4, <1>7, <1>8 DEF Served
<1>11. CallSound(p)'
  BY <1>0, <1>1, <1>2, <1>4, <1>7, <1>9, <1>10
  DEF CallSound, Ordered, Witnessed, ProjectedSound, BoundarySound
<1>12. LookupSound(p)'
  BY <1>7 DEF LookupSound
<1>13. \A v \in Vaults : c.signals[v] <= signalSeq'
  BY <1>0, <1>1, <1>4, NoneTypes DEF storeVars
<1>14. "return" \in Positions /\ seen' = [seen EXCEPT ![p] = seen[p]]
  BY <1>0, <1>1 DEF Positions
<1> QED
  BY <1>0, <1>1, <1>4, <1>5, <1>6, <1>11, <1>12, <1>13, <1>14, StepInv

\* No body is good: the held one is dropped.
LEMMA MissInv ==
  ASSUME IInv, NEW p \in Readers, Miss(p)
  PROVE  IInv'
<1> DEFINE c == [call[p] EXCEPT !.projectedAt = now, !.todo = call[p].query.vaults]
           k == IF call[p].query.vaults = {} THEN "store" ELSE "project"
<1>0. /\ Types /\ Known /\ CallSound(p) /\ LookupSound(p) /\ call[p] \in Calls
      /\ call[p].query.vaults \subseteq Vaults /\ seen[p] \in [Vaults -> SUBSET RowValues]
      /\ seen = [seen EXCEPT ![p] = seen[p]] /\ call[p].query \in QueryType
      /\ call[p].query.upcoming \in Nat
      /\ \A w \in Vaults : call[p].signals[w] \in Nat /\ call[p].signals[w] <= signalSeq
      /\ now \in Nat /\ signalSeq \in Nat
  BY Reader
<1>1. /\ call' = [call EXCEPT ![p] = c] /\ pc' = [pc EXCEPT ![p] = k]
      /\ UNCHANGED <<now, source, seen, rows>> /\ UNCHANGED storeVars
      /\ entries' = [entries EXCEPT ![call[p].query] = NoEntry]
      /\ recency' = Without(call[p].query) /\ pc[p] = "lookup"
  BY <1>0 DEF Miss, storeVars
<1>2. PICK q \in Queries : q = call[p].query
  BY <1>0, <1>1 DEF CallSound, Ordered
<1>3. /\ c \in Calls /\ c.query = q /\ c.todo = q.vaults /\ c.started = call[p].started
      /\ c.now = call[p].now /\ c.projectedAt = now /\ c.signals = call[p].signals
  BY <1>0, <1>2 DEF Calls
<1>4. Publishes
  BY <1>0, <1>1, StillPublishes
<1>5. CacheStep
  <2>1. /\ recency' \in Seq(Queries) /\ Distinct(recency') /\ ~In(q, recency')
        /\ Len(recency') = IF Held(q) THEN Len(recency) - 1 ELSE Len(recency)
        /\ \A x : In(x, recency') => Held(x)
    BY <1>0, <1>1, <1>2, WithoutFacts
  <2>2. Len(recency) \in Nat /\ Len(recency) <= MaxEntries /\ MaxEntries \in Nat
    BY <1>0, TaskBodyAssumption DEF Types
  <2>3. Len(recency') <= MaxEntries
    BY <2>1, <2>2
  <2>4. /\ entries' \in [Queries -> Entries]
        /\ \A x \in Queries : entries'[x] = IF x = q THEN NoEntry ELSE entries[x]
    BY <1>0, <1>1, <1>2, NoneTypes DEF Types
  <2> QED
    BY <2>1, <2>3, <2>4 DEF CacheStep
<1> HIDE DEF c
<1>6. call'[p] = c /\ pc'[p] = k /\ seen'[p] = seen[p]
  BY <1>0, <1>1 DEF Types
<1>7. Driven(p)' = Driven(p) /\ Projected(p)' = {} /\ RowsRead(p)' = {}
  BY <1>1, <1>2, <1>3, <1>6 DEF Driven, Projected, RowsRead
<1>8. Ordered(p)'
  BY <1>0, <1>1, <1>2, <1>3, <1>6 DEF CallSound, Ordered, Calls
<1>9. CallSound(p)'
  BY <1>0, <1>1, <1>6, <1>7, <1>8
  DEF CallSound, Witnessed, ProjectedSound, BoundarySound, Served
<1>10. LookupSound(p)'
  BY <1>6 DEF LookupSound
<1>11. \A v \in Vaults : c.signals[v] <= signalSeq'
  BY <1>0, <1>1, <1>3 DEF storeVars
<1>12. k \in Positions /\ seen' = [seen EXCEPT ![p] = seen[p]]
  BY <1>0, <1>1 DEF Positions
<1> QED
  BY <1>0, <1>1, <1>3, <1>4, <1>5, <1>9, <1>10, <1>11, <1>12, StepInv

\* A reader that ends its call keeps nothing.
LEMMA GoneInv ==
  ASSUME IInv, NEW p \in Readers,
         call' = [call EXCEPT ![p] = NoCall], pc' = [pc EXCEPT ![p] = "idle"],
         seen' = [seen EXCEPT ![p] = [v \in Vaults |-> {}]],
         UNCHANGED <<now, source>>, UNCHANGED storeVars, UNCHANGED cacheVars
  PROVE  IInv'
<1>0. /\ Types /\ Known /\ CallSound(p) /\ LookupSound(p) /\ call[p] \in Calls
      /\ call[p].query.vaults \subseteq Vaults /\ seen[p] \in [Vaults -> SUBSET RowValues]
      /\ seen = [seen EXCEPT ![p] = seen[p]] /\ call[p].query \in QueryType
      /\ call[p].query.upcoming \in Nat
      /\ \A w \in Vaults : call[p].signals[w] \in Nat /\ call[p].signals[w] <= signalSeq
      /\ now \in Nat /\ signalSeq \in Nat
  BY Reader
<1>1. Publishes /\ CacheStep /\ signalSeq' = signalSeq
  BY <1>0, StillPublishes, CacheKept DEF storeVars
<1>2. call'[p] = NoCall /\ pc'[p] = "idle"
  BY <1>0 DEF Types
<1>3. Driven(p)' = {} /\ Projected(p)' = {} /\ RowsRead(p)' = {}
  BY <1>2 DEF Driven, Projected, RowsRead
<1>4. CallSound(p)'
  BY <1>0, <1>2, <1>3
  DEF CallSound, Ordered, Witnessed, ProjectedSound, BoundarySound, Served, NoCall
<1>5. LookupSound(p)'
  BY <1>2 DEF LookupSound
<1>6. /\ NoCall \in Calls /\ \A v \in Vaults : NoCall.signals[v] <= signalSeq'
      /\ "idle" \in Positions /\ [v \in Vaults |-> {}] \in [Vaults -> SUBSET RowValues]
  BY <1>0, <1>1, NoneTypes DEF Positions
<1> QED
  BY <1>1, <1>4, <1>5, <1>6, StepInv

\* A failing request, ...
LEMMA FailGetInv ==
  ASSUME IInv, NEW p \in Readers, FailGet(p)
  PROVE  IInv'
BY GoneInv DEF FailGet

\* ... and one that is answered.
LEMMA ReturnInv ==
  ASSUME IInv, NEW p \in Readers, Return(p)
  PROVE  IInv'
BY GoneInv DEF Return

\* One vault more is projected.
LEMMA ProjectInv ==
  ASSUME IInv, NEW p \in Readers, NEW v \in Vaults, Project(p, v)
  PROVE  IInv'
<1> DEFINE shown == Response(rows'[v], call[p].projectedAt, call[p].query.upcoming)
           left == IF call[p].todo = {v} THEN call[p].query.vaults ELSE call[p].todo \ {v}
           c == [call[p] EXCEPT !.todo = left, !.body[v] = shown]
           k == IF call[p].todo = {v} THEN "rows" ELSE "project"
<1>0. /\ Types /\ Known /\ CallSound(p) /\ LookupSound(p) /\ call[p] \in Calls
      /\ call[p].query.vaults \subseteq Vaults /\ seen[p] \in [Vaults -> SUBSET RowValues]
      /\ seen = [seen EXCEPT ![p] = seen[p]] /\ call[p].query \in QueryType
      /\ call[p].query.upcoming \in Nat
      /\ \A w \in Vaults : call[p].signals[w] \in Nat /\ call[p].signals[w] <= signalSeq
      /\ now \in Nat /\ signalSeq \in Nat
  BY Reader
<1>1. /\ call' = [call EXCEPT ![p] = c] /\ pc' = [pc EXCEPT ![p] = k]
      /\ UNCHANGED <<now, source, seen>> /\ UNCHANGED cacheVars
      /\ pc[p] = "project" /\ ListVault(v) /\ v \in call[p].todo
  BY <1>0 DEF Project, Visit
<1>2. Publishes /\ rows'[v] = source[v] /\ CacheStep
  BY <1>0, <1>1, ListVaultPublishes, CacheKept
<1>3. /\ call[p].projectedAt \in Nat /\ call[p].body \in Bodies
      /\ call[p].todo \subseteq call[p].query.vaults /\ left \in SUBSET Vaults
      /\ left \subseteq call[p].query.vaults
  BY <1>0 DEF Calls, CallSound, Ordered
<1>4. [call[p].body EXCEPT ![v] = shown] \in Bodies
  <2>1. rows'[v] \in RowValues \cup {NoRow}
    BY <1>2 DEF Publishes
  <2>2. shown \in [shown : {"hidden", "plain", "upcoming", "recent"},
                   row : RowValues \cup {NoRow}]
    BY <1>0, <1>3, <2>1, ResponseType
  <2> QED
    BY <1>3, <2>2 DEF Bodies
<1> HIDE DEF shown, left
<1>5. /\ c \in Calls /\ c.query = call[p].query /\ c.todo = left
      /\ c.started = call[p].started /\ c.now = call[p].now
      /\ c.projectedAt = call[p].projectedAt /\ c.signals = call[p].signals
      /\ c.body = [call[p].body EXCEPT ![v] = shown]
  BY <1>0, <1>3, <1>4 DEF Calls
<1> HIDE DEF c
<1>6. call'[p] = c /\ pc'[p] = k /\ seen'[p] = seen[p]
  BY <1>0, <1>1 DEF Types
<1>7. /\ c.body[v] = shown
      /\ \A w \in Vaults : w # v => c.body[w] = call[p].body[w]
  BY <1>3, <1>5 DEF Bodies
<1>8. Driven(p)' = Driven(p) /\ Projected(p)' \subseteq Projected(p) \cup {v} /\ RowsRead(p)' = {}
  BY <1>1, <1>3, <1>5, <1>6 DEF Driven, Projected, RowsRead, left
<1>9. Ordered(p)'
  BY <1>0, <1>1, <1>3, <1>5, <1>6 DEF CallSound, Ordered
<1>10. \A w \in Driven(p) : w \in Vaults /\ rows[w] \in seen[p][w] /\ source[w] \in seen[p][w]
  BY <1>0, <1>1 DEF CallSound, Witnessed, Driven
<1>11. Witnessed(p)'
  <2>1. \A w \in Driven(p)' : rows'[w] \in seen'[p][w]
    BY <1>1, <1>2, <1>8, <1>10 DEF Publishes
  <2> QED
    BY <1>0, <1>1, <2>1 DEF CallSound, Witnessed
<1>12. ProjectedSound(p)'
  <2> SUFFICES ASSUME NEW w \in Projected(p)'
               PROVE  /\ \E r \in seen[p][w] :
                           c.body[w] = Response(r, c.projectedAt, c.query.upcoming)
                      /\ c.signals[w] = signal'[w] =>
                           c.body[w] = Response(rows'[w], c.projectedAt, c.query.upcoming)
    BY <1>1, <1>6 DEF ProjectedSound
  <2>1. CASE w = v
    <3>1. c.body[w] = Response(rows'[w], c.projectedAt, c.query.upcoming)
      BY <1>5, <1>7, <2>1 DEF shown
    <3>2. rows'[w] \in seen[p][w]
      BY <1>0, <1>1, <1>2, <2>1 DEF CallSound, Witnessed
    <3> QED
      BY <3>1, <3>2
  <2>2. CASE w # v
    <3>1. w \in Projected(p) /\ w \in Vaults
      BY <1>0, <1>8, <2>2 DEF Projected
    <3>2. c.body[w] = call[p].body[w]
      BY <1>7, <2>2, <3>1
    <3>3. c.signals[w] = signal'[w] => call[p].signals[w] = signal[w] /\ rows'[w] = rows[w]
      BY <1>0, <1>2, <1>5, <3>1 DEF Publishes
    <3> QED
      BY <1>0, <1>5, <3>1, <3>2, <3>3 DEF CallSound, ProjectedSound
  <2> QED
    BY <2>1, <2>2
<1>13. CallSound(p)'
  BY <1>6, <1>8, <1>9, <1>11, <1>12 DEF CallSound, BoundarySound, Served
<1>14. LookupSound(p)'
  BY <1>6 DEF LookupSound
<1>15. \A w \in Vaults : c.signals[w] <= signalSeq'
  BY <1>0, <1>2, <1>5 DEF Publishes
<1>16. k \in Positions /\ seen' = [seen EXCEPT ![p] = seen[p]]
  BY <1>0, <1>1 DEF Positions
<1> QED
  BY <1>0, <1>1, <1>2, <1>5, <1>13, <1>14, <1>15, <1>16, StepInv

\* The rows of one vault more are read for the boundary.
LEMMA ReadRowsInv ==
  ASSUME IInv, NEW p \in Readers, NEW v \in Vaults, ReadRows(p, v)
  PROVE  IInv'
<1> DEFINE more == Instants(rows'[v], call[p].query.upcoming)
           c == [call[p] EXCEPT !.todo = call[p].todo \ {v}, !.boundary = call[p].boundary \cup more]
           k == IF call[p].todo = {v} THEN "store" ELSE "rows"
<1>0. /\ Types /\ Known /\ CallSound(p) /\ LookupSound(p) /\ call[p] \in Calls
      /\ call[p].query.vaults \subseteq Vaults /\ seen[p] \in [Vaults -> SUBSET RowValues]
      /\ seen = [seen EXCEPT ![p] = seen[p]] /\ call[p].query \in QueryType
      /\ call[p].query.upcoming \in Nat
      /\ \A w \in Vaults : call[p].signals[w] \in Nat /\ call[p].signals[w] <= signalSeq
      /\ now \in Nat /\ signalSeq \in Nat
  BY Reader
<1>1. /\ call' = [call EXCEPT ![p] = c] /\ pc' = [pc EXCEPT ![p] = k]
      /\ UNCHANGED <<now, source, seen>> /\ UNCHANGED cacheVars
      /\ pc[p] = "rows" /\ ListVault(v) /\ v \in call[p].todo
  BY <1>0 DEF ReadRows, Visit
<1>2. Publishes /\ rows'[v] = source[v] /\ CacheStep
  BY <1>0, <1>1, ListVaultPublishes, CacheKept
<1>3. more \subseteq Int
  <2>1. rows'[v] \in RowType
    BY <1>2, RowTypes DEF Publishes
  <2> QED
    BY <1>0, <2>1, InstantsType
<1>4. call[p].todo \subseteq call[p].query.vaults /\ call[p].boundary \cup more \in SUBSET Int
  BY <1>0, <1>3 DEF Calls, CallSound, Ordered
<1> HIDE DEF more
<1>5. /\ c \in Calls /\ c.query = call[p].query /\ c.todo = call[p].todo \ {v}
      /\ c.started = call[p].started /\ c.now = call[p].now
      /\ c.projectedAt = call[p].projectedAt /\ c.signals = call[p].signals
      /\ c.body = call[p].body /\ c.boundary = call[p].boundary \cup more
  BY <1>0, <1>4 DEF Calls
<1> HIDE DEF c
<1>6. call'[p] = c /\ pc'[p] = k /\ seen'[p] = seen[p]
  BY <1>0, <1>1 DEF Types
<1>7. /\ Driven(p)' = Driven(p) /\ Projected(p)' = Projected(p)
      /\ RowsRead(p)' \subseteq RowsRead(p) \cup {v}
  BY <1>1, <1>4, <1>5, <1>6 DEF Driven, Projected, RowsRead
<1>8. Ordered(p)'
  BY <1>0, <1>1, <1>4, <1>5, <1>6 DEF CallSound, Ordered
<1>9. \A w \in Driven(p) : w \in Vaults /\ rows[w] \in seen[p][w] /\ source[w] \in seen[p][w]
  BY <1>0, <1>1 DEF CallSound, Witnessed, Driven
<1>10. Witnessed(p)'
  <2>1. \A w \in Driven(p)' : rows'[w] \in seen'[p][w]
    BY <1>1, <1>2, <1>7, <1>9 DEF Publishes
  <2> QED
    BY <1>0, <1>1, <2>1 DEF CallSound, Witnessed
<1>11. \A w \in Vaults : c.signals[w] = signal'[w] =>
                           call[p].signals[w] = signal[w] /\ rows'[w] = rows[w]
  BY <1>0, <1>2, <1>5 DEF Publishes
<1>12. Projected(p) \subseteq Vaults /\ RowsRead(p) \subseteq Vaults
  BY <1>0 DEF Projected, RowsRead
<1>13. ProjectedSound(p)'
  BY <1>0, <1>1, <1>5, <1>6, <1>7, <1>11, <1>12 DEF CallSound, ProjectedSound
<1>14. BoundarySound(p)'
  <2> SUFFICES ASSUME NEW w \in RowsRead(p)', c.signals[w] = signal'[w]
               PROVE  Instants(rows'[w], c.query.upcoming) \subseteq c.boundary
    BY <1>6 DEF BoundarySound
  <2>1. CASE w = v
    BY <1>5, <2>1 DEF more
  <2>2. CASE w # v
    <3>1. w \in RowsRead(p) /\ call[p].signals[w] = signal[w] /\ rows'[w] = rows[w]
      BY <1>7, <1>11, <1>12, <2>2
    <3> QED
      BY <1>0, <1>5, <3>1 DEF CallSound, BoundarySound
  <2> QED
    BY <2>1, <2>2
<1>15. CallSound(p)'
  BY <1>6, <1>8, <1>10, <1>13, <1>14 DEF CallSound, Served
<1>16. LookupSound(p)'
  BY <1>6 DEF LookupSound
<1>17. \A w \in Vaults : c.signals[w] <= signalSeq'
  BY <1>0, <1>2, <1>5 DEF Publishes
<1>18. k \in Positions /\ seen' = [seen EXCEPT ![p] = seen[p]]
  BY <1>0, <1>1 DEF Positions
<1> QED
  BY <1>0, <1>1, <1>2, <1>5, <1>15, <1>16, <1>17, <1>18, StepInv

\* A body whose signals have not moved renders the published rows.
LEMMA BuiltRenders ==
  ASSUME IInv, NEW p \in Readers, pc[p] = "store", Holds(call[p]),
         NEW e, e.body = call[p].body, e.built = call[p].now,
         e.expiresAt = Boundary(call[p].boundary, call[p].now),
         NEW v \in call[p].query.vaults
  PROVE  Renders(e, call[p].query.upcoming, v, rows[v], now)
<1>0. /\ Types /\ Known /\ CallSound(p) /\ LookupSound(p) /\ call[p] \in Calls
      /\ call[p].query.vaults \subseteq Vaults /\ seen[p] \in [Vaults -> SUBSET RowValues]
      /\ seen = [seen EXCEPT ![p] = seen[p]] /\ call[p].query \in QueryType
      /\ call[p].query.upcoming \in Nat
      /\ \A w \in Vaults : call[p].signals[w] \in Nat /\ call[p].signals[w] <= signalSeq
      /\ now \in Nat /\ signalSeq \in Nat
  BY Reader
<1>1. v \in Projected(p) /\ v \in RowsRead(p)
  BY DEF Projected, RowsRead
<1>2. call[p].signals[v] = signal[v]
  BY <1>0, SignalsFacts DEF Holds
<1>3. /\ call[p].body[v] = Response(rows[v], call[p].projectedAt, call[p].query.upcoming)
      /\ Instants(rows[v], call[p].query.upcoming) \subseteq call[p].boundary
  BY <1>0, <1>1, <1>2 DEF CallSound, ProjectedSound, BoundarySound
<1>4. call[p].now \in Nat /\ call[p].boundary \in SUBSET Int /\ call[p].projectedAt \in Nat
  BY <1>0 DEF Calls
<1>5. call[p].projectedAt \in call[p].now .. now
  BY <1>0, <1>4 DEF CallSound, Ordered
<1>6. \A i \in call[p].boundary : i > e.built => e.expiresAt # Never /\ e.expiresAt <= i
  BY <1>4, BoundaryFacts
<1> QED
  BY <1>3, <1>5, <1>6 DEF Renders

\* The body is held, or not, and served.
LEMMA StoreInv ==
  ASSUME IInv, NEW p \in Readers, Store(p)
  PROVE  IInv'
<1> DEFINE e == [body |-> call[p].body, signals |-> Signals(call[p].query.vaults),
                 expiresAt |-> Boundary(call[p].boundary, call[p].now), built |-> call[p].now]
           c == [NoCall EXCEPT !.query = call[p].query, !.body = call[p].body,
                               !.now = call[p].now, !.started = call[p].started]
<1>0. /\ Types /\ Known /\ CallSound(p) /\ LookupSound(p) /\ call[p] \in Calls
      /\ call[p].query.vaults \subseteq Vaults /\ seen[p] \in [Vaults -> SUBSET RowValues]
      /\ seen = [seen EXCEPT ![p] = seen[p]] /\ call[p].query \in QueryType
      /\ call[p].query.upcoming \in Nat
      /\ \A w \in Vaults : call[p].signals[w] \in Nat /\ call[p].signals[w] <= signalSeq
      /\ now \in Nat /\ signalSeq \in Nat
  BY Reader
<1>1. /\ call' = [call EXCEPT ![p] = c] /\ pc' = [pc EXCEPT ![p] = "return"]
      /\ UNCHANGED <<now, source, seen, rows>> /\ UNCHANGED storeVars
      /\ pc[p] = "store"
  BY DEF Store, storeVars
<1>2. PICK q \in Queries : q = call[p].query
  BY <1>0, <1>1 DEF CallSound, Ordered
<1>3. /\ call[p].body \in Bodies /\ call[p].now \in Nat /\ call[p].started \in Nat
      /\ call[p].boundary \in SUBSET Int /\ call[p].projectedAt \in Nat
  BY <1>0 DEF Calls
<1>4. /\ c \in Calls /\ c.query = q /\ c.todo = {} /\ c.started = call[p].started
      /\ c.now = call[p].now /\ c.body = call[p].body /\ c.signals = NoCall.signals
  <2>1. NoCall \in Calls /\ NoCall.todo = {}
    BY NoneTypes DEF NoCall
  <2> QED
    BY <1>0, <1>2, <1>3, <2>1 DEF Calls
<1>5. Publishes
  BY <1>0, <1>1, StillPublishes
<1>6. CacheStep
  <2>1. CASE Holds(call[p]) /\ recency' = Evicted(q)
             /\ entries' = [x \in Queries |-> IF x = q THEN e
                              ELSE IF In(x, recency') THEN entries[x] ELSE NoEntry]
    <3>1. /\ recency' \in Seq(Queries) /\ Distinct(recency') /\ Len(recency') <= MaxEntries
          /\ \A x : In(x, recency') => Held(x) \/ x = q
      BY <1>0, <2>1, EvictedFacts
    <3>2. Signals(call[p].query.vaults) \in Signal
          /\ \A v \in Vaults : Signals(call[p].query.vaults)[v] <= signalSeq
      BY <1>0, SignalsFacts
    <3>3. Boundary(call[p].boundary, call[p].now) \in Int
      BY <1>3, BoundaryFacts
    <3>4. e \in Entries
      BY <1>3, <3>2, <3>3 DEF Entries
    <3>5. e.built <= now
      BY <1>0, <1>1, <1>3 DEF CallSound, Ordered
    <3>6. \A v \in q.vaults : Renders(e, q.upcoming, v, rows[v], now)
      BY <1>1, <1>2, <2>1, BuiltRenders
    <3>7. \A v \in Vaults : e.signals[v] <= signalSeq
      BY <3>2
    <3> HIDE DEF e
    <3>8. entries' \in [Queries -> Entries]
      BY <1>0, <2>1, <3>4, NoneTypes DEF Types
    <3>9. ASSUME NEW x \in Queries
          PROVE  \/ entries'[x] = entries[x] /\ (In(x, recency') => Held(x))
                 \/ entries'[x] = NoEntry /\ ~In(x, recency')
                 \/ x = q /\ entries'[x] = e
      BY <2>1, <3>1
    <3>10. UNCHANGED <<storeVars, now>>
      BY <1>1
    <3> QED
      BY <3>1, <3>5, <3>6, <3>7, <3>8, <3>9, <3>10 DEF CacheStep
  <2>2. CASE UNCHANGED cacheVars
    BY <1>0, <2>2, CacheKept
  <2> QED
    BY <1>2, <2>1, <2>2 DEF Store, In
<1> HIDE DEF c
<1>7. call'[p] = c /\ pc'[p] = "return" /\ seen'[p] = seen[p]
  BY <1>0, <1>1 DEF Types
<1>8. Driven(p)' = Driven(p) /\ Projected(p)' = {} /\ RowsRead(p)' = {}
  BY <1>1, <1>2, <1>4, <1>7 DEF Driven, Projected, RowsRead
<1>9. Served(p)'
  <2>1. call[p].projectedAt \in c.started .. now
    BY <1>0, <1>1, <1>3, <1>4 DEF CallSound, Ordered
  <2>2. \A v \in q.vaults : \E r \in seen[p][v] :
          c.body[v] = Response(r, call[p].projectedAt, q.upcoming)
    BY <1>0, <1>1, <1>2, <1>4 DEF CallSound, ProjectedSound, Projected
  <2> QED
    BY <1>1, <1>4, <1>7, <2>1, <2>2 DEF Served
<1>10. CallSound(p)'
  BY <1>0, <1>1, <1>2, <1>4, <1>7, <1>8, <1>9
  DEF CallSound, Ordered, Witnessed, ProjectedSound, BoundarySound
<1>11. LookupSound(p)'
  BY <1>7 DEF LookupSound
<1>12. \A v \in Vaults : c.signals[v] <= signalSeq'
  BY <1>0, <1>1, <1>4, NoneTypes DEF storeVars
<1>13. "return" \in Positions /\ seen' = [seen EXCEPT ![p] = seen[p]]
  BY <1>0, <1>1 DEF Positions
<1> QED
  BY <1>0, <1>1, <1>4, <1>5, <1>6, <1>10, <1>11, <1>12, <1>13, StepInv

\* A step of the environment, which leaves the readers and the cache alone.
LEMMA EnvironmentInv ==
  ASSUME IInv, UNCHANGED <<storeVars, cacheVars, pc, call>>, now' \in Nat, now <= now',
         source' \in [Vaults -> RowValues],
         seen' \in [Readers -> [Vaults -> SUBSET RowValues]],
         \A p \in Readers, v \in Vaults :
           /\ seen[p][v] \subseteq seen'[p][v]
           /\ pc[p] # "idle" => source'[v] \in seen'[p][v]
  PROVE  IInv'
<1>1. Types /\ Known
  BY DEF IInv
<1>2. Publishes /\ CacheStep /\ Types' /\ Known'
  <2>1. Publishes
    BY <1>1, StillPublishes
  <2>2. CacheStep
    BY <1>1, CacheKept
  <2>3. Types'
    BY <1>1 DEF Types, storeVars, cacheVars
  <2>4. Known'
    BY <1>1 DEF Known, storeVars, cacheVars
  <2> QED
    BY <2>1, <2>2, <2>3, <2>4
<1>3. \A q \in Queries : HeldSound(q)'
  BY <1>1, <1>2, HeldKept DEF IInv
<1>4. ASSUME NEW p \in Readers PROVE CallSound(p)' /\ LookupSound(p)'
  <2>1. CallSound(p) /\ LookupSound(p)
    BY DEF IInv
  <2>2. CallSound(p)'
    BY <1>1, <1>2, <2>1, CallKept
  <2>3. LookupSound(p)'
    BY <1>1, <1>2, <2>1, LookupKept
  <2> QED
    BY <2>2, <2>3
<1> QED
  BY <1>2, <1>3, <1>4 DEF IInv

\* The clock moves.
LEMMA TickInv ==
  ASSUME IInv, Tick
  PROVE  IInv'
<1>1. Types /\ \A p \in Readers : Witnessed(p)
  BY DEF IInv, CallSound
<1>2. now' \in Nat /\ now <= now'
  BY <1>1 DEF Tick, Types
<1>3. source' \in [Vaults -> RowValues] /\ seen' \in [Readers -> [Vaults -> SUBSET RowValues]]
  BY <1>1 DEF Tick, Types
<1>4. \A p \in Readers, v \in Vaults :
        /\ seen[p][v] \subseteq seen'[p][v]
        /\ pc[p] # "idle" => source'[v] \in seen'[p][v]
  BY <1>1 DEF Tick, Witnessed
<1> QED
  BY <1>2, <1>3, <1>4, EnvironmentInv DEF Tick

\* A vault's row changes: every open call witnesses it.
LEMMA ChangeRowInv ==
  ASSUME IInv, NEW v \in Vaults, NEW r \in RowValues, ChangeRow(v, r)
  PROVE  IInv'
<1>1. Types /\ \A p \in Readers : Witnessed(p)
  BY DEF IInv, CallSound
<1>2. now' \in Nat /\ now <= now'
  BY <1>1 DEF ChangeRow, Types
<1>3. source' = [source EXCEPT ![v] = r] /\ source' \in [Vaults -> RowValues]
  BY <1>1 DEF ChangeRow, Types
<1>4. \A p \in Readers : /\ seen'[p] = IF pc[p] = "idle" THEN seen[p]
                                       ELSE [seen[p] EXCEPT ![v] = seen[p][v] \cup {r}]
                         /\ seen[p] \in [Vaults -> SUBSET RowValues]
  BY <1>1 DEF ChangeRow, Types
<1>5. seen' \in [Readers -> [Vaults -> SUBSET RowValues]]
  <2>1. ASSUME NEW p \in Readers PROVE seen'[p] \in [Vaults -> SUBSET RowValues]
    <3>1. seen[p][v] \cup {r} \in SUBSET RowValues
      BY <1>4
    <3>2. CASE pc[p] = "idle"
      BY <1>4, <3>2
    <3>3. CASE pc[p] # "idle"
      <4>1. seen'[p] = [seen[p] EXCEPT ![v] = seen[p][v] \cup {r}]
        BY <1>4, <3>3
      <4>2. seen[p] \in [Vaults -> SUBSET RowValues]
        BY <1>4
      <4> QED
        BY <3>1, <4>1, <4>2
    <3> QED
      BY <3>2, <3>3
  <2>2. seen' = [p \in Readers |-> seen'[p]]
    BY DEF ChangeRow
  <2> QED
    BY <2>1, <2>2
<1>6. ASSUME NEW p \in Readers, NEW w \in Vaults
      PROVE  /\ seen[p][w] \subseteq seen'[p][w]
             /\ pc[p] # "idle" => source'[w] \in seen'[p][w]
  <2>1. source \in [Vaults -> RowValues] /\ (pc[p] # "idle" => source[w] \in seen[p][w])
    BY <1>1 DEF Types, Witnessed
  <2>2. seen[p] \in [Vaults -> SUBSET RowValues]
    BY <1>4
  <2>3. CASE pc[p] = "idle"
    BY <1>4, <2>3
  <2>4. CASE pc[p] # "idle"
    <3>1. seen'[p] = [seen[p] EXCEPT ![v] = seen[p][v] \cup {r}]
      BY <1>4, <2>4
    <3>2. seen'[p][w] = IF w = v THEN seen[p][w] \cup {r} ELSE seen[p][w]
      BY <2>2, <3>1
    <3>3. source'[w] = IF w = v THEN r ELSE source[w]
      BY <1>3, <2>1
    <3> QED
      BY <2>1, <2>4, <3>2, <3>3
  <2> QED
    BY <2>3, <2>4
<1> QED
  BY <1>2, <1>3, <1>5, <1>6, EnvironmentInv DEF ChangeRow

\* Initially nothing is held and nobody asks.
LEMMA InitInv ==
  ASSUME Init
  PROVE  IInv
<1>1. NoCall \in Calls /\ NoEntry \in Entries
  BY NoneTypes
<1>2. /\ \A v \in Vaults : NoCall.signals[v] = 0 /\ NoEntry.signals[v] = 0
      /\ NoEntry.built = 0 /\ NoCall.todo = {} /\ NoCall.started = 0
  BY NoneTypes DEF NoCall, NoEntry
<1>3. Types
  <2>1. recency \in Seq(Queries) /\ Len(recency) <= MaxEntries /\ Distinct(recency)
    BY TaskBodyAssumption DEF Init, Distinct
  <2> QED
    BY <1>1, <2>1 DEF Init, Types, Signal, Positions
<1>4. Known
  BY <1>2 DEF Init, Known
<1>5. \A q \in Queries : HeldSound(q)
  BY <1>2 DEF Init, HeldSound, Held
<1>6. ASSUME NEW p \in Readers PROVE CallSound(p) /\ LookupSound(p)
  <2>1. Driven(p) = {} /\ Projected(p) = {} /\ RowsRead(p) = {} /\ pc[p] = "idle"
        /\ call[p] = NoCall /\ now = 0
    BY <1>6 DEF Init, Driven, Projected, RowsRead
  <2> QED
    BY <1>2, <2>1 DEF CallSound, Ordered, Witnessed, ProjectedSound, BoundarySound, Served,
                      LookupSound
<1> QED
  BY <1>3, <1>4, <1>5, <1>6 DEF IInv

\* Every step keeps the invariant.
LEMMA NextInv ==
  ASSUME IInv, [Next]_vars
  PROVE  IInv'
<1>1. ASSUME NEW p \in Readers, Step(p) PROVE IInv'
  BY <1>1, ReadSignalsInv, HitInv, MissInv, FailGetInv, StoreInv, ReturnInv, DriveInv,
     ProjectInv, ReadRowsInv DEF Step
<1>2. ASSUME NEW p \in Readers, NEW q \in Queries, Begin(p, q) PROVE IInv'
  BY <1>2, BeginInv
<1>3. CASE Tick
  BY <1>3, TickInv
<1>4. ASSUME NEW v \in Vaults, NEW r \in RowValues, ChangeRow(v, r) PROVE IInv'
  BY <1>4, ChangeRowInv
<1>5. CASE UNCHANGED vars
  <2>1. UNCHANGED <<storeVars, cacheVars, pc, call>> /\ now' = now /\ source' = source
        /\ seen' = seen
    BY <1>5 DEF vars
  <2>2. Types /\ \A p \in Readers : Witnessed(p)
    BY DEF IInv, CallSound
  <2>3. now' \in Nat /\ now <= now' /\ source' \in [Vaults -> RowValues]
        /\ seen' \in [Readers -> [Vaults -> SUBSET RowValues]]
    BY <2>1, <2>2 DEF Types
  <2>4. \A p \in Readers, v \in Vaults :
          /\ seen[p][v] \subseteq seen'[p][v]
          /\ pc[p] # "idle" => source'[v] \in seen'[p][v]
    BY <2>1, <2>2 DEF Witnessed
  <2> QED
    BY <2>1, <2>3, <2>4, EnvironmentInv
<1> QED
  BY <1>1, <1>2, <1>3, <1>4, <1>5 DEF Next

-----------------------------------------------------------------------------
(* The theorems *)

\* The invariant makes a held body current: its signals say that it renders the published
\* rows, its expiry that no instant of theirs has come since.
LEMMA InvHeldCurrent ==
  ASSUME IInv
  PROVE  HeldBodyCurrent
<1> SUFFICES ASSUME NEW q \in Queries, Held(q), entries[q].signals = Signals(q.vaults),
                    Unexpired(entries[q], now), NEW v \in q.vaults
             PROVE  \/ entries[q].body[v] = Response(rows[v], now, q.upcoming)
                    \/ AgesOutAt(entries[q].body[v], entries[q].built)
  BY DEF HeldBodyCurrent
<1>1. Types /\ Known /\ HeldSound(q) /\ now \in Nat
  BY DEF IInv, Types
<1>2. q \in QueryType /\ v \in Vaults /\ q.upcoming \in Nat /\ q.vaults \in SUBSET Vaults
  BY RowTypes DEF QueryType
<1>3. entries[q].signals[v] = signal[v]
  BY <1>1, <1>2, SignalsFacts
<1>4. Renders(entries[q], q.upcoming, v, rows[v], now)
  BY <1>1, <1>3 DEF HeldSound
<1>5. PICK t \in entries[q].built .. now : entries[q].body[v] = Response(rows[v], t, q.upcoming)
  BY <1>4 DEF Renders
<1>6. entries[q] \in Entries /\ rows[v] \in RowType /\ entries[q].built \in Nat
  BY <1>1, <1>2, RowTypes DEF Types, Entries
<1>7. t <= now
  BY <1>1, <1>5, <1>6
<1> QED
  BY <1>1, <1>2, <1>4, <1>5, <1>6, <1>7, StillShown DEF Renders

\* Every variable of the cache has its type, and the cache never holds more bodies than
\* its bound, whatever the readers do.
THEOREM BodyTypes == Spec => []TypeOK
<1>1. IInv => TypeOK
  BY DEF IInv, Types, TypeOK, Entries, Calls, Positions
<1> QED
  BY <1>1, InitInv, NextInv, PTL DEF Spec

\* A held body that the next request would be served is what rendering the published
\* rows now would give (Get's check of signals and expiresAt).
THEOREM HeldBodies == Spec => []HeldBodyCurrent
BY InitInv, NextInv, InvHeldCurrent, PTL DEF Spec

\* A response shows every selected vault as it was at some moment of the request,
\* whether it was rendered for it or held from an earlier one.
THEOREM ServedBodies == Spec => []ServedDuringCall
<1>1. IInv => ServedDuringCall
  BY DEF IInv, CallSound, Served, ServedDuringCall
<1> QED
  BY <1>1, InitInv, NextInv, PTL DEF Spec
==============================================================================
