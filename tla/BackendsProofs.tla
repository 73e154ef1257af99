---------------------------- MODULE BackendsProofs ----------------------------
(***************************************************************************)
(* For every size of page, chain, database and list, and whatever servers  *)
(* fail: what a page says of its source, that the pages of ledgers lead    *)
(* down and, from an indexer, past no ledger, and that a list read to its  *)
(* end has shown the rows it had when it was opened.                       *)
(***************************************************************************)
EXTENDS Backends, FiniteSetTheorems, SequenceTheorems, TLAPS

-----------------------------------------------------------------------------
(* The servers that answer a call.                                          *)

\* What is shown of the source is true of the servers the data is from.
Named(p, what, from, meta) ==
  /\ meta.label = Label(p, from)
  /\ meta.degraded <=> \/ meta.label = "rpc fallback"
                       \/ from = {"rpc"} /\ what = "row" /\ p.horizon

LEMMA NetworkNamed ==
  ASSUME NEW p, BackendOf(p) = "network", NEW what, NEW from, from # {"indexer"},
         NEW server, NEW degraded \in BOOLEAN,
         degraded <=> from = {"rpc"} /\ what = "row" /\ p.horizon
  PROVE  Named(p, what, from, Meta(server, "network", degraded))
<1>1. Label(p, from) = "network"
  BY DEF Label
<1>2. /\ Meta(server, "network", degraded).label = "network"
      /\ Meta(server, "network", degraded).degraded = degraded
  BY DEF Meta
<1>. QED  BY <1>1, <1>2 DEF Named

LEMMA FallbackNamed ==
  ASSUME NEW p, BackendOf(p) = "hybrid", NEW what, NEW from, from # {"indexer"}
  PROVE  Named(p, what, from, Meta("rpc", "rpc fallback", TRUE))
<1>1. Label(p, from) = "rpc fallback"
  BY DEF Label
<1>2. /\ Meta("rpc", "rpc fallback", TRUE).label = "rpc fallback"
      /\ Meta("rpc", "rpc fallback", TRUE).degraded = TRUE
  BY DEF Meta
<1>. QED  BY <1>1, <1>2 DEF Named

LEMMA IndexerNamed ==
  ASSUME NEW p, NEW what
  PROVE  Named(p, what, {"indexer"}, Meta("indexer", "indexer", FALSE))
<1>1. Label(p, {"indexer"}) = "indexer" /\ {"indexer"} # {"rpc"}
  BY DEF Label
<1>2. /\ Meta("indexer", "indexer", FALSE).label = "indexer"
      /\ Meta("indexer", "indexer", FALSE).degraded = FALSE
  BY DEF Meta
<1>. QED  BY <1>1, <1>2 DEF Named

\* What a server alone answers with, and what the network backend makes of it.
LEMMA SingleFacts ==
  ASSUME NEW server, NEW net
  PROVE  \/ Single(server, net) = [from |-> {server}, meta |-> Meta(server, "network", FALSE)]
         \/ Single(server, net) = [from |-> {}, meta |-> Meta(server, "network", TRUE)]
BY DEF Single

LEMMA Renamed ==
  ASSUME NEW from, NEW meta, NEW other
  PROVE  [[from |-> from, meta |-> meta] EXCEPT !.meta = other] = [from |-> from, meta |-> other]
OBVIOUS

FromNetwork(r, op) ==
  /\ r = [from |-> r.from, meta |-> r.meta]
  /\ r.from \in SUBSET {"horizon", "rpc"}
  /\ op \notin Merges => r.from \in {{}, {"horizon"}, {"rpc"}}

LEMMA NetworkFacts ==
  ASSUME NEW p, p.horizon \in BOOLEAN, NEW op, NEW net
  PROVE  FromNetwork(NetworkCall(p, op, net), op)
<1> DEFINE r == NetworkCall(p, op, net)
<1>1. \/ r = Single("rpc", net) \/ r = Single("horizon", net)
      \/ r = [Single("rpc", net) EXCEPT !.meta = Meta("rpc", "network", TRUE)]
      \/ op \in Merges /\ r = Answered({"horizon", "rpc"}, Meta("horizon+rpc", "network", FALSE))
      \/ r = Answered({"horizon"}, Meta("horizon", "network", FALSE))
      \/ r = Failed(InitialMeta([p EXCEPT !.mode = "rpc"]))
  <2>1. CASE op \in RpcOnly \/ (~ p.horizon /\ op \in HorizonThenRpc \cup HorizonOrRpc)
    BY <2>1 DEF NetworkCall, RpcOnly, HorizonOrRpc, HorizonThenRpc, HorizonOnly, Merges
  <2>2. CASE p.horizon /\ op \in HorizonOrRpc \cup HorizonOnly
    BY <2>2 DEF NetworkCall, RpcOnly, HorizonOrRpc, HorizonThenRpc, HorizonOnly, Merges
  <2>3. CASE p.horizon /\ op \in HorizonThenRpc
    BY <2>3 DEF NetworkCall, RpcOnly, HorizonOrRpc, HorizonThenRpc, HorizonOnly, Merges
  <2>4. CASE ~ \/ op \in RpcOnly \/ (~ p.horizon /\ op \in HorizonThenRpc \cup HorizonOrRpc)
               \/ p.horizon /\ op \in HorizonOrRpc \cup HorizonOnly
               \/ p.horizon /\ op \in HorizonThenRpc
    BY <2>4 DEF NetworkCall
  <2>. QED  BY <2>1, <2>2, <2>3, <2>4
<1> HIDE DEF r
<1>2. ASSUME NEW server \in {"horizon", "rpc"}, r = Single(server, net)
      PROVE  FromNetwork(r, op)
  <2>1. CASE r = [from |-> {server}, meta |-> Meta(server, "network", FALSE)]
    BY <2>1 DEF FromNetwork
  <2>2. CASE r = [from |-> {}, meta |-> Meta(server, "network", TRUE)]
    BY <2>2 DEF FromNetwork
  <2>. QED  BY <1>2, <2>1, <2>2, SingleFacts
<1>3. ASSUME r = [Single("rpc", net) EXCEPT !.meta = Meta("rpc", "network", TRUE)]
      PROVE  FromNetwork(r, op)
  <2>1. \/ Single("rpc", net) = [from |-> {"rpc"}, meta |-> Meta("rpc", "network", FALSE)]
        \/ Single("rpc", net) = [from |-> {}, meta |-> Meta("rpc", "network", TRUE)]
    BY SingleFacts
  <2>2. CASE Single("rpc", net) = [from |-> {"rpc"}, meta |-> Meta("rpc", "network", FALSE)]
    <3>1. [[from |-> {"rpc"}, meta |-> Meta("rpc", "network", FALSE)]
             EXCEPT !.meta = Meta("rpc", "network", TRUE)]
          = [from |-> {"rpc"}, meta |-> Meta("rpc", "network", TRUE)]
      BY Renamed
    <3>2. r = [from |-> {"rpc"}, meta |-> Meta("rpc", "network", TRUE)]
      BY <1>3, <2>2, <3>1, Zenon
    <3>. QED  BY <3>2 DEF FromNetwork
  <2>3. CASE Single("rpc", net) = [from |-> {}, meta |-> Meta("rpc", "network", TRUE)]
    <3>1. r = [from |-> {}, meta |-> Meta("rpc", "network", TRUE)]
      BY <1>3, <2>3, Renamed, Zenon
    <3>. QED  BY <3>1 DEF FromNetwork
  <2>. QED  BY <2>1, <2>2, <2>3
<1>4. ASSUME op \in Merges,
             r = Answered({"horizon", "rpc"}, Meta("horizon+rpc", "network", FALSE))
      PROVE  FromNetwork(r, op)
  BY <1>4 DEF Answered, FromNetwork
<1>5. ASSUME r = Answered({"horizon"}, Meta("horizon", "network", FALSE))
      PROVE  FromNetwork(r, op)
  BY <1>5 DEF Answered, FromNetwork
<1>6. ASSUME r = Failed(InitialMeta([p EXCEPT !.mode = "rpc"]))
      PROVE  FromNetwork(r, op)
  BY <1>6 DEF Failed, FromNetwork
<1>7. FromNetwork(r, op)
  BY <1>1, <1>2, <1>3, <1>4, <1>5, <1>6
<1>. QED  BY <1>7 DEF r

\* The client's answer, the network's, alone or as a fallback, or none.
Outcome(p, r, network) ==
  \/ BackendOf(p) = "network" /\ r = network
  \/ r.from = {"indexer"} /\ r.meta = Meta("indexer", "indexer", FALSE)
  \/ /\ BackendOf(p) = "hybrid"
     /\ r.from = network.from /\ r.meta = Meta("rpc", "rpc fallback", TRUE)
  \/ r.from = {}

LEMMA CallFacts ==
  ASSUME NEW p, p.horizon \in BOOLEAN, NEW op, NEW net
  PROVE  Outcome(p, Call(p, op, net), NetworkCall(p, op, net))
<1> DEFINE n == NetworkCall(p, op, net)
<1> DEFINE primary == ClientCall(op, net)
<1>1. \/ primary.from = {"indexer"} /\ primary.meta = Meta("indexer", "indexer", FALSE)
      \/ primary.from = {}
  BY DEF ClientCall, Answered, Failed
<1>2. n = [from |-> n.from, meta |-> n.meta]
  BY NetworkFacts DEF FromNetwork
<1>3. CASE BackendOf(p) = "network"
  BY <1>3 DEF Call, Outcome
<1>4. CASE BackendOf(p) = "client"
  BY <1>1, <1>4 DEF Call, Outcome
<1>5. CASE BackendOf(p) = "hybrid"
  <2> DEFINE r == HybridCall(p, op, net)
  <2>1. \/ r = primary /\ primary.from # {}
        \/ r = [n EXCEPT !.meta = Meta("rpc", "rpc fallback", TRUE)]
        \/ r = Failed(Meta("indexer", "indexer", TRUE))
    BY DEF HybridCall, FallbackMeta
  <2> HIDE DEF primary, n, r
  <2>2. CASE r = [n EXCEPT !.meta = Meta("rpc", "rpc fallback", TRUE)]
    <3>1. r.from = n.from /\ r.meta = Meta("rpc", "rpc fallback", TRUE)
      BY <1>2, <2>2
    <3>. QED  BY <1>5, <3>1 DEF Call, r, n, Outcome
  <2>3. CASE r = Failed(Meta("indexer", "indexer", TRUE))
    <3>1. r.from = {}
      BY <2>3 DEF Failed
    <3>. QED  BY <1>5, <3>1 DEF Call, r, Outcome
  <2>4. CASE r = primary /\ primary.from # {}
    BY <1>1, <1>5, <2>4 DEF Call, r, Outcome
  <2>. QED  BY <2>1, <2>2, <2>3, <2>4
<1>. QED  BY <1>3, <1>4, <1>5 DEF BackendOf

\* Only a transaction or an account is put together from two servers.
LEMMA CallServers ==
  ASSUME NEW p, p.horizon \in BOOLEAN, NEW op, op \notin Merges, NEW net
  PROVE  Call(p, op, net).from \in {{}, {"indexer"}, {"horizon"}, {"rpc"}}
<1>1. /\ Outcome(p, Call(p, op, net), NetworkCall(p, op, net))
      /\ NetworkCall(p, op, net).from \in {{}, {"horizon"}, {"rpc"}}
  BY CallFacts, NetworkFacts DEF FromNetwork
<1>. QED  BY <1>1 DEF Outcome

\* A row that is opened and a page of ledgers are named after the call.
LEMMA CallNames ==
  ASSUME NEW p \in Profiles, NEW op, NEW net, NEW what,
         \/ op \in {"transaction", "account"} /\ what = "row"
         \/ op = "ledgers" /\ what = "ledgers",
         Call(p, op, net).from # {}
  PROVE  Named(p, what, Call(p, op, net).from, Call(p, op, net).meta)
<1> DEFINE r == Call(p, op, net)
<1> DEFINE n == NetworkCall(p, op, net)
<1>1. p.horizon \in BOOLEAN
  BY DEF Profiles
<1>2. n.from \in SUBSET {"horizon", "rpc"} /\ n.from # {"indexer"}
  BY <1>1, NetworkFacts DEF FromNetwork
<1>3. CASE BackendOf(p) = "network" /\ r = n
  <2>0. n.from # {}
    BY <1>3
  <2>1. CASE ~ p.horizon
    <3>1. n = Single("rpc", net)
      BY <2>1 DEF NetworkCall, RpcOnly, HorizonOrRpc, HorizonThenRpc, HorizonOnly, Merges
    <3> HIDE DEF n, r
    <3>2. \/ n = [from |-> {"rpc"}, meta |-> Meta("rpc", "network", FALSE)]
          \/ n = [from |-> {}, meta |-> Meta("rpc", "network", TRUE)]
      BY <3>1, SingleFacts
    <3>3. n.from = {"rpc"} /\ n.meta = Meta("rpc", "network", FALSE)
      <4>1. CASE n = [from |-> {}, meta |-> Meta("rpc", "network", TRUE)]
        <5>1. n.from = {}
          BY <4>1
        <5>. QED  BY <2>0, <5>1
      <4>2. CASE n = [from |-> {"rpc"}, meta |-> Meta("rpc", "network", FALSE)]
        BY <4>2
      <4>. QED  BY <3>2, <4>1, <4>2
    <3>4. FALSE <=> ({"rpc"} = {"rpc"} /\ what = "row" /\ p.horizon)
      BY <2>1
    <3>5. Named(p, what, {"rpc"}, Meta("rpc", "network", FALSE))
      BY <1>3, <3>4, NetworkNamed
    <3>6. Named(p, what, n.from, n.meta)
      BY <3>3, <3>5
    <3>. QED  BY <1>3, <3>6 DEF r
  <2>2. CASE p.horizon /\ op = "ledgers"
    <3>1. n = Single("horizon", net)
      BY <2>2 DEF NetworkCall, RpcOnly, HorizonOrRpc, HorizonThenRpc, HorizonOnly, Merges
    <3> HIDE DEF n, r
    <3>2. \/ n = [from |-> {"horizon"}, meta |-> Meta("horizon", "network", FALSE)]
          \/ n = [from |-> {}, meta |-> Meta("horizon", "network", TRUE)]
      BY <3>1, SingleFacts
    <3>3. n.from = {"horizon"} /\ n.meta = Meta("horizon", "network", FALSE)
      <4>1. CASE n = [from |-> {}, meta |-> Meta("horizon", "network", TRUE)]
        <5>1. n.from = {}
          BY <4>1
        <5>. QED  BY <2>0, <5>1
      <4>2. CASE n = [from |-> {"horizon"}, meta |-> Meta("horizon", "network", FALSE)]
        BY <4>2
      <4>. QED  BY <3>2, <4>1, <4>2
    <3>4. FALSE <=> ({"horizon"} = {"rpc"} /\ what = "row" /\ p.horizon)
      BY <2>2
    <3>5. Named(p, what, {"horizon"}, Meta("horizon", "network", FALSE))
      BY <1>3, <3>4, NetworkNamed
    <3>6. Named(p, what, n.from, n.meta)
      BY <3>3, <3>5
    <3>. QED  BY <1>3, <3>6 DEF r
  <2>3. CASE p.horizon /\ op # "ledgers"
    <3>1. \/ n = [Single("rpc", net) EXCEPT !.meta = Meta("rpc", "network", TRUE)]
          \/ n = Answered({"horizon", "rpc"}, Meta("horizon+rpc", "network", FALSE))
          \/ n = Answered({"horizon"}, Meta("horizon", "network", FALSE))
      BY <2>3 DEF NetworkCall, RpcOnly, HorizonOrRpc, HorizonThenRpc, HorizonOnly, Merges
    <3> HIDE DEF n, r
    <3>2. CASE n = [Single("rpc", net) EXCEPT !.meta = Meta("rpc", "network", TRUE)]
      <4>1. (n.from = {"rpc"} \/ n.from = {}) /\ n.meta = Meta("rpc", "network", TRUE)
        BY <3>2 DEF Single
      <4>2. n.from = {"rpc"} /\ what = "row"
        BY <1>3, <2>3, <4>1 DEF r
      <4>3. Named(p, what, n.from, Meta("rpc", "network", TRUE))
        BY <1>2, <1>3, <2>3, <4>2, NetworkNamed
      <4>. QED  BY <1>3, <4>1, <4>3 DEF r
    <3>3. CASE n = Answered({"horizon", "rpc"}, Meta("horizon+rpc", "network", FALSE))
      <4>1. /\ n.from = {"horizon", "rpc"} /\ n.from # {"rpc"}
            /\ n.meta = Meta("horizon+rpc", "network", FALSE)
        BY <3>3 DEF Answered
      <4>2. Named(p, what, n.from, Meta("horizon+rpc", "network", FALSE))
        BY <1>2, <1>3, <4>1, NetworkNamed
      <4>. QED  BY <1>3, <4>1, <4>2 DEF r
    <3>4. CASE n = Answered({"horizon"}, Meta("horizon", "network", FALSE))
      <4>1. n.from = {"horizon"} /\ n.from # {"rpc"} /\ n.meta = Meta("horizon", "network", FALSE)
        BY <3>4 DEF Answered
      <4>2. Named(p, what, n.from, Meta("horizon", "network", FALSE))
        BY <1>2, <1>3, <4>1, NetworkNamed
      <4>. QED  BY <1>3, <4>1, <4>2 DEF r
    <3>. QED  BY <3>1, <3>2, <3>3, <3>4
  <2>. QED  BY <1>1, <2>1, <2>2, <2>3
<1>4. CASE r.from = {"indexer"} /\ r.meta = Meta("indexer", "indexer", FALSE)
  BY <1>4, IndexerNamed
<1>5. CASE BackendOf(p) = "hybrid" /\ r.from = n.from /\ r.meta = Meta("rpc", "rpc fallback", TRUE)
  BY <1>2, <1>5, FallbackNamed
<1>6. Outcome(p, r, n)
  BY <1>1, CallFacts
<1>. QED  BY <1>3, <1>4, <1>5, <1>6 DEF Outcome

-----------------------------------------------------------------------------
(* The highest numbers of a set.                                            *)

Rank(S, x) == Cardinality({y \in S : y >= x})
Top(S, limit) == {x \in S : Rank(S, x) <= limit}

\* A number lower down has a higher rank, from 1 on.
LEMMA RankFacts ==
  ASSUME NEW S \in SUBSET Nat, IsFiniteSet(S)
  PROVE  /\ \A x \in S : Rank(S, x) \in Nat \ {0}
         /\ \A x, y \in S : x < y => Rank(S, y) < Rank(S, x)
<1>1. ASSUME NEW x \in S
      PROVE  IsFiniteSet({y \in S : y >= x}) /\ Rank(S, x) \in Nat \ {0}
  <2>1. IsFiniteSet({y \in S : y >= x}) /\ Rank(S, x) \in Nat
    BY FS_Subset, FS_CardinalityType DEF Rank
  <2>2. x \in {y \in S : y >= x}
    OBVIOUS
  <2>3. Rank(S, x) # 0
    BY <2>1, <2>2, FS_EmptySet DEF Rank
  <2>. QED  BY <2>1, <2>3
<1>2. ASSUME NEW x \in S, NEW y \in S, x < y
      PROVE  Rank(S, y) < Rank(S, x)
  <2> DEFINE A == {z \in S : z >= x}
  <2> DEFINE B == {z \in S : z >= y}
  <2>0. x \in Nat /\ y \in Nat
    OBVIOUS
  <2>1. /\ B \in SUBSET A
        /\ x \in A
        /\ x \notin B
    <3>1. x \in A /\ x \notin B
      BY <1>2, <2>0
    <3>2. ASSUME NEW z \in B
          PROVE  z \in A
      <4>1. z \in S /\ z \in Nat /\ z >= y
        OBVIOUS
      <4>. QED  BY <1>2, <2>0, <4>1
    <3>. QED  BY <3>1, <3>2
  <2>2. IsFiniteSet(A)
    BY <1>1
  <2>3. Cardinality(B) <= Cardinality(A) /\ Cardinality(A) # Cardinality(B)
    <3> HIDE DEF A, B
    <3>. QED  BY <2>1, <2>2, FS_Subset
  <2>4. Cardinality(A) = Rank(S, x) /\ Cardinality(B) = Rank(S, y)
    BY DEF Rank
  <2>5. Rank(S, x) \in Nat /\ Rank(S, y) \in Nat
    BY <1>1
  <2> HIDE DEF A, B
  <2>. QED  BY <2>3, <2>4, <2>5
<1>. QED  BY <1>1, <1>2

\* Highest takes them from the top, in order and without a gap.
LEMMA HighestFacts ==
  ASSUME NEW S \in SUBSET Nat, IsFiniteSet(S), NEW limit \in Nat
  PROVE  LET h == Highest(S, limit) IN
         /\ h \in Seq(S)
         /\ Range(h) \in SUBSET S
         /\ \A x \in S : x \in Range(h) \/ \A y \in Range(h) : x < y
         /\ Len(h) # 0 => h[Len(h)] \in Range(h) /\ \A y \in Range(h) : h[Len(h)] <= y
<1> DEFINE top == Top(S, limit)
<1> DEFINE n == Cardinality(top)
<1> DEFINE h == Highest(S, limit)
<1>1. h = [i \in 1 .. n |-> CHOOSE x \in top : Rank(S, x) = i]
  BY DEF Highest, Top, Rank
<1>2. top \in SUBSET S /\ IsFiniteSet(top) /\ n \in Nat
  BY FS_Subset, FS_CardinalityType DEF Top
<1>3. \A x \in top : Rank(S, x) \in 1 .. n
  <2> SUFFICES ASSUME NEW x \in top
               PROVE  Rank(S, x) \in 1 .. n
    OBVIOUS
  <2>1. x \in S /\ Rank(S, x) <= limit /\ Rank(S, x) \in Nat \ {0}
    BY RankFacts DEF Top
  <2>2. {y \in S : y >= x} \in SUBSET top
    <3>1. ASSUME NEW y \in S, y >= x
          PROVE  y \in top
      <4>1. y = x \/ Rank(S, y) < Rank(S, x)
        BY <2>1, <3>1, RankFacts
      <4>2. Rank(S, y) \in Nat
        BY RankFacts
      <4>. QED  BY <2>1, <4>1, <4>2 DEF Top
    <3>. QED  BY <3>1
  <2>3. Rank(S, x) <= n
    BY <1>2, <2>2, FS_Subset DEF Rank
  <2>. QED  BY <1>2, <2>1, <2>3
<1> DEFINE rank == [x \in top |-> Rank(S, x)]
<1>4. rank \in Injection(top, 1 .. n)
  <2>1. rank \in [top -> 1 .. n]
    BY <1>3
  <2>2. ASSUME NEW a \in top, NEW b \in top, a # b
        PROVE  rank[a] # rank[b]
    <3>1. a \in S /\ b \in S /\ a \in Nat /\ b \in Nat
      BY <1>2
    <3>2. Rank(S, a) < Rank(S, b) \/ Rank(S, b) < Rank(S, a)
      BY <2>2, <3>1, RankFacts
    <3>3. Rank(S, a) \in Nat /\ Rank(S, b) \in Nat
      BY <3>1, RankFacts
    <3>. QED  BY <3>2, <3>3
  <2> HIDE DEF rank, top
  <2>. QED  BY <2>1, <2>2 DEF Injection, IsInjective
<1>5. \A i \in 1 .. n : \E x \in top : Rank(S, x) = i
  <2>1. IsFiniteSet(1 .. n) /\ Cardinality(1 .. n) = n
    BY <1>2, FS_Interval
  <2>2. rank \in Surjection(top, 1 .. n)
    <3> HIDE DEF rank, top
    <3>. QED  BY <1>4, <2>1, FS_Injection
  <2>3. \A i \in 1 .. n : \E x \in top : rank[x] = i
    <3> HIDE DEF rank
    <3>. QED  BY <2>2 DEF Surjection
  <2>. QED  BY <2>3
<1>6. \A i \in 1 .. n : h[i] \in top /\ Rank(S, h[i]) = i
  BY <1>1, <1>5
<1>7. h \in Seq(top) /\ Len(h) = n /\ DOMAIN h = 1 .. n
  <2> HIDE DEF top, h
  <2>. QED  BY <1>1, <1>2, <1>6
<1>8. Range(h) = top
  <2>1. Range(h) \in SUBSET top
    BY <1>6, <1>7 DEF Range
  <2>2. ASSUME NEW x \in top
        PROVE  x \in Range(h)
    <3>1. PICK i \in 1 .. n : Rank(S, x) = i
      BY <1>3
    <3>2. h[i] \in top /\ Rank(S, h[i]) = Rank(S, x)
      BY <1>6, <3>1
    <3>3. h[i] \in S /\ x \in S /\ h[i] \in Nat /\ x \in Nat
      BY <1>2, <3>2
    <3>4. h[i] = x
      BY <3>2, <3>3, RankFacts
    <3> HIDE DEF h
    <3>. QED  BY <1>7, <3>4 DEF Range
  <2>. QED  BY <2>1, <2>2
<1>9. \A x \in S : x \in top \/ \A y \in top : x < y
  <2> SUFFICES ASSUME NEW x \in S, x \notin top, NEW y \in top
               PROVE  x < y
    OBVIOUS
  <2>1. y \in S /\ Rank(S, y) <= limit /\ x \in Nat /\ y \in Nat
    BY DEF Top
  <2>2. Rank(S, x) \in Nat /\ Rank(S, y) \in Nat /\ ~ Rank(S, x) <= limit
    BY <2>1, RankFacts DEF Top
  <2>3. x # y /\ ~ y < x
    BY <2>1, <2>2, RankFacts
  <2>. QED  BY <2>1, <2>3
<1>10. n # 0 => h[n] \in top /\ \A y \in top : h[n] <= y
  <2> SUFFICES ASSUME n # 0, NEW y \in top
               PROVE  h[n] \in top /\ h[n] <= y
    BY <1>2, <1>6
  <2>1. n \in 1 .. n
    BY <1>2
  <2>2. h[n] \in top /\ Rank(S, h[n]) = n
    BY <1>6, <2>1
  <2>3. h[n] \in S /\ y \in S /\ h[n] \in Nat /\ y \in Nat
    BY <1>2, <2>2
  <2>4. Rank(S, y) \in 1 .. n
    BY <1>3
  <2>5. ~ y < h[n]
    BY <1>2, <2>2, <2>3, <2>4, RankFacts
  <2>. QED  BY <2>2, <2>3, <2>5
<1> HIDE DEF top, h
<1>11. h \in Seq(S)
  <2>1. h \in [1 .. n -> S]
    BY <1>1, <1>2, <1>6
  <2>. QED  BY <1>2, <2>1
<1>. QED  BY <1>2, <1>7, <1>8, <1>9, <1>10, <1>11 DEF h

-----------------------------------------------------------------------------
(* What the steps make of the page.                                         *)

IsPage(q) ==
  q = [what |-> q.what, op |-> q.op, from |-> q.from, meta |-> q.meta,
       list |-> q.list, rows |-> q.rows, asked |-> q.asked, next |-> q.next]

ServersInv ==
  /\ profile \in Profiles
  /\ tip \in Nat
  /\ indexed \in SUBSET (1 .. tip)
  /\ size \in Nat /\ size >= FirstSize

TypeInv ==
  /\ ServersInv
  /\ IsPage(page)
  /\ page.list \in PageLists \cup {""}
  /\ page.list # "" => page.what \in {"lookup", "row"}

\* The servers and what they hold only grow.
Grown ==
  /\ profile' = profile
  /\ tip' \in Nat /\ tip' >= tip
  /\ indexed' \in SUBSET (1 .. tip') /\ indexed \in SUBSET indexed'
  /\ size' \in Nat /\ size' >= size

Still == UNCHANGED <<profile, tip, indexed, size>>

LEMMA StillGrown ==
  ASSUME ServersInv, Still
  PROVE  Grown
BY DEF ServersInv, Still, Grown

LEMMA EnvironmentGrows ==
  ASSUME ServersInv, CloseLedger \/ Ingest \/ NewRows
  PROVE  Grown /\ page' = page /\ trail' = trail
<1>1. CASE CloseLedger
  BY <1>1 DEF CloseLedger, ServersInv, Grown
<1>2. CASE Ingest
  BY <1>2 DEF Ingest, ServersInv, Grown
<1>3. CASE NewRows
  BY <1>3 DEF NewRows, ServersInv, Grown
<1>. QED  BY <1>1, <1>2, <1>3

\* A page that says what went wrong.
Refused == page'.what = "error" /\ page'.list = "" /\ IsPage(page')

\* A row that was opened, and any other page read with one call.
Opened(what, op) ==
  /\ IsPage(page') /\ page'.what = what /\ page'.list = ""
  /\ what = "row" => \E net : /\ page'.from = Call(profile, op, net).from
                              /\ page'.from # {}
                              /\ page'.meta = Call(profile, op, net).meta

\* The ledgers before one, from a server.
LedgersShown(before, t, server) == \E rows \in LedgersOf(server, before) :
  /\ IsPage(page') /\ page'.what = "ledgers" /\ page'.list = ""
  /\ page'.from = {server}
  /\ \E net : /\ page'.from = Call(profile, "ledgers", net).from
              /\ page'.meta = Call(profile, "ledgers", net).meta
  /\ page'.asked = before
  /\ page'.next = NextBefore(rows)
  /\ trail' = Extended(t, rows, {server})

\* Rows of a list, from a server.
ListShown(list, offset, t, server, rows) ==
  /\ IsPage(page') /\ page'.what = page.what /\ page'.list = list
  /\ page'.from = page.from /\ page'.meta = page.meta
  /\ rows # <<>>
  /\ page'.next = NextOffset(offset, rows)
  /\ trail' = Extended(t, rows, {server})

LEMMA ErrorFacts ==
  ASSUME NEW op, NEW meta, Error(op, meta)
  PROVE  Refused
<1> DEFINE m == [meta EXCEPT !.degraded = TRUE]
<1>1. page' = [Home EXCEPT !.what = "error", !.op = op, !.meta = m]
  BY DEF Error, Show
<1> HIDE DEF m
<1>. QED  BY <1>1 DEF Refused, IsPage, Home

LEMMA FetchFacts ==
  ASSUME NEW what, NEW op, NEW after, what = "row" => after, Fetch(what, op, after)
  PROVE  Still /\ (Refused \/ Opened(what, op))
<1>0. Still
  BY DEF Fetch, Still
<1>1. PICK net \in Nets(op) :
        LET result == Call(profile, op, net)
            source == IF after THEN SourceAfter(result) ELSE SourceBefore(result)
        IN  IF result.from = {}
            THEN Error(op, source)
            ELSE Show([Home EXCEPT !.what = what, !.op = op, !.from = result.from,
                                   !.meta = source])
  BY DEF Fetch
<1> DEFINE result == Call(profile, op, net)
<1> DEFINE source == IF after THEN SourceAfter(result) ELSE SourceBefore(result)
<1>2. CASE result.from = {}
  <2>1. Error(op, source)
    BY <1>1, <1>2
  <2> HIDE DEF source
  <2>. QED  BY <1>0, <2>1, ErrorFacts
<1>3. CASE result.from # {}
  <2>1. page' = [Home EXCEPT !.what = what, !.op = op, !.from = result.from, !.meta = source]
    BY <1>1, <1>3 DEF Show
  <2>2. after => source = result.meta
    BY DEF SourceAfter
  <2> HIDE DEF source, result
  <2>3. /\ IsPage(page') /\ page'.what = what /\ page'.list = ""
        /\ page'.from = result.from /\ page'.meta = source
    BY <2>1 DEF Home, IsPage
  <2>. QED  BY <1>0, <1>3, <2>2, <2>3 DEF result, Opened
<1>. QED  BY <1>2, <1>3

LEMMA LedgerPageFacts ==
  ASSUME profile \in Profiles, NEW before, NEW t, LedgerPage(before, t)
  PROVE  Still /\ (Refused \/ \E server \in Servers : LedgersShown(before, t, server))
<1>0. Still
  BY DEF LedgerPage, Still
<1>1. PICK net \in Nets("ledgers") :
       LET refused == [net EXCEPT !.rpc = IF RpcRefuses(before) THEN "range" ELSE @]
           result  == Call(profile, "ledgers", refused)
       IN  IF result.from = {}
           THEN Error("ledgers", result.meta) /\ trail' = NoTrail
           ELSE \E rows \in LedgersOf(CHOOSE s \in result.from : TRUE, before) :
                    /\ Show([Home EXCEPT !.what = "ledgers", !.op = "ledgers",
                                         !.from = result.from, !.meta = result.meta,
                                         !.rows = rows, !.asked = before,
                                         !.next = NextBefore(rows)])
                    /\ trail' = Extended(t, rows, result.from)
  BY DEF LedgerPage
<1> DEFINE refused == [net EXCEPT !.rpc = IF RpcRefuses(before) THEN "range" ELSE @]
<1> DEFINE result == Call(profile, "ledgers", refused)
<1> DEFINE server == CHOOSE s \in result.from : TRUE
<1>2. CASE result.from = {}
  <2>1. Error("ledgers", result.meta)
    BY <1>1, <1>2
  <2>. QED  BY <1>0, <2>1, ErrorFacts
<1>3. CASE result.from # {}
  <2>1. PICK rows \in LedgersOf(server, before) :
        /\ page' = [Home EXCEPT !.what = "ledgers", !.op = "ledgers",
                                !.from = result.from, !.meta = result.meta,
                                !.rows = rows, !.asked = before, !.next = NextBefore(rows)]
        /\ trail' = Extended(t, rows, result.from)
    BY <1>1, <1>3 DEF Show
  <2>2. result.from \in {{}, {"indexer"}, {"horizon"}, {"rpc"}}
    <3>1. profile.horizon \in BOOLEAN /\ "ledgers" \notin Merges
      BY DEF Profiles, Merges
    <3> HIDE DEF refused
    <3>. QED  BY <3>1, CallServers
  <2> HIDE DEF result
  <2>3. server \in Servers /\ result.from = {server}
    BY <1>3, <2>2 DEF Servers
  <2> HIDE DEF server
  <2>4. /\ IsPage(page') /\ page'.what = "ledgers" /\ page'.list = ""
        /\ page'.from = result.from /\ page'.meta = result.meta
        /\ page'.asked = before /\ page'.next = NextBefore(rows)
    <3> DEFINE next == NextBefore(rows)
    <3> HIDE DEF next
    <3>1. page' = [Home EXCEPT !.what = "ledgers", !.op = "ledgers",
                               !.from = result.from, !.meta = result.meta,
                               !.rows = rows, !.asked = before, !.next = next]
      BY <2>1 DEF next
    <3>2. /\ IsPage(page') /\ page'.what = "ledgers" /\ page'.list = ""
          /\ page'.from = result.from /\ page'.meta = result.meta
          /\ page'.asked = before /\ page'.next = next
      BY <3>1 DEF Home, IsPage
    <3>. QED  BY <3>2 DEF next
  <2> HIDE DEF refused
  <2>. QED  BY <1>0, <2>1, <2>3, <2>4 DEF result, LedgersShown
<1>. QED  BY <1>2, <1>3

LEMMA ListPageFacts ==
  ASSUME TypeInv, NEW list \in PageLists, NEW offset, NEW t, ListPage(list, offset, t)
  PROVE  /\ Still
         /\ \/ Refused
            \/ \E server \in Servers : \E rows \in RowsOf(server, list, offset) :
                 ListShown(list, offset, t, server, rows)
<1>0. Still
  BY DEF ListPage, Still
<1>1. PICK net \in Nets(list) :
       LET result == Call(profile, list, net)
       IN  IF result.from = {}
           THEN Error(page.op, result.meta) /\ trail' = NoTrail
           ELSE \E rows \in RowsOf(CHOOSE s \in result.from : TRUE, list, offset) :
                    IF rows = <<>>
                    THEN Error(page.op, result.meta) /\ trail' = NoTrail
                    ELSE /\ Show([page EXCEPT !.list = list, !.rows = rows, !.asked = offset,
                                              !.next = NextOffset(offset, rows)])
                         /\ trail' = Extended(t, rows, result.from)
  BY DEF ListPage
<1> DEFINE result == Call(profile, list, net)
<1> DEFINE server == CHOOSE s \in result.from : TRUE
<1>2. CASE Error(page.op, result.meta)
  BY <1>0, <1>2, ErrorFacts
<1>3. CASE ~ Error(page.op, result.meta)
  <2>0. result.from # {}
    BY <1>1, <1>3
  <2>1. PICK rows \in RowsOf(server, list, offset) :
          /\ rows # <<>>
          /\ page' = [page EXCEPT !.list = list, !.rows = rows, !.asked = offset,
                                  !.next = NextOffset(offset, rows)]
          /\ trail' = Extended(t, rows, result.from)
    BY <1>1, <1>3, <2>0 DEF Show
  <2>2. result.from \in {{}, {"indexer"}, {"horizon"}, {"rpc"}}
    <3>1. profile.horizon \in BOOLEAN /\ list \notin Merges
      BY DEF TypeInv, ServersInv, Profiles, PageLists, Merges
    <3>. QED  BY <3>1, CallServers
  <2> HIDE DEF result
  <2>3. server \in Servers /\ result.from = {server}
    BY <2>0, <2>2 DEF Servers
  <2> HIDE DEF server
  <2>4. /\ IsPage(page') /\ page'.what = page.what /\ page'.list = list
        /\ page'.from = page.from /\ page'.meta = page.meta
        /\ page'.next = NextOffset(offset, rows)
    <3> DEFINE next == NextOffset(offset, rows)
    <3> HIDE DEF next
    <3>1. page' = [page EXCEPT !.list = list, !.rows = rows, !.asked = offset, !.next = next]
      BY <2>1 DEF next
    <3>2. IsPage(page)
      BY DEF TypeInv
    <3>3. page' = [what |-> page.what, op |-> page.op, from |-> page.from, meta |-> page.meta,
                   list |-> list, rows |-> rows, asked |-> offset, next |-> next]
      BY <3>1, <3>2 DEF IsPage
    <3>4. /\ IsPage(page') /\ page'.what = page.what /\ page'.list = list
          /\ page'.from = page.from /\ page'.meta = page.meta
          /\ page'.next = next
      BY <3>3 DEF IsPage
    <3>. QED  BY <3>4 DEF next
  <2>. QED  BY <1>0, <2>1, <2>3, <2>4 DEF ListShown
<1>. QED  BY <1>2, <1>3

\* What a step does: the servers and what they hold grow, or the page changes.
FetchStep ==
  \E what \in {"lookup", "feed", "row"} :
    \E op : /\ what = "row" => op \in {"transaction", "account"}
            /\ Opened(what, op)

LedgersStep ==
  \E server \in Servers :
    \/ LedgersShown(0, [NoTrail EXCEPT !.start = indexed], server)
    \/ page.what = "ledgers" /\ page.next # 0 /\ LedgersShown(page.next, trail, server)

ListStep ==
  \E list \in PageLists, server \in Servers :
    \/ /\ page.what \in {"lookup", "row"}
       /\ \E rows \in RowsOf(server, list, 0) :
            ListShown(list, 0, [NoTrail EXCEPT !.start = Range(Held(list))], server, rows)
    \/ /\ page.list = list /\ page.next # 0
       /\ \E rows \in RowsOf(server, list, page.next) :
            ListShown(list, page.next, trail, server, rows)

LEMMA Steps ==
  ASSUME TypeInv, [Next]_vars
  PROVE  \/ Grown /\ page' = page /\ trail' = trail
         \/ Still /\ (Refused \/ FetchStep \/ LedgersStep \/ ListStep)
<1>1. CASE CloseLedger \/ Ingest \/ NewRows
  BY <1>1, EnvironmentGrows DEF TypeInv
<1>2. CASE UNCHANGED vars
  <2>1. Still /\ page' = page /\ trail' = trail
    BY <1>2 DEF vars, Still
  <2>. QED  BY <2>1, StillGrown DEF TypeInv
<1>3. CASE \E op \in Entities : Lookup(op)
  <2>1. PICK op \in Entities : Fetch("lookup", op, FALSE)
    BY <1>3 DEF Lookup
  <2>2. Still /\ (Refused \/ Opened("lookup", op))
    <3>1. "lookup" = "row" => FALSE
      OBVIOUS
    <3>. QED  BY <2>1, <3>1, FetchFacts
  <2>. QED  BY <2>2 DEF FetchStep
<1>4. CASE \E op \in {"transaction", "account"} : OpenRow(op)
  <2>1. PICK op \in {"transaction", "account"} : Fetch("row", op, TRUE)
    BY <1>4 DEF OpenRow
  <2>2. Still /\ (Refused \/ Opened("row", op))
    <3>1. "row" = "row" => TRUE
      OBVIOUS
    <3>. QED  BY <2>1, <3>1, FetchFacts
  <2>. QED  BY <2>2 DEF FetchStep
<1>5. CASE RefreshLiveFeed
  <2>1. Fetch("feed", "live-feed", FALSE)
    BY <1>5 DEF RefreshLiveFeed
  <2>2. Still /\ (Refused \/ Opened("feed", "live-feed"))
    <3>1. "feed" = "row" => FALSE
      OBVIOUS
    <3>. QED  BY <2>1, <3>1, FetchFacts
  <2>. QED  BY <2>2 DEF FetchStep
<1>6. CASE OpenLedgers
  BY <1>6, LedgerPageFacts DEF OpenLedgers, TypeInv, ServersInv, LedgersStep
<1>7. CASE NextLedgers
  BY <1>7, LedgerPageFacts DEF NextLedgers, TypeInv, ServersInv, LedgersStep
<1>8. CASE OpenList
  <2>1. PICK list \in ListsOf(page.op) :
          ListPage(list, 0, [NoTrail EXCEPT !.start = Range(Held(list))])
    BY <1>8 DEF OpenList
  <2>2. list \in PageLists /\ page.what \in {"lookup", "row"}
    BY <1>8 DEF ListsOf, PageLists, OpenList
  <2> DEFINE t == [NoTrail EXCEPT !.start = Range(Held(list))]
  <2>3. ListPage(list, 0, t)
    BY <2>1
  <2> HIDE DEF t
  <2>4. /\ Still
        /\ \/ Refused
           \/ \E server \in Servers : \E rows \in RowsOf(server, list, 0) :
                ListShown(list, 0, t, server, rows)
    BY <2>2, <2>3, ListPageFacts
  <2>. QED  BY <2>2, <2>4 DEF ListStep, t
<1>9. CASE NextRows
  <2>1. ListPage(page.list, page.next, trail) /\ page.list \in PageLists /\ page.next # 0
    BY <1>9 DEF NextRows, TypeInv
  <2>2. /\ Still
        /\ \/ Refused
           \/ \E server \in Servers : \E rows \in RowsOf(server, page.list, page.next) :
                ListShown(page.list, page.next, trail, server, rows)
    BY <2>1, ListPageFacts
  <2>. QED  BY <2>1, <2>2 DEF ListStep
<1>. QED  BY <1>1, <1>2, <1>3, <1>4, <1>5, <1>6, <1>7, <1>8, <1>9 DEF Next, Command

LEMMA InitType ==
  ASSUME Init
  PROVE  TypeInv
<1>1. MaxLedger \in Nat \ {0}
  BY PagingAssumption
<1>2. profile \in Profiles /\ tip \in Nat /\ indexed \in SUBSET (1 .. tip)
  BY <1>1, ProfilesAssumption DEF Init
<1>3. size \in Nat /\ size >= FirstSize
  BY PagingAssumption DEF Init
<1>4. IsPage(page) /\ page.list = ""
  BY DEF Init, Home, IsPage
<1>. QED  BY <1>2, <1>3, <1>4 DEF TypeInv, ServersInv

LEMMA NextType ==
  ASSUME TypeInv, [Next]_vars
  PROVE  TypeInv' /\ Grown
<1>1. Grown
  BY Steps, StillGrown DEF TypeInv
<1>2. ServersInv'
  <2>1. FirstSize \in Nat
    BY PagingAssumption
  <2>2. ServersInv
    BY DEF TypeInv
  <2>. QED  BY <1>1, <2>1, <2>2 DEF Grown, ServersInv
<1>3. IsPage(page')
  BY Steps DEF TypeInv, Refused, FetchStep, Opened, LedgersStep, LedgersShown, ListStep, ListShown
<1>4. page'.list \in PageLists \cup {""}
  BY Steps DEF TypeInv, Refused, FetchStep, Opened, LedgersStep, LedgersShown, ListStep, ListShown
<1>5. page'.list # "" => page'.what \in {"lookup", "row"}
  BY Steps DEF TypeInv, Refused, FetchStep, Opened, LedgersStep, LedgersShown, ListStep, ListShown,
               PageLists
<1>. QED  BY <1>1, <1>2, <1>3, <1>4, <1>5 DEF TypeInv

-----------------------------------------------------------------------------
(* What a page says of its source.                                          *)

NamedInv ==
  page.what \in {"row", "ledgers"} => Named(profile, page.what, page.from, page.meta)

LEMMA NextNamed ==
  ASSUME TypeInv, NamedInv, [Next]_vars
  PROVE  NamedInv'
<1>0. profile' = profile /\ profile \in Profiles
  BY NextType DEF Grown, TypeInv, ServersInv
<1>1. CASE page' = page
  BY <1>0, <1>1 DEF NamedInv
<1>2. CASE Refused
  BY <1>2 DEF NamedInv, Refused
<1>3. CASE FetchStep
  <2>1. PICK what \in {"lookup", "feed", "row"} :
          \E op : /\ what = "row" => op \in {"transaction", "account"}
                  /\ Opened(what, op)
    BY <1>3 DEF FetchStep
  <2>2. page'.what = what
    BY <2>1 DEF Opened
  <2>3. CASE what = "row"
    <3>0. PICK op \in {"transaction", "account"} : Opened(what, op)
      BY <2>1, <2>3
    <3>1. PICK net : /\ page'.from = Call(profile, op, net).from
                     /\ page'.from # {}
                     /\ page'.meta = Call(profile, op, net).meta
      BY <2>2, <2>3, <3>0 DEF Opened
    <3>2. Named(profile, "row", Call(profile, op, net).from, Call(profile, op, net).meta)
      BY <1>0, <3>1, CallNames
    <3>. QED  BY <1>0, <2>2, <2>3, <3>1, <3>2 DEF NamedInv
  <2>. QED  BY <2>2, <2>3 DEF NamedInv
<1>4. CASE LedgersStep
  <2>1. PICK net, server : /\ page'.what = "ledgers" /\ page'.from = {server}
                           /\ page'.from = Call(profile, "ledgers", net).from
                           /\ page'.meta = Call(profile, "ledgers", net).meta
    BY <1>4 DEF LedgersStep, LedgersShown
  <2>2. Named(profile, "ledgers", Call(profile, "ledgers", net).from,
              Call(profile, "ledgers", net).meta)
    BY <1>0, <2>1, CallNames
  <2>. QED  BY <1>0, <2>1, <2>2 DEF NamedInv
<1>5. CASE ListStep
  <2>1. page'.what = page.what /\ page'.from = page.from /\ page'.meta = page.meta
    BY <1>5 DEF ListStep, ListShown
  <2>. QED  BY <1>0, <2>1 DEF NamedInv
<1>. QED  BY <1>1, <1>2, <1>3, <1>4, <1>5, Steps

\* A row and a page of ledgers name the servers their data is from, and say so
\* when the preferred one failed (RowsNameTheirSource), for every profile and
\* whatever each server does with each request: the metadata that the command
\* reads after its call is that of the answer it shows.
THEOREM PagesNameTheirSource == Spec => []RowsNameTheirSource
<1>1. Init => TypeInv /\ NamedInv
  <2>0. Home.what = "home"
    BY DEF Home
  <2>1. Init => page.what = "home"
    BY <2>0 DEF Init
  <2>2. Init => NamedInv
    BY <2>1 DEF NamedInv
  <2>. QED  BY <2>2, InitType
<1>2. TypeInv /\ NamedInv /\ [Next]_vars => TypeInv' /\ NamedInv'
  BY NextType, NextNamed
<1>3. NamedInv => RowsNameTheirSource
  BY DEF NamedInv, Named, RowsNameTheirSource
<1>. QED  BY <1>1, <1>2, <1>3, PTL DEF Spec

-----------------------------------------------------------------------------
(* The list of ledgers.                                                     *)

IsTrail(t) == t = [seen |-> t.seen, servers |-> t.servers, start |-> t.start, broken |-> t.broken]

Repeats(t, rows) == \E x \in Range(rows) : x \in t.seen

LEMMA ExtendedFacts ==
  ASSUME NEW t, IsTrail(t), NEW rows, NEW from
  PROVE  /\ IsTrail(Extended(t, rows, from))
         /\ Extended(t, rows, from).seen = t.seen \cup Range(rows)
         /\ Extended(t, rows, from).servers = t.servers \cup from
         /\ Extended(t, rows, from).start = t.start
         /\ Extended(t, rows, from).broken = (t.broken \/ Repeats(t, rows))
<1> DEFINE e == Extended(t, rows, from)
<1> DEFINE broken == t.broken \/ Repeats(t, rows)
<1>1. e = [t EXCEPT !.seen = t.seen \cup Range(rows), !.servers = t.servers \cup from,
                    !.broken = broken]
  BY DEF Extended, Repeats
<1> HIDE DEF e, broken
<1>2. e = [seen |-> t.seen \cup Range(rows), servers |-> t.servers \cup from,
           start |-> t.start, broken |-> broken]
  BY <1>1 DEF IsTrail
<1>3. /\ e.seen = t.seen \cup Range(rows) /\ e.servers = t.servers \cup from
      /\ e.start = t.start /\ e.broken = broken
  BY <1>2
<1>4. IsTrail(e)
  BY <1>2, <1>3 DEF IsTrail
<1>. QED  BY <1>3, <1>4 DEF e, broken

LEMMA NewTrail ==
  ASSUME NEW S
  PROVE  LET t == [NoTrail EXCEPT !.start = S] IN
         IsTrail(t) /\ t.seen = {} /\ t.servers = {} /\ t.start = S /\ t.broken = FALSE
<1> DEFINE t == [NoTrail EXCEPT !.start = S]
<1>0. PICK no : no = FALSE
  OBVIOUS
<1>1. NoTrail = [seen |-> {}, servers |-> {}, start |-> {}, broken |-> no]
  BY <1>0, Zenon DEF NoTrail
<1>2. t = [seen |-> {}, servers |-> {}, start |-> S, broken |-> no]
  BY <1>1
<1> HIDE DEF t
<1>3. t.seen = {} /\ t.servers = {} /\ t.start = S /\ t.broken = no
  BY <1>2
<1>4. IsTrail(t)
  BY <1>2, <1>3 DEF IsTrail
<1>. QED  BY <1>0, <1>3, <1>4 DEF t

\* The next page begins at the last row of this one, which is below what was asked.
LeadsDown(rows, before) ==
  /\ Range(rows) \in SUBSET Nat
  /\ before # 0 => \A l \in Range(rows) : l < before
  /\ NextBefore(rows) # 0 => /\ NextBefore(rows) \in Range(rows)
                             /\ \A l \in Range(rows) : NextBefore(rows) <= l

LEMMA HighestLeadsDown ==
  ASSUME tip \in Nat, NEW S \in SUBSET (1 .. tip), NEW before \in 0 .. tip
  PROVE  LET rows == Highest(Below(S, before), Limit) IN
         /\ LeadsDown(rows, before)
         /\ NextBefore(rows) \in 0 .. tip
         /\ before # 0 => NextBefore(rows) < before
         /\ \A l \in S : before = 0 \/ l < before =>
                           l \in Range(rows) \/ \A s \in Range(rows) : l < s
<1> DEFINE rows == Highest(Below(S, before), Limit)
<1>0. Limit \in Nat \ {0}
  BY PagingAssumption
<1>1. /\ Below(S, before) \in SUBSET Nat /\ IsFiniteSet(Below(S, before))
      /\ Below(S, before) \in SUBSET (1 .. tip)
  <2>1. IsFiniteSet(1 .. tip)
    BY FS_Interval
  <2>2. Below(S, before) \in SUBSET (1 .. tip)
    BY DEF Below
  <2>. QED  BY <2>1, <2>2, FS_Subset
<1>2. /\ rows \in Seq(Below(S, before)) /\ Range(rows) \in SUBSET Below(S, before)
      /\ \A x \in Below(S, before) : x \in Range(rows) \/ \A y \in Range(rows) : x < y
      /\ Len(rows) # 0 => /\ rows[Len(rows)] \in Range(rows)
                          /\ \A y \in Range(rows) : rows[Len(rows)] <= y
  BY <1>0, <1>1, HighestFacts
<1> HIDE DEF rows
<1>3. Len(rows) \in Nat
  BY <1>2
<1>4. \/ NextBefore(rows) = 0
      \/ NextBefore(rows) = rows[Len(rows)] /\ Len(rows) # 0
  BY <1>0, <1>3 DEF NextBefore
<1>5. \A l \in Range(rows) : l \in 1 .. tip /\ (before # 0 => l < before)
  BY <1>1, <1>2 DEF Below
<1>6. LeadsDown(rows, before)
  BY <1>2, <1>4, <1>5 DEF LeadsDown
<1>7. NextBefore(rows) \in 0 .. tip /\ (before # 0 => NextBefore(rows) < before)
  BY <1>2, <1>4, <1>5
<1>8. \A l \in S : before = 0 \/ l < before =>
                     l \in Range(rows) \/ \A s \in Range(rows) : l < s
  BY <1>2 DEF Below
<1>. QED  BY <1>6, <1>7, <1>8 DEF rows

\* The RPC server's pages go back too, though its rows may be above what was asked.
LEMMA RpcGoesBack ==
  ASSUME tip \in Nat, NEW before \in 0 .. tip
  PROVE  LET rows == RpcLedgers(before) IN
         /\ NextBefore(rows) \in 0 .. tip
         /\ before # 0 => NextBefore(rows) < before
<1>0. Limit \in Nat \ {0}
  BY PagingAssumption
<1>1. CASE before = 1
  <2>1. RpcLedgers(before) = <<>>
    BY <1>1 DEF RpcLedgers
  <2>2. NextBefore(<<>>) = 0
    BY <1>0 DEF NextBefore
  <2>. QED  BY <1>1, <2>1, <2>2
<1>2. CASE before # 1
  <2> DEFINE target == Target(before)
  <2> DEFINE start == RpcStart(target)
  <2> DEFINE last == Smallest(start + Limit - 1, tip)
  <2> DEFINE rows == RpcLedgers(before)
  <2>1. target \in 0 .. tip /\ (before # 0 => target < before)
    BY DEF Target
  <2>2. start \in 0 .. target
    <3> HIDE DEF target
    <3>. QED  BY <1>0, <2>1 DEF RpcStart
  <2>3. last \in start .. tip
    <3> HIDE DEF start, target
    <3>. QED  BY <1>0, <2>1, <2>2 DEF Smallest
  <2>4. rows = [i \in 1 .. last - start + 1 |-> last - i + 1]
    BY <1>2 DEF RpcLedgers, RpcLedgersFrom
  <2> HIDE DEF target, start, last, rows
  <2>5. Len(rows) = last - start + 1 /\ rows[Len(rows)] = start
    <3>1. last - start + 1 \in Nat \ {0}
      BY <2>1, <2>2, <2>3
    <3> DEFINE n == last - start + 1
    <3>2. rows = [i \in 1 .. n |-> last - i + 1] /\ n \in Nat \ {0}
      BY <2>4, <3>1
    <3>3. last \in Nat
      BY <2>1, <2>2, <2>3
    <3>4. rows \in Seq(Int) /\ Len(rows) = n /\ rows[n] = last - n + 1
      <4> HIDE DEF n
      <4>. QED  BY <3>2, <3>3
    <3>. QED  BY <2>1, <2>2, <2>3, <3>4
  <2>6. NextBefore(rows) \in {0, start}
    BY <2>5 DEF NextBefore
  <2>7. NextBefore(rows) \in 0 .. tip /\ (before # 0 => NextBefore(rows) < before)
    BY <2>1, <2>2, <2>6
  <2>. QED  BY <2>7 DEF rows
<1>. QED  BY <1>1, <1>2

LEMMA LedgersFacts ==
  ASSUME ServersInv, NEW server \in Servers, NEW before \in 0 .. tip,
         NEW rows \in LedgersOf(server, before)
  PROVE  /\ NextBefore(rows) \in 0 .. tip
         /\ before # 0 => NextBefore(rows) < before
         /\ server # "rpc" => LeadsDown(rows, before)
         /\ server = "indexer" =>
              \A l \in indexed : before = 0 \/ l < before =>
                                   l \in Range(rows) \/ \A s \in Range(rows) : l < s
<1>1. tip \in Nat /\ indexed \in SUBSET (1 .. tip) /\ (1 .. tip) \in SUBSET (1 .. tip)
  BY DEF ServersInv
<1>2. CASE server = "indexer"
  <2>1. rows = Highest(Below(indexed, before), Limit)
    BY <1>2 DEF LedgersOf, IndexerLedgers
  <2>. QED  BY <1>1, <2>1, HighestLeadsDown
<1>3. CASE server = "horizon"
  <2>1. \/ rows = Highest(Below(1 .. tip, before), Limit)
        \/ before # 0 /\ rows = <<>>
    BY <1>3 DEF LedgersOf, HorizonLedgers
  <2>2. CASE before # 0 /\ rows = <<>>
    <3>1. NextBefore(rows) = 0 /\ Range(rows) = {}
      BY <2>2, PagingAssumption DEF NextBefore, Range
    <3>. QED  BY <1>1, <1>3, <2>2, <3>1 DEF LeadsDown
  <2>. QED  BY <1>1, <1>3, <2>1, <2>2, HighestLeadsDown
<1>4. CASE server = "rpc"
  <2>1. rows = RpcLedgers(before)
    BY <1>4 DEF LedgersOf
  <2>. QED  BY <1>1, <1>4, <2>1, RpcGoesBack
<1>. QED  BY <1>2, <1>3, <1>4 DEF Servers

\* Unless the RPC server sent a page, the next one begins below all that was
\* shown; and an indexer's pages have shown all it had above that.
LedgersInv ==
  page.what = "ledgers" =>
    /\ IsTrail(trail)
    /\ page.next \in 0 .. tip
    /\ page.asked # 0 => page.next < page.asked
    /\ trail.servers # {}
    /\ "rpc" \notin trail.servers =>
         /\ ~ trail.broken
         /\ trail.seen \in SUBSET Nat
         /\ page.next # 0 => page.next \in trail.seen /\ \A s \in trail.seen : page.next <= s
    /\ trail.servers = {"indexer"} =>
         /\ trail.start \in SUBSET indexed
         /\ \A l \in trail.start : l \in trail.seen \/ \A s \in trail.seen : l < s

\* What holds of the trail before a page is asked for.
Ready(t, before) ==
  /\ IsTrail(t)
  /\ before \in 0 .. tip
  /\ "rpc" \notin t.servers =>
       /\ ~ t.broken
       /\ t.seen \in SUBSET Nat
       /\ before = 0 => t.seen = {}
       /\ before # 0 => \A s \in t.seen : before <= s
  /\ t.servers \in SUBSET {"indexer"} =>
       /\ t.start \in SUBSET indexed
       /\ before # 0 => before \in t.seen
       /\ \A l \in t.start : l \in t.seen \/ \A s \in t.seen : l < s

LEMMA LedgersStepFacts ==
  ASSUME ServersInv, Still, NEW server \in Servers, NEW before, NEW t, Ready(t, before),
         LedgersShown(before, t, server)
  PROVE  LedgersInv'
<1>a. PICK rows \in LedgersOf(server, before) :
        /\ page'.what = "ledgers" /\ page'.asked = before
        /\ page'.next = NextBefore(rows) /\ trail' = Extended(t, rows, {server})
  BY DEF LedgersShown
<1> DEFINE next == NextBefore(rows)
<1> DEFINE e == Extended(t, rows, {server})
<1>0. tip' = tip /\ indexed' = indexed /\ tip \in Nat /\ indexed \in SUBSET (1 .. tip)
  BY DEF Still, ServersInv
<1>1. page'.what = "ledgers" /\ page'.asked = before /\ page'.next = next /\ trail' = e
  BY <1>a
<1>2. /\ next \in 0 .. tip
      /\ before # 0 => next < before
      /\ server # "rpc" => LeadsDown(rows, before)
      /\ server = "indexer" =>
           \A l \in indexed : before = 0 \/ l < before =>
                                l \in Range(rows) \/ \A s \in Range(rows) : l < s
  BY LedgersFacts DEF Ready
<1>3. /\ IsTrail(e)
      /\ e.seen = t.seen \cup Range(rows)
      /\ e.servers = t.servers \cup {server}
      /\ e.start = t.start
      /\ e.broken = (t.broken \/ Repeats(t, rows))
  BY ExtendedFacts DEF Ready
<1> HIDE DEF next, e
<1>4. ASSUME "rpc" \notin e.servers
      PROVE  /\ ~ e.broken
             /\ e.seen \in SUBSET Nat
             /\ next # 0 => next \in e.seen /\ \A s \in e.seen : next <= s
  <2>1. LeadsDown(rows, before) /\ "rpc" \notin t.servers
    BY <1>2, <1>3, <1>4
  <2>2. /\ ~ t.broken /\ t.seen \in SUBSET Nat
        /\ before = 0 => t.seen = {}
        /\ before # 0 => \A s \in t.seen : before <= s
    BY <2>1 DEF Ready
  <2>3. /\ Range(rows) \in SUBSET Nat
        /\ before # 0 => \A l \in Range(rows) : l < before
        /\ next # 0 => next \in Range(rows) /\ \A l \in Range(rows) : next <= l
    BY <2>1 DEF LeadsDown, next
  <2>4. before \in Nat /\ next \in Nat
    BY <1>0, <1>2 DEF Ready
  <2>5. ~ Repeats(t, rows)
    <3> SUFFICES ASSUME NEW x \in Range(rows), x \in t.seen
                 PROVE  FALSE
      BY DEF Repeats
    <3>1. before # 0 /\ x < before /\ before <= x /\ x \in Nat
      BY <2>2, <2>3
    <3>. QED  BY <2>4, <3>1
  <2>6. next # 0 => next \in e.seen /\ \A s \in e.seen : next <= s
    <3> SUFFICES ASSUME next # 0, NEW s \in e.seen
                 PROVE  next \in e.seen /\ next <= s
      BY <1>3, <2>3
    <3>1. next \in e.seen
      BY <1>3, <2>3
    <3>2. CASE s \in Range(rows)
      BY <2>3, <3>1, <3>2
    <3>3. CASE s \in t.seen
      <4>1. before # 0 /\ before <= s /\ s \in Nat
        BY <2>2, <3>3
      <4>. QED  BY <1>2, <2>4, <3>1, <4>1
    <3>. QED  BY <1>3, <3>2, <3>3
  <2>. QED  BY <1>3, <2>2, <2>3, <2>5, <2>6
<1>5. ASSUME e.servers = {"indexer"}
      PROVE  /\ e.start \in SUBSET indexed
             /\ \A l \in e.start : l \in e.seen \/ \A s \in e.seen : l < s
  <2>1. server = "indexer" /\ t.servers \in SUBSET {"indexer"} /\ "rpc" \notin t.servers
    BY <1>3, <1>5
  <2>2. /\ t.start \in SUBSET indexed
        /\ before # 0 => before \in t.seen
        /\ \A l \in t.start : l \in t.seen \/ \A s \in t.seen : l < s
        /\ before = 0 => t.seen = {}
    BY <2>1 DEF Ready
  <2>3. \A l \in indexed : before = 0 \/ l < before =>
                             l \in Range(rows) \/ \A s \in Range(rows) : l < s
    BY <1>2, <2>1
  <2>4. ASSUME NEW l \in t.start, l \notin e.seen, NEW s \in e.seen
        PROVE  l < s
    <3>1. l \notin t.seen /\ l \notin Range(rows) /\ l \in indexed
      BY <1>3, <2>2, <2>4
    <3>2. \A x \in t.seen : l < x
      BY <2>2, <3>1
    <3>3. before = 0 \/ l < before
      BY <2>2, <3>2
    <3>4. \A x \in Range(rows) : l < x
      BY <2>3, <3>1, <3>3
    <3>. QED  BY <1>3, <3>2, <3>4
  <2>. QED  BY <1>3, <2>2, <2>4
<1>. QED  BY <1>0, <1>1, <1>2, <1>3, <1>4, <1>5 DEF LedgersInv

LEMMA NextLedgersInv ==
  ASSUME TypeInv, LedgersInv, [Next]_vars
  PROVE  LedgersInv'
<1>0. Grown /\ ServersInv /\ tip \in Nat
  BY NextType DEF TypeInv, ServersInv
<1>1. CASE page' = page /\ trail' = trail
  <2>1. tip' \in Nat /\ tip' >= tip /\ indexed \in SUBSET indexed'
    BY <1>0 DEF Grown
  <2>2. CASE page.what = "ledgers"
    <3>1. page.next \in 0 .. tip'
      BY <1>0, <2>1, <2>2 DEF LedgersInv
    <3>2. trail.servers = {"indexer"} => trail.start \in SUBSET indexed'
      BY <2>1, <2>2 DEF LedgersInv
    <3>. QED  BY <1>1, <2>2, <3>1, <3>2 DEF LedgersInv
  <2>. QED  BY <1>1, <2>2 DEF LedgersInv
<1>2. CASE Refused
  BY <1>2 DEF LedgersInv, Refused
<1>3. CASE FetchStep
  <2>1. page'.what # "ledgers"
    BY <1>3 DEF FetchStep, Opened
  <2>. QED  BY <2>1 DEF LedgersInv
<1>4. CASE Still /\ LedgersStep
  <2>1. PICK server \in Servers :
          \/ LedgersShown(0, [NoTrail EXCEPT !.start = indexed], server)
          \/ page.what = "ledgers" /\ page.next # 0 /\ LedgersShown(page.next, trail, server)
    BY <1>4 DEF LedgersStep
  <2>2. CASE LedgersShown(0, [NoTrail EXCEPT !.start = indexed], server)
    <3> DEFINE t == [NoTrail EXCEPT !.start = indexed]
    <3>1. IsTrail(t) /\ t.seen = {} /\ t.servers = {} /\ t.start = indexed /\ t.broken = FALSE
      BY NewTrail
    <3>2. LedgersShown(0, t, server)
      BY <2>2
    <3> HIDE DEF t
    <3>3. 0 \in 0 .. tip
      BY <1>0
    <3>4. Ready(t, 0)
      BY <3>1, <3>3 DEF Ready
    <3>. QED  BY <1>0, <1>4, <3>2, <3>4, LedgersStepFacts
  <2>3. CASE page.what = "ledgers" /\ page.next # 0 /\ LedgersShown(page.next, trail, server)
    <3>1. Ready(trail, page.next)
      BY <2>3 DEF LedgersInv, Ready
    <3>. QED  BY <1>0, <1>4, <2>3, <3>1, LedgersStepFacts
  <2>. QED  BY <2>1, <2>2, <2>3
<1>5. CASE ListStep
  <2>1. page'.what = page.what /\ page.what \in {"lookup", "row"}
    BY <1>5 DEF ListStep, ListShown, TypeInv, PageLists
  <2>. QED  BY <2>1 DEF LedgersInv
<1>. QED  BY <1>1, <1>2, <1>3, <1>4, <1>5, Steps

\* Along the pages of ledgers each asks further back, only the RPC server shows a
\* ledger twice, and an indexer's pages pass over no ledger it had at the start
\* (LedgerPagesDescend), for any size of page, while ledgers are closed and gaps
\* are filled between the requests.
THEOREM LedgerPagesLeadDown == Spec => []LedgerPagesDescend
<1>1. Init => TypeInv /\ LedgersInv
  <2>1. Home.what = "home"
    BY DEF Home
  <2>2. Init => page.what = "home"
    BY <2>1 DEF Init
  <2>3. Init => LedgersInv
    BY <2>2 DEF LedgersInv
  <2>. QED  BY <2>3, InitType
<1>2. TypeInv /\ LedgersInv /\ [Next]_vars => TypeInv' /\ LedgersInv'
  BY NextType, NextLedgersInv
<1>3. LedgersInv => LedgerPagesDescend
  BY DEF LedgersInv, LedgerPagesDescend
<1>. QED  BY <1>1, <1>2, <1>3, PTL DEF Spec

-----------------------------------------------------------------------------
(* The lists of a page.                                                     *)

RowsHeld(list) == IF list \in Growing THEN size ELSE FirstSize

\* Where a row is in its list.
Place(list, r) == IF list \in Growing THEN size - r + 1 ELSE r

LEMMA HeldFacts ==
  ASSUME ServersInv, NEW list
  PROVE  /\ RowsHeld(list) \in Nat
         /\ Held(list) \in Seq(Nat) /\ Len(Held(list)) = RowsHeld(list)
         /\ Range(Held(list)) \in SUBSET (1 .. RowsHeld(list))
         /\ \A r \in 1 .. RowsHeld(list) :
              Place(list, r) \in 1 .. RowsHeld(list) /\ Held(list)[Place(list, r)] = r
<1>0. size \in Nat /\ FirstSize \in Nat
  BY PagingAssumption DEF ServersInv
<1>1. CASE list \in Growing
  <2>1. Held(list) = [i \in 1 .. size |-> size - i + 1] /\ RowsHeld(list) = size
    BY <1>1 DEF Held, Newest, RowsHeld
  <2> DEFINE h == Held(list)
  <2>2. h \in [1 .. size -> Nat] /\ DOMAIN h = 1 .. size
    BY <1>0, <2>1
  <2>3. \A i \in 1 .. size : h[i] = size - i + 1
    BY <2>1
  <2> HIDE DEF h
  <2>4. h \in Seq(Nat) /\ Len(h) = size
    BY <1>0, <2>2
  <2>5. Range(h) \in SUBSET (1 .. size)
    BY <1>0, <2>2, <2>3 DEF Range
  <2>6. \A r \in 1 .. size : Place(list, r) \in 1 .. size /\ h[Place(list, r)] = r
    <3> SUFFICES ASSUME NEW r \in 1 .. size
                 PROVE  Place(list, r) \in 1 .. size /\ h[Place(list, r)] = r
      OBVIOUS
    <3>1. Place(list, r) = size - r + 1
      BY <1>1 DEF Place
    <3>2. size - r + 1 \in 1 .. size /\ size - (size - r + 1) + 1 = r
      BY <1>0
    <3>. QED  BY <2>3, <3>1, <3>2
  <2>. QED  BY <1>0, <2>1, <2>4, <2>5, <2>6 DEF h
<1>2. CASE list \notin Growing
  <2>1. Held(list) = [i \in 1 .. FirstSize - 1 + 1 |-> 1 + i - 1] /\ RowsHeld(list) = FirstSize
    BY <1>2 DEF Held, Ascending, RowsHeld
  <2>2. FirstSize - 1 + 1 = FirstSize
    BY <1>0
  <2> DEFINE h == Held(list)
  <2>3. h = [i \in 1 .. FirstSize |-> 1 + i - 1]
    BY <2>1, <2>2
  <2>4. h \in [1 .. FirstSize -> Nat] /\ DOMAIN h = 1 .. FirstSize
    BY <1>0, <2>3
  <2>5. \A i \in 1 .. FirstSize : h[i] = i
    BY <1>0, <2>3
  <2> HIDE DEF h
  <2>6. h \in Seq(Nat) /\ Len(h) = FirstSize
    BY <1>0, <2>4
  <2>7. Range(h) \in SUBSET (1 .. FirstSize)
    BY <2>4, <2>5 DEF Range
  <2>8. \A r \in 1 .. FirstSize : Place(list, r) \in 1 .. FirstSize /\ h[Place(list, r)] = r
    BY <1>2, <2>5 DEF Place
  <2>. QED  BY <1>0, <2>1, <2>6, <2>7, <2>8 DEF h
<1>. QED  BY <1>1, <1>2

LEMMA SliceFacts ==
  ASSUME NEW s \in Seq(Nat), NEW limit \in Nat, NEW offset \in Nat,
         Slice(s, limit, offset) # <<>>
  PROVE  LET rows == Slice(s, limit, offset)
             last == Smallest(offset + limit, Len(s)) IN
         /\ last \in offset + 1 .. Len(s)
         /\ Len(rows) = last - offset
         /\ \A i \in offset + 1 .. last : s[i] \in Range(rows)
<1> DEFINE last == Smallest(offset + limit, Len(s))
<1> DEFINE rows == SubSeq(s, offset + 1, last)
<1>1. last \in Nat /\ last <= Len(s)
  BY DEF Smallest
<1>2. rows = Slice(s, limit, offset) /\ rows # <<>>
  BY DEF Slice
<1> HIDE DEF last
<1> DEFINE first == offset + 1
<1>3. first \in Int /\ last \in Int /\ rows = SubSeq(s, first, last)
  BY <1>1 DEF rows
<1> HIDE DEF rows
<1>4. last >= first
  <2>1. first > last \/ last >= first
    BY <1>1
  <2>2. last < first => rows = <<>>
    BY <1>3, SubSeqEmpty
  <2>. QED  BY <1>1, <1>2, <2>1, <2>2
<1>5. /\ rows \in Seq(Nat)
      /\ Len(rows) = last - first + 1
      /\ \A i \in 1 .. last - first + 1 : rows[i] = s[first + i - 1]
  <2>1. \A i \in first .. last : s[i] \in Nat
    BY <1>1
  <2> HIDE DEF first
  <2>2. /\ rows \in Seq(Nat)
        /\ Len(rows) = IF first <= last THEN last - first + 1 ELSE 0
        /\ \A i \in 1 .. last - first + 1 : rows[i] = s[first + i - 1]
    BY <1>3, <2>1, SubSeqProperties
  <2>. QED  BY <1>3, <1>4, <2>2
<1>6. last - first + 1 = last - offset /\ \A i \in Nat : first + i - 1 = i + offset
  BY <1>1
<1>7. /\ Len(rows) = last - offset
      /\ DOMAIN rows = 1 .. last - offset
      /\ \A i \in 1 .. last - offset : rows[i] = s[i + offset]
  BY <1>5, <1>6
<1>8. ASSUME NEW i \in offset + 1 .. last
      PROVE  s[i] \in Range(rows)
  <2>1. i - offset \in 1 .. last - offset /\ i - offset + offset = i
    BY <1>1
  <2>2. rows[i - offset] = s[i]
    BY <1>7, <2>1
  <2>. QED  BY <1>7, <2>1, <2>2 DEF Range
<1>. QED  BY <1>1, <1>2, <1>4, <1>7, <1>8 DEF last

\* A row, or where the rows of a ledger tie the other one, is among some.
Among(server, list, r, seen) ==
  r \in seen \/ (server = "indexer" /\ list \in Tied /\ Neighbour(r) \in seen)

\* The request shows what there is from its offset on up to the next one's; the
\* last one shows all there is, but for what Horizon does not fetch.
Covers(server, list, offset, rows) ==
  LET next == NextOffset(offset, rows) IN
  /\ next \in Nat
  /\ \A i \in 1 .. RowsHeld(list) :
       (offset < i /\ (i <= next \/ next = 0)) =>
         \/ Among(server, list, Held(list)[i], Range(rows))
         \/ next = 0 /\ server = "horizon" /\ RowsHeld(list) > HorizonCap

\* Rows from a sequence that holds at each place what the list does, or its tie.
LEMMA SliceCovers ==
  ASSUME ServersInv, NEW server, NEW list, NEW offset \in Nat, NEW s \in Seq(Nat),
         Len(s) <= RowsHeld(list),
         \A i \in 1 .. Len(s) : \A seen : s[i] \in seen => Among(server, list, Held(list)[i], seen),
         \/ Len(s) = RowsHeld(list)
         \/ Len(s) >= offset + Limit
         \/ server = "horizon" /\ RowsHeld(list) > HorizonCap,
         Slice(s, Limit, offset) # <<>>
  PROVE  Covers(server, list, offset, Slice(s, Limit, offset))
<1> DEFINE rows == Slice(s, Limit, offset)
<1> DEFINE last == Smallest(offset + Limit, Len(s))
<1> DEFINE next == NextOffset(offset, rows)
<1>0. Limit \in Nat \ {0} /\ RowsHeld(list) \in Nat /\ Len(s) \in Nat
  BY PagingAssumption, HeldFacts
<1>1. /\ last \in offset + 1 .. Len(s)
      /\ Len(rows) = last - offset
      /\ \A i \in offset + 1 .. last : s[i] \in Range(rows)
  BY <1>0, SliceFacts
<1>2. last = offset + Limit \/ (last = Len(s) /\ Len(s) < offset + Limit)
  BY <1>0 DEF Smallest
<1> HIDE DEF rows, last
<1>3. last \in Nat /\ last > offset /\ last <= Len(s)
  BY <1>0, <1>1
<1>4. \/ next = 0 /\ last < offset + Limit
      \/ next = last /\ last = offset + Limit
  BY <1>0, <1>1, <1>2, <1>3 DEF NextOffset
<1>5. next \in Nat
  BY <1>3, <1>4
<1> HIDE DEF next
<1>6. ASSUME NEW i \in 1 .. RowsHeld(list), offset < i, i <= next \/ next = 0
      PROVE  \/ Among(server, list, Held(list)[i], Range(rows))
             \/ next = 0 /\ server = "horizon" /\ RowsHeld(list) > HorizonCap
  <2>1. CASE i <= last
    <3>1. i \in offset + 1 .. last /\ i \in 1 .. Len(s)
      BY <1>0, <1>3, <1>6, <2>1
    <3>2. s[i] \in Range(rows)
      BY <1>1, <3>1
    <3>. QED  BY <3>1, <3>2
  <2>2. CASE ~ i <= last
    <3>1. next = 0 /\ last = Len(s) /\ Len(s) < offset + Limit
      BY <1>0, <1>2, <1>3, <1>4, <1>6, <2>2
    <3>2. Len(s) # RowsHeld(list)
      BY <1>0, <1>6, <2>2, <3>1
    <3>. QED  BY <1>0, <3>1, <3>2
  <2>. QED  BY <2>1, <2>2
<1>. QED  BY <1>5, <1>6 DEF Covers, rows, next

LEMMA RowsCover ==
  ASSUME ServersInv, NEW list, NEW server \in {"indexer", "horizon"}, NEW offset \in Nat,
         NEW rows \in RowsOf(server, list, offset), rows # <<>>
  PROVE  Covers(server, list, offset, rows)
<1> DEFINE held == Held(list)
<1>0. /\ held \in Seq(Nat) /\ Len(held) = RowsHeld(list) /\ DOMAIN held = 1 .. RowsHeld(list)
      /\ RowsHeld(list) \in Nat
  BY HeldFacts
<1>1. CASE server = "indexer"
  <2>1. PICK s \in Sorted(list) : rows = Slice(s, Limit, offset)
    BY <1>1 DEF RowsOf, IndexerRows
  <2>2. /\ s \in Seq(Nat) /\ Len(s) = RowsHeld(list)
        /\ \A i \in 1 .. RowsHeld(list) : s[i] = held[i] \/ (list \in Tied /\ s[i] = Neighbour(held[i]))
    <3>1. CASE list \notin Tied
      <4>1. s = held
        BY <2>1, <3>1 DEF Sorted
      <4>. QED  BY <1>0, <4>1
    <3>2. CASE list \in Tied
      <4>1. PICK L : s = [i \in DOMAIN held |->
                            IF LedgerOfRow(held[i]) \in L THEN Neighbour(held[i]) ELSE held[i]]
        BY <2>1, <3>2 DEF Sorted
      <4> HIDE DEF held
      <4>2. \A r \in Nat : Neighbour(r) \in Nat
        BY DEF Neighbour
      <4>3. /\ s \in [1 .. RowsHeld(list) -> Nat]
            /\ \A i \in 1 .. RowsHeld(list) : s[i] = held[i] \/ s[i] = Neighbour(held[i])
        <5>0. \A i \in 1 .. RowsHeld(list) : held[i] \in Nat
          BY <1>0
        <5>1. \A i \in 1 .. RowsHeld(list) : held[i] \in Nat /\ Neighbour(held[i]) \in Nat
          BY <4>2, <5>0
        <5>2. DOMAIN s = 1 .. RowsHeld(list)
          BY <1>0, <4>1
        <5>3. \A i \in 1 .. RowsHeld(list) : s[i] = held[i] \/ s[i] = Neighbour(held[i])
          BY <1>0, <4>1
        <5>4. s = [i \in 1 .. RowsHeld(list) |-> s[i]]
          BY <4>1, <5>2
        <5>. QED  BY <5>1, <5>3, <5>4
      <4>4. s \in Seq(Nat) /\ Len(s) = RowsHeld(list)
        BY <1>0, <4>3
      <4>. QED  BY <3>2, <4>3, <4>4
    <3>. QED  BY <3>1, <3>2
  <2>3. \A i \in 1 .. Len(s) : \A seen : s[i] \in seen => Among(server, list, held[i], seen)
    <3> HIDE DEF held
    <3>. QED  BY <1>1, <2>2 DEF Among
  <2>4. Len(s) <= RowsHeld(list) /\ Slice(s, Limit, offset) # <<>>
    BY <1>0, <2>1, <2>2
  <2>. QED  BY <2>1, <2>2, <2>3, <2>4, SliceCovers
<1>2. CASE server = "horizon"
  <2> DEFINE fetched == Smallest(Smallest(Limit + offset, HorizonCap), Len(held))
  <2> DEFINE s == SubSeq(held, 1, fetched)
  <2>1. rows = Slice(s, Limit, offset)
    BY <1>2 DEF RowsOf, HorizonRows
  <2>2. /\ fetched \in Nat /\ fetched <= RowsHeld(list)
        /\ \/ fetched = RowsHeld(list)
           \/ fetched = offset + Limit
           \/ fetched = HorizonCap /\ HorizonCap < RowsHeld(list)
    <3>1. Limit \in Nat /\ HorizonCap \in Nat
      BY PagingAssumption
    <3> HIDE DEF held
    <3>. QED  BY <1>0, <3>1 DEF Smallest
  <2> HIDE DEF fetched, held
  <2>3. /\ s \in Seq(Nat) /\ Len(s) = fetched
        /\ \A i \in 1 .. fetched : s[i] = held[i]
    <3>1. \A i \in 1 .. fetched : held[i] \in Nat
      BY <1>0, <2>2
    <3>2. /\ s \in Seq(Nat)
          /\ Len(s) = IF 1 <= fetched THEN fetched - 1 + 1 ELSE 0
          /\ \A i \in 1 .. fetched - 1 + 1 : s[i] = held[1 + i - 1]
      BY <2>2, <3>1, SubSeqProperties
    <3> HIDE DEF s
    <3>. QED  BY <2>2, <3>2
  <2> HIDE DEF s
  <2>4. \A i \in 1 .. Len(s) : \A seen : s[i] \in seen => Among(server, list, held[i], seen)
    BY <2>3 DEF Among
  <2>5. \/ Len(s) = RowsHeld(list)
        \/ Len(s) >= offset + Limit
        \/ server = "horizon" /\ RowsHeld(list) > HorizonCap
    <3>1. Limit \in Nat /\ HorizonCap \in Nat
      BY PagingAssumption
    <3>. QED  BY <1>0, <1>2, <2>2, <2>3, <3>1
  <2>6. Len(s) <= RowsHeld(list)
    BY <2>2, <2>3
  <2>. QED  BY <2>1, <2>3, <2>4, <2>5, <2>6, SliceCovers DEF held
<1>. QED  BY <1>1, <1>2

\* Up to the next offset a server that sent every page has shown what there was
\* at the start, and at the end all of it.
ShownOf(t, list, r) == Among(CHOOSE s \in t.servers : TRUE, list, r, t.seen)

Alone(t) == t.servers \in {{"indexer"}, {"horizon"}}

ListsInv ==
  page.list # "" =>
    /\ IsTrail(trail)
    /\ trail.servers # {}
    /\ trail.start \in SUBSET (1 .. RowsHeld(page.list))
    /\ Alone(trail) =>
         /\ page.next \in Nat
         /\ \A r \in trail.start :
              \/ ShownOf(trail, page.list, r)
              \/ page.next # 0 /\ Place(page.list, r) > page.next
              \/ page.next = 0 /\ trail.servers = {"horizon"} /\ RowsHeld(page.list) > HorizonCap

\* What holds of the trail before rows are asked for.
Followed(t, list, offset) ==
  /\ IsTrail(t)
  /\ t.start \in SUBSET (1 .. RowsHeld(list))
  /\ t.servers = {} => t.seen = {} /\ offset = 0
  /\ Alone(t) =>
       /\ offset \in Nat
       /\ \A r \in t.start : ShownOf(t, list, r) \/ Place(list, r) > offset

LEMMA ListStepFacts ==
  ASSUME ServersInv, Still, NEW list, NEW offset, NEW t, NEW server \in Servers,
         NEW rows \in RowsOf(server, list, offset), Followed(t, list, offset),
         ListShown(list, offset, t, server, rows)
  PROVE  ListsInv'
<1> DEFINE next == NextOffset(offset, rows)
<1> DEFINE e == Extended(t, rows, {server})
<1>1. page'.list = list /\ page'.next = next /\ trail' = e /\ rows # <<>>
  BY DEF ListShown
<1>2. /\ IsTrail(e)
      /\ e.seen = t.seen \cup Range(rows)
      /\ e.servers = t.servers \cup {server}
      /\ e.start = t.start
  BY ExtendedFacts DEF Followed
<1>3. /\ RowsHeld(list)' = RowsHeld(list)
      /\ \A r : Place(list, r)' = Place(list, r)
  BY DEF Still, RowsHeld, Place
<1>4. e.start \in SUBSET (1 .. RowsHeld(list)) /\ RowsHeld(list) \in Nat
  BY <1>2, HeldFacts DEF Followed
<1> HIDE DEF e
<1>5. ASSUME Alone(e)
      PROVE  /\ next \in Nat
             /\ \A r \in e.start :
                  \/ ShownOf(e, list, r)
                  \/ next # 0 /\ Place(list, r) > next
                  \/ next = 0 /\ e.servers = {"horizon"} /\ RowsHeld(list) > HorizonCap
  <2>1. /\ server \in {"indexer", "horizon"} /\ e.servers = {server}
        /\ t.servers = {} \/ t.servers = {server}
    BY <1>2, <1>5 DEF Alone
  <2>2. offset \in Nat
    BY <2>1 DEF Followed, Alone
  <2>3. Covers(server, list, offset, rows)
    BY <1>1, <2>1, <2>2, RowsCover
  <2>4. /\ next \in Nat
        /\ \A i \in 1 .. RowsHeld(list) :
             (offset < i /\ (i <= next \/ next = 0)) =>
               \/ Among(server, list, Held(list)[i], Range(rows))
               \/ next = 0 /\ server = "horizon" /\ RowsHeld(list) > HorizonCap
    BY <2>3 DEF Covers
  <2>5. \A r : Among(server, list, r, e.seen) => ShownOf(e, list, r)
    BY <2>1 DEF ShownOf
  <2> HIDE DEF next
  <2>6. ASSUME NEW r \in e.start
        PROVE  \/ ShownOf(e, list, r)
               \/ next # 0 /\ Place(list, r) > next
               \/ next = 0 /\ e.servers = {"horizon"} /\ RowsHeld(list) > HorizonCap
    <3>1. Place(list, r) \in 1 .. RowsHeld(list) /\ Held(list)[Place(list, r)] = r
      BY <1>4, HeldFacts
    <3>2. CASE Place(list, r) > offset
      <4>1. CASE Place(list, r) <= next \/ next = 0
        <5>1. \/ Among(server, list, r, Range(rows))
              \/ next = 0 /\ server = "horizon" /\ RowsHeld(list) > HorizonCap
          BY <2>2, <2>4, <3>1, <3>2, <4>1
        <5>2. Among(server, list, r, Range(rows)) => Among(server, list, r, e.seen)
          BY <1>2 DEF Among
        <5>. QED  BY <2>1, <2>5, <5>1, <5>2
      <4>2. CASE ~ (Place(list, r) <= next \/ next = 0)
        BY <1>4, <2>4, <3>1, <4>2
      <4>. QED  BY <4>1, <4>2
    <3>3. CASE ~ Place(list, r) > offset
      <4>1. t.servers = {server}
        BY <1>4, <2>1, <2>2, <3>1, <3>3 DEF Followed
      <4>2. ShownOf(t, list, r)
        BY <1>2, <2>1, <3>3, <4>1 DEF Followed, Alone
      <4>3. Among(server, list, r, t.seen)
        BY <4>1, <4>2 DEF ShownOf
      <4>4. Among(server, list, r, e.seen)
        BY <1>2, <4>3 DEF Among
      <4>. QED  BY <2>5, <4>4
    <3>. QED  BY <3>2, <3>3
  <2>. QED  BY <2>4, <2>6
<1>6. e.servers # {}
  BY <1>2
<1> HIDE DEF next
<1>. QED  BY <1>1, <1>2, <1>3, <1>4, <1>5, <1>6 DEF ListsInv

\* New rows lengthen a list and move what it holds away from its start.
LEMMA RowsComeIn ==
  ASSUME NEW list, size \in Nat, size' \in Nat, size' >= size
  PROVE  /\ RowsHeld(list) \in Nat /\ RowsHeld(list)' \in Nat
         /\ RowsHeld(list)' >= RowsHeld(list)
         /\ \A r \in Nat : /\ Place(list, r) \in Int /\ Place(list, r)' \in Int
                           /\ Place(list, r)' >= Place(list, r)
<1>0. FirstSize \in Nat
  BY PagingAssumption
<1>1. CASE list \in Growing
  <2>1. RowsHeld(list) = size /\ RowsHeld(list)' = size'
    BY <1>1 DEF RowsHeld
  <2>2. \A r : Place(list, r) = size - r + 1 /\ Place(list, r)' = size' - r + 1
    BY <1>1 DEF Place
  <2>. QED  BY <2>1, <2>2
<1>2. CASE list \notin Growing
  <2>1. RowsHeld(list) = FirstSize /\ RowsHeld(list)' = FirstSize
    BY <1>2 DEF RowsHeld
  <2>2. \A r : Place(list, r) = r /\ Place(list, r)' = r
    BY <1>2 DEF Place
  <2>. QED  BY <1>0, <2>1, <2>2
<1>. QED  BY <1>1, <1>2

LEMMA NextListsInv ==
  ASSUME TypeInv, ListsInv, [Next]_vars
  PROVE  ListsInv'
<1>0. Grown /\ ServersInv /\ size \in Nat /\ FirstSize \in Nat
  BY NextType, PagingAssumption DEF TypeInv, ServersInv
<1>1. CASE page' = page /\ trail' = trail
  <2>a. SUFFICES ASSUME page.list # ""
                 PROVE  ListsInv'
    BY <1>1 DEF ListsInv
  <2>0. PICK list : list = page.list
    OBVIOUS
  <2>1. size' \in Nat /\ size' >= size
    BY <1>0 DEF Grown
  <2>2. /\ RowsHeld(list) \in Nat /\ RowsHeld(list)' \in Nat
        /\ RowsHeld(list)' >= RowsHeld(list)
    BY <1>0, <2>1, RowsComeIn
  <2>3. trail.start \in SUBSET (1 .. RowsHeld(list)) /\ IsTrail(trail) /\ trail.servers # {}
    BY <2>a, <2>0 DEF ListsInv
  <2>4. trail.start \in SUBSET (1 .. RowsHeld(list)') /\ trail.start \in SUBSET Nat
    <3>1. ASSUME NEW r, r \in trail.start
          PROVE  r \in 1 .. RowsHeld(list)' /\ r \in Nat
      <4>1. r \in 1 .. RowsHeld(list)
        BY <2>3, <3>1
      <4>2. PICK m \in Nat, n \in Nat : m = RowsHeld(list) /\ n = RowsHeld(list)' /\ n >= m
        BY <2>2
      <4>3. m \in Nat /\ n \in Nat /\ r \in 1 .. m /\ n >= m
        BY <4>1, <4>2
      <4>4. r \in 1 .. n /\ r \in Nat
        BY <4>3
      <4>. QED  BY <4>2, <4>4
    <3>. QED  BY <3>1
  <2>5. ASSUME Alone(trail)
        PROVE  /\ page.next \in Nat
               /\ \A r \in trail.start :
                    \/ ShownOf(trail, list, r)
                    \/ page.next # 0 /\ Place(list, r)' > page.next
                    \/ /\ page.next = 0 /\ trail.servers = {"horizon"}
                       /\ RowsHeld(list)' > HorizonCap
    <3>0. HorizonCap \in Nat
      BY PagingAssumption
    <3>1. page.next \in Nat
      BY <2>a, <2>0, <2>5 DEF ListsInv
    <3>2. ASSUME NEW r, r \in trail.start
          PROVE  \/ ShownOf(trail, list, r)
                 \/ page.next # 0 /\ Place(list, r)' > page.next
                 \/ /\ page.next = 0 /\ trail.servers = {"horizon"}
                    /\ RowsHeld(list)' > HorizonCap
      <4>1. \/ ShownOf(trail, list, r)
            \/ page.next # 0 /\ Place(list, r) > page.next
            \/ page.next = 0 /\ trail.servers = {"horizon"} /\ RowsHeld(list) > HorizonCap
        BY <2>a, <2>0, <2>5, <3>2 DEF ListsInv
      <4>2. r \in Nat
        BY <2>4, <3>2
      <4>3. Place(list, r) > page.next => Place(list, r)' > page.next
        <5>1. PICK m \in Int, n \in Int : m = Place(list, r) /\ n = Place(list, r)' /\ n >= m
          BY <1>0, <2>1, <4>2, RowsComeIn
        <5>2. m \in Int /\ n \in Int /\ n >= m
          BY <5>1
        <5>3. m > page.next => n > page.next
          BY <3>1, <5>2
        <5>. QED  BY <5>1, <5>3
      <4>4. RowsHeld(list) > HorizonCap => RowsHeld(list)' > HorizonCap
        <5>1. PICK m \in Nat, n \in Nat : m = RowsHeld(list) /\ n = RowsHeld(list)' /\ n >= m
          BY <2>2
        <5>2. m \in Nat /\ n \in Nat /\ n >= m
          BY <5>1
        <5>3. m > HorizonCap => n > HorizonCap
          BY <3>0, <5>2
        <5>. QED  BY <5>1, <5>3
      <4>. QED  BY <4>1, <4>3, <4>4
    <3>. QED  BY <3>1, <3>2
  <2>. QED  BY <1>1, <2>a, <2>0, <2>3, <2>4, <2>5 DEF ListsInv
<1>2. CASE Refused
  BY <1>2 DEF ListsInv, Refused
<1>3. CASE FetchStep
  <2>1. page'.list = ""
    BY <1>3 DEF FetchStep, Opened
  <2>. QED  BY <2>1 DEF ListsInv
<1>4. CASE LedgersStep
  <2>1. page'.list = ""
    BY <1>4 DEF LedgersStep, LedgersShown
  <2>. QED  BY <2>1 DEF ListsInv
<1>5. CASE Still /\ ListStep
  <2>1. PICK list \in PageLists, server \in Servers :
          \/ \E rows \in RowsOf(server, list, 0) :
               ListShown(list, 0, [NoTrail EXCEPT !.start = Range(Held(list))], server, rows)
          \/ /\ page.list = list /\ page.next # 0
             /\ \E rows \in RowsOf(server, list, page.next) :
                  ListShown(list, page.next, trail, server, rows)
    BY <1>5 DEF ListStep
  <2>2. ASSUME NEW rows \in RowsOf(server, list, 0),
               ListShown(list, 0, [NoTrail EXCEPT !.start = Range(Held(list))], server, rows)
        PROVE  ListsInv'
    <3> DEFINE t == [NoTrail EXCEPT !.start = Range(Held(list))]
    <3>1. /\ IsTrail(t) /\ t.seen = {} /\ t.servers = {} /\ t.start = Range(Held(list))
      BY NewTrail
    <3>2. ListShown(list, 0, t, server, rows)
      BY <2>2
    <3> HIDE DEF t
    <3>3. t.start \in SUBSET (1 .. RowsHeld(list))
      BY <1>0, <3>1, HeldFacts
    <3>4. Followed(t, list, 0)
      BY <3>1, <3>3 DEF Followed, Alone
    <3>. QED  BY <1>0, <1>5, <3>2, <3>4, ListStepFacts
  <2>3. ASSUME page.list = list, page.next # 0, NEW rows \in RowsOf(server, list, page.next),
               ListShown(list, page.next, trail, server, rows)
        PROVE  ListsInv'
    <3>1. page.list # ""
      BY <2>3 DEF PageLists
    <3>2. Followed(trail, list, page.next)
      BY <2>3, <3>1 DEF ListsInv, Followed
    <3>. QED  BY <1>0, <1>5, <2>3, <3>2, ListStepFacts
  <2>. QED  BY <2>1, <2>2, <2>3
<1>. QED  BY <1>1, <1>2, <1>3, <1>4, <1>5, Steps

\* A list that one server sent to its end has shown the rows it had when it was
\* opened (ListsLoseNothing): a page that is full leads to the next one, whatever
\* the size of the pages and however many rows come in at the top meanwhile.
THEOREM ListsAreComplete == Spec => []ListsLoseNothing
<1>1. Init => TypeInv /\ ListsInv
  <2>1. Home.list = ""
    BY DEF Home
  <2>2. Init => ListsInv
    BY <2>1 DEF Init, ListsInv
  <2>. QED  BY <2>2, InitType
<1>2. TypeInv /\ ListsInv /\ [Next]_vars => TypeInv' /\ ListsInv'
  BY NextType, NextListsInv
<1>3. TypeInv /\ ListsInv => ListsLoseNothing
  <2> SUFFICES ASSUME TypeInv, ListsInv, page.list # "", page.next = 0, Alone(trail),
                      NEW r \in trail.start
               PROVE  \/ r \in trail.seen
                      \/ /\ trail.servers = {"indexer"} /\ page.list \in Tied
                         /\ Neighbour(r) \in trail.seen
                      \/ trail.servers = {"horizon"} /\ Len(Held(page.list)) > HorizonCap
    BY DEF ListsLoseNothing, Alone
  <2>1. \/ ShownOf(trail, page.list, r)
        \/ trail.servers = {"horizon"} /\ RowsHeld(page.list) > HorizonCap
    BY DEF ListsInv
  <2>2. Len(Held(page.list)) = RowsHeld(page.list)
    BY HeldFacts DEF TypeInv
  <2>3. ShownOf(trail, page.list, r) =>
          \/ r \in trail.seen
          \/ /\ trail.servers = {"indexer"} /\ page.list \in Tied
             /\ Neighbour(r) \in trail.seen
    BY DEF Alone, ShownOf, Among
  <2>. QED  BY <2>1, <2>2, <2>3
<1>. QED  BY <1>1, <1>2, <1>3, PTL DEF Spec
=============================================================================
