-------------------------- MODULE AcknowledgeProofs --------------------------
(***************************************************************************)
(* Proofs about Acknowledge for every cluster, every dependency graph,     *)
(* every set of findings and every baseline.  The recursive definitions of *)
(* Acknowledge (the search over the graph, the choice of the roots, the    *)
(* copies root after root) are reached by the induction over a set of      *)
(* numbers that Recursion derives from the well-foundedness of <.          *)
(***************************************************************************)
EXTENDS Acknowledge, Recursion, FiniteSetTheorems, TLAPS

-----------------------------------------------------------------------------
(* The search over the dependency graph                                    *)

\* what is one edge further than s
Step(s) == s \cup {e[2] : e \in {e \in graph : e[1] \in s}}

Closed(s) == \A e \in graph : e[1] \in s => e[2] \in s

LEMMA ReachExists ==
    ASSUME graph \subseteq Resources \X Resources, NEW r \in Resources
    PROVE  \E reach \in [Nat -> SUBSET Resources] :
              /\ reach[0] = {r}
              /\ \A n \in Nat \ {0} : reach[n] = Step(reach[n - 1])
<1> DEFINE S == SUBSET Resources
           step == [p \in Nat \X S |-> Step(p[2])]
           start == {r}
<1>1. \A s \in S : Step(s) \in S
  BY DEF Step
<1>2. step \in StepsOver(S)
  BY <1>1 DEF StepsOver
<1>3. start \in S
  OBVIOUS
<1>4. \A n \in Nat, s \in S : step[<<n, s>>] = Step(s)
  OBVIOUS
<1> HIDE DEF S, step, start
<1>5. PICK f \in ValuesIn(S) : Recursion(f, start, step)
  BY <1>2, <1>3, RecursionOverNat
<1>6. ASSUME NEW n \in Nat \ {0}
      PROVE  f[n] = Step(f[n - 1])
  <2>1. n - 1 \in Nat
    OBVIOUS
  <2>2. f[n - 1] \in S
    BY <2>1 DEF ValuesIn
  <2> QED
    BY <1>4, <1>5, <2>1, <2>2 DEF Recursion
<1> QED
  BY <1>5, <1>6 DEF S, start, Recursion, ValuesIn

\* Descendants, as the recursion in its definition.
LEMMA DescendantsAreReached ==
    ASSUME graph \subseteq Resources \X Resources, NEW r \in Resources
    PROVE  \E reach \in [Nat -> SUBSET Resources] :
              /\ reach[0] = {r}
              /\ \A n \in Nat : reach[n + 1] = Step(reach[n])
              /\ Descendants(r) = reach[Cardinality(Resources)] \ {r}
<1> DEFINE F(g) == [n \in Nat |->
                       IF n = 0 THEN {r}
                       ELSE g[n - 1] \cup {e[2] : e \in {e \in graph : e[1] \in g[n - 1]}}]
           reach == CHOOSE g : g = F(g)
<1>1. PICK f \in [Nat -> SUBSET Resources] :
              /\ f[0] = {r}
              /\ \A n \in Nat \ {0} : f[n] = Step(f[n - 1])
  BY ReachExists
<1>2. f = F(f)
  <2>1. f = [n \in Nat |-> f[n]]
    OBVIOUS
  <2>2. ASSUME NEW n \in Nat
        PROVE  f[n] = F(f)[n]
    BY <1>1 DEF Step
  <2>3. F(f) = [n \in Nat |-> F(f)[n]]
    OBVIOUS
  <2> HIDE DEF F
  <2> QED
    BY <2>1, <2>2, <2>3
<1>3. reach = F(reach)
  <2> HIDE DEF F
  <2> QED
    BY <1>2
<1>4. Descendants(r) = reach[Cardinality(Resources)] \ {r}
  BY DEF Descendants
<1> HIDE DEF reach
<1>5. reach = [n \in Nat |-> reach[n]] /\ DOMAIN reach = Nat
  BY <1>3
<1>6. reach[0] = {r}
  BY <1>3
<1>7. ASSUME NEW n \in Nat
      PROVE  reach[n + 1] = Step(reach[n])
  <2>1. n + 1 \in Nat /\ n + 1 # 0 /\ (n + 1) - 1 = n
    OBVIOUS
  <2>2. reach[n + 1] = reach[n] \cup {e[2] : e \in {e \in graph : e[1] \in reach[n]}}
    BY <1>3, <2>1
  <2> QED
    BY <2>2 DEF Step
<1>8. reach \in [Nat -> SUBSET Resources]
  <2> DEFINE T == {n \in Nat : reach[n] \subseteq Resources}
  <2>1. 0 \in T
    BY <1>6
  <2>2. ASSUME NEW n \in Nat, n \in T
        PROVE  n + 1 \in T
    BY <1>7, <2>2 DEF Step
  <2> HIDE DEF T
  <2>3. Nat \subseteq T
    BY <2>1, <2>2, InductionOverNat
  <2> QED
    BY <1>5, <2>3 DEF T
<1> QED
  BY <1>4, <1>6, <1>7, <1>8

LEMMA StepFacts ==
    ASSUME NEW s
    PROVE  /\ s \subseteq Step(s)
           /\ Closed(s) => Step(s) = s
           /\ ~Closed(s) => Step(s) # s
           /\ \A e \in graph : e[1] \in s => e[2] \in Step(s)
BY DEF Step, Closed

\* dependencyGraph.descendants: the search ends, on cycles too.  What it has found
\* after as many rounds as there are resources is closed under the edges, and it
\* is the least closed set around its start.
THEOREM ReachedIsLeast ==
    ASSUME ConstantsAssumption, graph \subseteq Resources \X Resources, NEW r \in Resources
    PROVE  /\ r \in Reached(r) /\ Reached(r) \subseteq Resources
           /\ Closed(Reached(r))
           /\ \A s : r \in s /\ Closed(s) => Reached(r) \subseteq s
<1> DEFINE N == Cardinality(Resources)
<1>0. IsFiniteSet(Resources) /\ N \in Nat
  BY FS_CardinalityType DEF ConstantsAssumption
<1>1. PICK reach \in [Nat -> SUBSET Resources] :
              /\ reach[0] = {r}
              /\ \A n \in Nat : reach[n + 1] = Step(reach[n])
              /\ Descendants(r) = reach[N] \ {r}
  BY DescendantsAreReached
<1> HIDE DEF N
<1>2. \A n \in Nat : r \in reach[n]
  <2> DEFINE T == {n \in Nat : r \in reach[n]}
  <2>1. 0 \in T
    BY <1>1
  <2>2. ASSUME NEW n \in Nat, n \in T
        PROVE  n + 1 \in T
    BY <1>1, <2>2, StepFacts
  <2> HIDE DEF T
  <2>3. Nat \subseteq T
    BY <2>1, <2>2, InductionOverNat
  <2> QED
    BY <2>3 DEF T
<1>3. Reached(r) = reach[N]
  BY <1>0, <1>1, <1>2 DEF Reached
<1>4. \A n \in Nat : Closed(reach[n]) \/ Cardinality(reach[n]) >= n + 1
  <2> DEFINE T == {n \in Nat : Closed(reach[n]) \/ Cardinality(reach[n]) >= n + 1}
  <2>1. 0 \in T
    <3>1. Cardinality({r}) = 1
      BY FS_Singleton
    <3>2. Cardinality(reach[0]) = 1
      BY <1>1, <3>1, Zenon
    <3>3. 0 \in Nat /\ 1 >= 0 + 1
      OBVIOUS
    <3> QED
      BY <3>2, <3>3
  <2>2. ASSUME NEW n \in Nat, n \in T
        PROVE  n + 1 \in T
    <3>1. reach[n + 1] = Step(reach[n]) /\ n + 1 \in Nat
      BY <1>1
    <3>2. CASE Closed(reach[n])
      BY <3>1, <3>2, StepFacts
    <3>3. CASE ~Closed(reach[n]) /\ Cardinality(reach[n]) >= n + 1
      <4>1. reach[n] \subseteq reach[n + 1] /\ reach[n] # reach[n + 1]
        BY <3>1, <3>3, StepFacts
      <4>2. reach[n + 1] \subseteq Resources /\ reach[n] \subseteq Resources
        BY <3>1
      <4>3. IsFiniteSet(reach[n + 1]) /\ IsFiniteSet(reach[n])
        BY <1>0, <4>2, FS_Subset
      <4>4. Cardinality(reach[n]) < Cardinality(reach[n + 1])
        <5>1. Cardinality(reach[n]) <= Cardinality(reach[n + 1])
          BY <4>1, <4>3, FS_Subset
        <5>2. Cardinality(reach[n]) # Cardinality(reach[n + 1])
          BY <4>1, <4>3, FS_Subset
        <5>3. Cardinality(reach[n]) \in Nat /\ Cardinality(reach[n + 1]) \in Nat
          BY <4>3, FS_CardinalityType
        <5> QED
          BY <5>1, <5>2, <5>3
      <4>5. Cardinality(reach[n]) \in Nat /\ Cardinality(reach[n + 1]) \in Nat
        BY <4>3, FS_CardinalityType
      <4>6. Cardinality(reach[n + 1]) >= (n + 1) + 1
        BY <3>3, <4>4, <4>5
      <4> QED
        BY <3>1, <4>6
    <3> QED
      BY <2>2, <3>2, <3>3
  <2> HIDE DEF T
  <2>3. Nat \subseteq T
    BY <2>1, <2>2, InductionOverNat
  <2> QED
    BY <2>3 DEF T
<1>5. Closed(reach[N])
  <2>1. reach[N] \subseteq Resources
    BY <1>0
  <2>2. Cardinality(reach[N]) <= N /\ Cardinality(reach[N]) \in Nat
    BY <1>0, <2>1, FS_Subset, FS_CardinalityType DEF N
  <2> QED
    BY <1>0, <1>4, <2>2
<1>6. ASSUME NEW s, r \in s, Closed(s)
      PROVE  reach[N] \subseteq s
  <2> DEFINE T == {n \in Nat : reach[n] \subseteq s}
  <2>1. 0 \in T
    BY <1>1, <1>6
  <2>2. ASSUME NEW n \in Nat, n \in T
        PROVE  n + 1 \in T
    BY <1>1, <1>6, <2>2 DEF Step, Closed
  <2> HIDE DEF T
  <2>3. Nat \subseteq T
    BY <2>1, <2>2, InductionOverNat
  <2> QED
    BY <1>0, <2>3 DEF T
<1> QED
  BY <1>0, <1>2, <1>3, <1>5, <1>6

\* What depends on something that depends on r depends on r.
LEMMA ReachedIsTransitive ==
    ASSUME ConstantsAssumption, graph \subseteq Resources \X Resources,
           NEW r \in Resources, NEW d \in Reached(r)
    PROVE  d \in Resources /\ Reached(d) \subseteq Reached(r)
<1>1. d \in Resources /\ Closed(Reached(r))
  BY ReachedIsLeast
<1> QED
  BY <1>1, ReachedIsLeast

LEMMA DescendantFacts ==
    ASSUME ConstantsAssumption, graph \subseteq Resources \X Resources, NEW r \in Resources
    PROVE  /\ Descendants(r) = Reached(r) \ {r}
           /\ Descendants(r) \subseteq Resources
<1>1. PICK reach \in [Nat -> SUBSET Resources] :
              /\ reach[0] = {r}
              /\ \A n \in Nat : reach[n + 1] = Step(reach[n])
              /\ Descendants(r) = reach[Cardinality(Resources)] \ {r}
  BY DescendantsAreReached
<1>2. r \notin Descendants(r)
  BY <1>1
<1>3. Descendants(r) = Reached(r) \ {r}
  BY <1>2 DEF Reached
<1>4. Reached(r) \subseteq Resources
  BY ReachedIsLeast
<1> QED
  BY <1>3, <1>4

-----------------------------------------------------------------------------
(* Below is transitive                                                     *)

LEMMA BelowIsTransitive ==
    ASSUME ConstantsAssumption, graph \subseteq Resources \X Resources,
           NEW a, NEW b, NEW c,
           a.resource \in Resources, b.resource \in Resources, c.resource \in Resources,
           Below(a, b), Below(b, c)
    PROVE  Below(a, c)
<1> DEFINE ra == a.resource
           rb == b.resource
           rc == c.resource
<1>1. /\ rb \in Descendants(ra) => Reached(rb) \subseteq Reached(ra)
      /\ \A r \in {ra, rb, rc} : Descendants(r) = Reached(r) \ {r}
  <2>1. \A r \in {ra, rb, rc} : Descendants(r) = Reached(r) \ {r}
    BY DescendantFacts
  <2>2. rb \in Descendants(ra) => rb \in Reached(ra)
    BY <2>1
  <2> QED
    BY <2>1, <2>2, ReachedIsTransitive
<1>2. CASE b = a \/ c = b
  BY <1>2
<1>3. CASE b # a /\ c # b /\ rb = ra
  BY <1>3 DEF Below
<1>4. CASE c # b /\ rb # ra
  <2>1. rb \in Descendants(ra)
    BY <1>4 DEF Below
  <2>2. rc = rb \/ rc \in Descendants(rb)
    BY <1>4 DEF Below
  <2>3. rc \in Reached(ra)
    BY <1>1, <2>1, <2>2
  <2>4. CASE rc # ra
    BY <1>1, <2>3, <2>4 DEF Below
  <2>5. CASE rc = ra
    <3>1. ra \in Descendants(rb)
      BY <1>4, <2>2, <2>5
    <3>2. OnACycle(ra)
      BY <2>1, <3>1 DEF OnACycle
    <3> QED
      BY <2>5, <3>2 DEF Below
  <2> QED
    BY <2>4, <2>5
<1> QED
  BY <1>2, <1>3, <1>4

-----------------------------------------------------------------------------
(* The root causes are there, each at its place in the order               *)

LEMMA RootOrder ==
    ASSUME ConstantsAssumption
    PROVE  /\ \A c \in Findings : ~RootBefore(c, c)
           /\ \A c, d \in Findings : c = d \/ RootBefore(c, d) \/ RootBefore(d, c)
           /\ \A b, c, d \in Findings :
                RootBefore(b, c) /\ RootBefore(c, d) => RootBefore(b, d)
<1>1. /\ \A f \in Findings : f.confidence \in Int /\ f.place \in Int
      /\ \A f, g \in Findings : f.place = g.place => f = g
  BY DEF ConstantsAssumption
<1>2. \A c \in Findings : Confirmed(c) \in BOOLEAN
  BY DEF Confirmed
<1>3. \A c \in Findings : ~RootBefore(c, c)
  BY <1>1 DEF RootBefore
<1>4. \A c, d \in Findings : c = d \/ RootBefore(c, d) \/ RootBefore(d, c)
  BY <1>1, <1>2 DEF RootBefore
<1>5. \A b, c, d \in Findings : RootBefore(b, c) /\ RootBefore(c, d) => RootBefore(b, d)
  BY <1>1, <1>2 DEF RootBefore
<1> QED
  BY <1>3, <1>4, <1>5

\* The finding that k - 1 others precede, for every k up to their number.
LEMMA RankingIsComplete ==
    ASSUME ConstantsAssumption, NEW causes \in SUBSET Findings,
           NEW k \in 1..Cardinality(causes)
    PROVE  \E c \in causes : Cardinality({d \in causes : RootBefore(d, c)}) = k - 1
<1> DEFINE n == Cardinality(causes)
           Before(c) == {d \in causes : RootBefore(d, c)}
           place == [c \in causes |-> Cardinality(Before(c))]
<1>1. IsFiniteSet(causes) /\ n \in Nat
  BY FS_Subset, FS_CardinalityType DEF ConstantsAssumption
<1>2. ASSUME NEW c \in causes
      PROVE  IsFiniteSet(Before(c)) /\ Cardinality(Before(c)) \in 0..(n - 1)
  <2>1. IsFiniteSet(Before(c)) /\ Cardinality(Before(c)) <= n
    BY <1>1, FS_Subset
  <2>2. Cardinality(Before(c)) # n
    <3>1. c \notin Before(c)
      BY RootOrder
    <3>2. n = Cardinality(Before(c)) => causes = Before(c)
      BY <1>1, FS_Subset
    <3> QED
      BY <3>1, <3>2
  <2>3. Cardinality(Before(c)) \in Nat
    BY <2>1, FS_CardinalityType
  <2> QED
    BY <1>1, <2>1, <2>2, <2>3
<1>3. ASSUME NEW c \in causes, NEW d \in causes, RootBefore(c, d)
      PROVE  Cardinality(Before(c)) # Cardinality(Before(d))
  <2>1. Before(c) \subseteq Before(d) /\ c \in Before(d) /\ c \notin Before(c)
    BY <1>3, RootOrder
  <2>2. IsFiniteSet(Before(d))
    BY <1>2
  <2> HIDE DEF Before
  <2> QED
    BY <2>1, <2>2, FS_Subset
<1> HIDE DEF Before
<1>4. place \in Injection(causes, 0..(n - 1))
  <2>1. place \in [causes -> 0..(n - 1)]
    BY <1>2
  <2>2. ASSUME NEW c \in causes, NEW d \in causes, place[c] = place[d]
        PROVE  c = d
    BY <1>3, <2>2, RootOrder
  <2> HIDE DEF place
  <2> QED
    BY <2>1, <2>2 DEF Injection, IsInjective
<1>5. IsFiniteSet(0..(n - 1)) /\ Cardinality(0..(n - 1)) = n
  <2>1. 0 \in Int /\ n - 1 \in Int
    BY <1>1
  <2>2. Cardinality(0..(n - 1)) = IF 0 > n - 1 THEN 0 ELSE (n - 1) - 0 + 1
    BY <2>1, FS_Interval
  <2> QED
    BY <1>1, <2>1, <2>2, FS_Interval
<1>6. place \in Surjection(causes, 0..(n - 1))
  BY <1>4, <1>5, FS_Injection
<1>7. k - 1 \in 0..(n - 1)
  BY <1>1
<1>8. PICK c \in causes : place[c] = k - 1
  BY <1>6, <1>7 DEF Surjection
<1> QED
  BY <1>8 DEF Before

\* What the recursion takes is a candidate.
LEMMA CausesAreCandidates ==
    ASSUME ConstantsAssumption, NEW findings
    PROVE  Causes(findings) \subseteq Candidates(findings)
<1> DEFINE candidates == Candidates(findings)
           Add(n, before) == before \cup {f \in candidates :
                                /\ f.rank = n
                                /\ \A c \in before : f \notin Claims(c, findings)}
           F(g) == [n \in Nat |-> IF n = 0 THEN {} ELSE Add(n, g[n - 1])]
           S == SUBSET candidates
           step == [p \in Nat \X S |-> Add(p[1], p[2])]
           taken == CHOOSE g : g = F(g)
           none == {}
<1>1. \A n \in Nat, s \in S : Add(n, s) \in S /\ step[<<n, s>>] = Add(n, s)
  OBVIOUS
<1>2. step \in StepsOver(S) /\ none \in S
  BY <1>1 DEF StepsOver
<1>3. PICK f \in ValuesIn(S) : Recursion(f, none, step)
  <2> HIDE DEF S, step, none
  <2> QED
    BY <1>2, RecursionOverNat
<1>4. f = F(f)
  <2>1. f = [n \in Nat |-> f[n]]
    BY DEF ValuesIn
  <2>2. ASSUME NEW n \in Nat
        PROVE  f[n] = IF n = 0 THEN {} ELSE Add(n, f[n - 1])
    <3>1. CASE n = 0
      BY <1>3, <3>1 DEF Recursion
    <3>2. CASE n # 0
      <4>1. n \in Nat \ {0} /\ n - 1 \in Nat
        BY <3>2
      <4>2. f[n - 1] \in S
        BY <4>1 DEF ValuesIn
      <4>3. f[n] = step[<<n, f[n - 1]>>]
        BY <1>3, <4>1 DEF Recursion
      <4> HIDE DEF Add, S, step
      <4> QED
        BY <1>1, <3>2, <4>2, <4>3
    <3> QED
      BY <3>1, <3>2
  <2> HIDE DEF Add
  <2> QED
    BY <2>1, <2>2
<1>5. taken = F(taken)
  <2> HIDE DEF F
  <2> QED
    BY <1>4
<1>6. Causes(findings) = taken[MaxRank]
  BY DEF Causes
<1> HIDE DEF taken
<1>7. \A n \in Nat : taken[n] \subseteq candidates
  <2> DEFINE T == {n \in Nat : taken[n] \subseteq candidates}
  <2>1. 0 \in T
    BY <1>5
  <2>2. ASSUME NEW n \in Nat, n \in T
        PROVE  n + 1 \in T
    <3>1. n + 1 \in Nat /\ n + 1 # 0 /\ (n + 1) - 1 = n
      OBVIOUS
    <3>2. taken[n + 1] = Add(n + 1, taken[n])
      <4> HIDE DEF Add
      <4> QED
        BY <1>5, <3>1
    <3> QED
      BY <2>2, <3>1, <3>2
  <2> HIDE DEF T
  <2>3. Nat \subseteq T
    BY <2>1, <2>2, InductionOverNat
  <2> QED
    BY <2>3 DEF T
<1> QED
  BY <1>6, <1>7 DEF ConstantsAssumption

\* Every entry of State.RootCauses is the root of a candidate.
LEMMA RootsAreOfCandidates ==
    ASSUME ConstantsAssumption, NEW findings \in SUBSET Findings
    PROVE  /\ Roots(findings) \in Seq({Root(c, findings) : c \in findings})
           /\ \A k \in DOMAIN Roots(findings) :
                 \E c \in findings : Roots(findings)[k] = Root(c, findings)
<1> DEFINE causes == Causes(findings)
           n == Cardinality(causes)
           pick(k) == CHOOSE c \in causes :
                          Cardinality({d \in causes : RootBefore(d, c)}) = k - 1
<1>1. causes \subseteq findings
  BY CausesAreCandidates DEF Candidates
<1>2. n \in Nat
  <2>1. IsFiniteSet(causes)
    BY <1>1, FS_Subset DEF ConstantsAssumption
  <2> QED
    BY <2>1, FS_CardinalityType
<1>3. ASSUME NEW k \in 1..n
      PROVE  pick(k) \in findings
  <2> HIDE DEF causes
  <2>1. causes \in SUBSET Findings
    BY <1>1
  <2>2. \E c \in causes : Cardinality({d \in causes : RootBefore(d, c)}) = k - 1
    BY <2>1, RankingIsComplete
  <2> QED
    BY <1>1, <2>2
<1>4. Roots(findings) = [k \in 1..n |-> Root(pick(k), findings)]
  BY DEF Roots
<1> HIDE DEF n, pick
<1> QED
  BY <1>2, <1>3, <1>4

-----------------------------------------------------------------------------
(* Copying the acknowledgements, root after root                           *)

Acks == [found -> RuleIDs \cup {None}]

\* one round of Propagated
Copied(n, acks) ==
    [f \in found |->
        IF roots[n].cause \in found /\ f \in roots[n].related /\ acks[roots[n].cause] # None
        THEN acks[roots[n].cause] ELSE acks[f]]

\* after[n] is what is acknowledged once n roots have been gone through.
Rounds(after) ==
    /\ after \in [Nat -> Acks]
    /\ after[0] = acked
    /\ \A n \in Nat : after[n + 1] = Copied(n + 1, after[n])

LEMMA PropagatedIsLastRound ==
    ASSUME acked \in Acks
    PROVE  \E after : Rounds(after) /\ Propagated = after[Len(roots)]
<1> DEFINE F(g) == [n \in Nat |-> IF n = 0 THEN acked ELSE Copied(n, g[n - 1])]
           S == Acks
           step == [p \in Nat \X S |-> Copied(p[1], p[2])]
           after == CHOOSE g : g = F(g)
           first == acked
<1>1. \A n \in Nat, s \in S : Copied(n, s) \in S /\ step[<<n, s>>] = Copied(n, s)
  BY DEF Copied, Acks
<1>2. step \in StepsOver(S) /\ first \in S
  BY <1>1 DEF StepsOver
<1>3. PICK f \in ValuesIn(S) : Recursion(f, first, step)
  <2> HIDE DEF S, step, first
  <2> QED
    BY <1>2, RecursionOverNat
<1>4. f = F(f)
  <2>1. f = [n \in Nat |-> f[n]]
    BY DEF ValuesIn
  <2>2. ASSUME NEW n \in Nat
        PROVE  f[n] = IF n = 0 THEN acked ELSE Copied(n, f[n - 1])
    <3>1. CASE n = 0
      BY <1>3, <3>1 DEF Recursion
    <3>2. CASE n # 0
      <4>1. n \in Nat \ {0} /\ n - 1 \in Nat
        BY <3>2
      <4>2. f[n - 1] \in S
        BY <4>1 DEF ValuesIn
      <4>3. f[n] = step[<<n, f[n - 1]>>]
        BY <1>3, <4>1 DEF Recursion
      <4> HIDE DEF S, step
      <4> QED
        BY <1>1, <3>2, <4>2, <4>3
    <3> QED
      BY <3>1, <3>2
  <2> QED
    BY <2>1, <2>2
<1>5. after = F(after)
  <2> HIDE DEF F
  <2> QED
    BY <1>4
<1>6. Propagated = after[Len(roots)]
  BY DEF Propagated, Copied
<1> HIDE DEF after
<1>7. after = [n \in Nat |-> after[n]] /\ after[0] = acked
  BY <1>5
<1>8. \A n \in Nat : after[n + 1] = Copied(n + 1, after[n])
  <2> SUFFICES ASSUME NEW n \in Nat
               PROVE  after[n + 1] = Copied(n + 1, after[n])
    OBVIOUS
  <2>1. n + 1 \in Nat /\ n + 1 # 0 /\ (n + 1) - 1 = n
    OBVIOUS
  <2> QED
    BY <1>5, <2>1
<1>9. \A n \in Nat : after[n] \in S
  <2> DEFINE T == {n \in Nat : after[n] \in S}
  <2>1. 0 \in T
    BY <1>7
  <2>2. ASSUME NEW n \in Nat, n \in T
        PROVE  n + 1 \in T
    <3>1. n + 1 \in Nat /\ after[n] \in S
      BY <2>2
    <3>2. after[n + 1] = Copied(n + 1, after[n])
      BY <1>8
    <3> HIDE DEF S, step
    <3>3. after[n + 1] \in S
      BY <1>1, <3>1, <3>2
    <3> QED
      BY <3>1, <3>3
  <2> HIDE DEF T
  <2>3. Nat \subseteq T
    BY <2>1, <2>2, InductionOverNat
  <2> QED
    BY <2>3 DEF T
<1>10. Rounds(after)
  BY <1>7, <1>8, <1>9 DEF Rounds
<1> QED
  BY <1>6, <1>10

\* A round takes no acknowledgement back.
LEMMA RoundsOnlyAdd ==
    ASSUME NEW after, Rounds(after), NEW f \in found, NEW m \in Nat, after[m][f] # None
    PROVE  \A n \in Nat : n >= m => after[n][f] # None
<1> DEFINE T == {n \in Nat : n >= m => after[n][f] # None}
<1>1. 0 \in T
  OBVIOUS
<1>2. ASSUME NEW n \in Nat, n \in T
      PROVE  n + 1 \in T
  <2>1. CASE n + 1 <= m
    BY <2>1
  <2>2. CASE n >= m
    <3>1. after[n][f] # None
      BY <1>2, <2>2
    <3>2. after[n + 1] = Copied(n + 1, after[n])
      BY DEF Rounds
    <3>3. after[n + 1][f] # None
      BY <3>1, <3>2 DEF Copied
    <3> QED
      BY <3>3
  <2> QED
    BY <2>1, <2>2
<1> HIDE DEF T
<1>3. Nat \subseteq T
  BY <1>1, <1>2, InductionOverNat
<1> QED
  BY <1>3 DEF T

\* Whatever an acknowledgement stands on, if it passes from a cause to what is
\* related to it, it holds of all that is acknowledged in the end.
LEMMA CopiesKeep ==
    ASSUME acked \in Acks, Len(roots) \in Nat, DOMAIN roots = 1..Len(roots), NEW J,
           \A f \in found : acked[f] # None => <<f, acked[f]>> \in J,
           \A k \in DOMAIN roots : roots[k].cause \in found =>
              \A f \in roots[k].related \cap found, id \in RuleIDs :
                 <<roots[k].cause, id>> \in J => <<f, id>> \in J
    PROVE  \A f \in found : Propagated[f] # None => <<f, Propagated[f]>> \in J
<1>1. PICK after : Rounds(after) /\ Propagated = after[Len(roots)]
  BY PropagatedIsLastRound
<1> DEFINE T == {n \in Nat : n <= Len(roots) =>
                    \A f \in found : after[n][f] # None => <<f, after[n][f]>> \in J}
<1>2. 0 \in T
  BY <1>1 DEF Rounds
<1>3. ASSUME NEW n \in Nat, n \in T
      PROVE  n + 1 \in T
  <2> SUFFICES ASSUME n + 1 <= Len(roots), NEW f \in found, after[n + 1][f] # None
               PROVE  <<f, after[n + 1][f]>> \in J
    OBVIOUS
  <2> DEFINE root == roots[n + 1]
             acks == after[n]
  <2>1. n + 1 \in DOMAIN roots /\ n <= Len(roots)
    OBVIOUS
  <2>2. \A g \in found : acks[g] # None => <<g, acks[g]>> \in J
    BY <1>3, <2>1
  <2>3. /\ acks \in Acks
        /\ after[n + 1][f] = IF root.cause \in found /\ f \in root.related
                                 /\ acks[root.cause] # None
                             THEN acks[root.cause] ELSE acks[f]
    BY <1>1 DEF Rounds, Copied
  <2>4. CASE root.cause \in found /\ f \in root.related /\ acks[root.cause] # None
    <3>1. acks[root.cause] \in RuleIDs
      BY <2>3, <2>4 DEF Acks
    <3>2. <<root.cause, acks[root.cause]>> \in J
      BY <2>2, <2>4
    <3> QED
      BY <2>1, <2>3, <2>4, <3>1, <3>2
  <2>5. CASE ~(root.cause \in found /\ f \in root.related /\ acks[root.cause] # None)
    BY <2>2, <2>3, <2>5
  <2> QED
    BY <2>4, <2>5
<1> HIDE DEF T
<1>4. Nat \subseteq T
  BY <1>2, <1>3, InductionOverNat
<1> QED
  BY <1>1, <1>4 DEF T

\* When what is related to a root is visible from every root its cause is
\* related to, the symptoms follow their cause.
LEMMA CopiesReachSymptoms ==
    ASSUME acked \in Acks, Len(roots) \in Nat, DOMAIN roots = 1..Len(roots),
           \A k \in DOMAIN roots : roots[k].cause \in found /\ roots[k].related \subseteq found,
           \A j, k \in DOMAIN roots : roots[k].cause \in roots[j].related =>
              \A f \in roots[k].related : Visible(f) => f \in roots[j].related
    PROVE  \A k \in DOMAIN roots : Propagated[roots[k].cause] # None =>
              \A f \in roots[k].related : Visible(f) => Propagated[f] # None
<1>1. PICK after : Rounds(after) /\ Propagated = after[Len(roots)]
  BY PropagatedIsLastRound
<1> SUFFICES ASSUME NEW k \in DOMAIN roots, Propagated[roots[k].cause] # None,
                    NEW f \in roots[k].related, Visible(f)
             PROVE  Propagated[f] # None
  OBVIOUS
<1> DEFINE c == roots[k].cause
\* A root from k on that hands its acknowledgement to f.
           Hands(j) == /\ j \in DOMAIN roots /\ f \in roots[j].related
                       /\ after[j - 1][roots[j].cause] # None
           T == {n \in Nat : n <= Len(roots) /\ after[n][c] # None =>
                    after[k - 1][c] # None \/ \E j \in DOMAIN roots : Hands(j)}
<1>2. c \in found /\ f \in found /\ k \in 1..Len(roots) /\ k - 1 \in Nat
  OBVIOUS
<1>3. 0 \in T
  <2> SUFFICES ASSUME after[0][c] # None
               PROVE  after[k - 1][c] # None
    OBVIOUS
  <2> QED
    BY <1>1, <1>2, RoundsOnlyAdd
<1>4. ASSUME NEW n \in Nat, n \in T
      PROVE  n + 1 \in T
  <2> SUFFICES ASSUME n + 1 <= Len(roots), after[n + 1][c] # None
               PROVE  after[k - 1][c] # None \/ \E j \in DOMAIN roots : Hands(j)
    OBVIOUS
  <2>1. CASE after[n][c] # None
    BY <1>4, <2>1
  <2>2. CASE after[n][c] = None
    <3> DEFINE j == n + 1
    <3>1. j \in DOMAIN roots /\ j - 1 = n
      OBVIOUS
    <3>2. after[j] = Copied(j, after[n])
      BY <1>1 DEF Rounds
    <3>3. c \in roots[j].related /\ after[n][roots[j].cause] # None
      BY <1>2, <2>2, <3>2 DEF Copied
    <3>4. f \in roots[j].related
      BY <3>1, <3>3
    <3> QED
      BY <3>1, <3>3, <3>4
  <2> QED
    BY <2>1, <2>2
<1>5. Len(roots) \in T
  <2> HIDE DEF T
  <2>1. Nat \subseteq T
    BY <1>3, <1>4, InductionOverNat
  <2> QED
    BY <2>1
<1>6. PICK j \in DOMAIN roots : Hands(j)
  BY <1>1, <1>5
<1>7. j \in 1..Len(roots) /\ j - 1 \in Nat /\ (j - 1) + 1 = j
  OBVIOUS
<1>8. after[j] = Copied(j, after[j - 1])
  BY <1>1, <1>7 DEF Rounds
<1>9. after[j][f] # None
  BY <1>2, <1>6, <1>8 DEF Copied
<1> QED
  BY <1>1, <1>2, <1>7, <1>9, RoundsOnlyAdd

-----------------------------------------------------------------------------
(* What a step leaves alone                                                *)

\* The graph and the baseline stay what they were.
LEMMA ChosenFixes ==
    ASSUME UNCHANGED chosen
    PROVE  /\ \A c, f : Below(c, f)' <=> Below(c, f)
           /\ \A f : Workloads(f)' = Workloads(f)
           /\ Acyclic' <=> Acyclic
           /\ Steady' <=> Steady
           /\ NoneExpiresMeanwhile' <=> NoneExpiresMeanwhile
           /\ RuleIDs' = RuleIDs
<1>1. \A c, f : Below(c, f)' <=> Below(c, f)
  BY SMT DEF chosen, Below, OnACycle, Descendants
<1>2. \A f : Workloads(f)' = Workloads(f)
  BY SMT DEF chosen, Workloads, Reached, Outermost, Descendants
<1>3. Acyclic' <=> Acyclic
  BY SMT DEF chosen, Acyclic, OnACycle, Descendants
<1>4. Steady' <=> Steady
  BY SMT DEF chosen, Steady, Expired
<1>5. NoneExpiresMeanwhile' <=> NoneExpiresMeanwhile
  BY SMT DEF chosen, NoneExpiresMeanwhile, Expired
<1>6. RuleIDs' = RuleIDs
  BY SMT DEF chosen, RuleIDs
<1> QED
  BY <1>1, <1>2, <1>3, <1>4, <1>5, <1>6

\* The same findings have the same roots.
LEMMA RootsFixed ==
    ASSUME UNCHANGED chosen, Reported' = Reported
    PROVE  Roots(Reported)' = Roots(Reported)
BY SMT DEF chosen, Roots, Root, Impacts, Causes, Candidates, Claims, Related, Descendants,
           RootBefore, Confirmed, Visible

LEMMA MatchFixed ==
    ASSUME UNCHANGED <<chosen, roots>>
    PROVE  \A k, f : MatchWorkload(baseline[k], f)' <=> MatchWorkload(baseline[k], f)
BY SMT DEF chosen, MatchWorkload, Consumers, FallbackWorkloads, Workloads, Reached, Outermost,
           Descendants

-----------------------------------------------------------------------------
(* The root causes of the reported findings                                *)

LEMMA RelatedFacts ==
    ASSUME ConstantsAssumption, graph \in Graphs, NEW findings \in SUBSET Findings,
           NEW c \in findings
    PROVE  /\ c \in Related(c, findings) /\ Related(c, findings) \subseteq findings
           /\ \A f \in Related(c, findings) : Below(c, f)
           /\ Acyclic => \A d \in Related(c, findings) : \A f \in Related(d, findings) :
                            Visible(f) => f \in Related(c, findings)
<1>1. c \in Related(c, findings) /\ Related(c, findings) \subseteq findings
  BY DEF Related
<1>2. \A f \in Related(c, findings) : Below(c, f)
  BY DEF Related, Below
<1>3. ASSUME Acyclic, NEW d \in Related(c, findings), NEW f \in Related(d, findings), Visible(f)
      PROVE  f \in Related(c, findings)
  <2>0. /\ graph \subseteq Resources \X Resources
        /\ c.resource \in Resources /\ d.resource \in Resources /\ f.resource \in Resources
    BY <1>1 DEF ConstantsAssumption, Related
  <2>1. CASE f = d
    BY <1>3, <2>1
  <2>2. CASE d = c
    BY <1>3, <2>2
  <2>3. CASE d.log /\ d.resource = c.resource /\ f # d
    BY <1>3, <2>3 DEF Related
  <2>4. CASE Acyclic /\ d.resource \in Descendants(c.resource) /\ f # d
    <3>1. f.resource = d.resource \/ f.resource \in Descendants(d.resource)
      BY <1>3, <2>4 DEF Related
    <3>2. /\ Descendants(c.resource) = Reached(c.resource) \ {c.resource}
          /\ Descendants(d.resource) = Reached(d.resource) \ {d.resource}
      BY <2>0, DescendantFacts
    <3>3. Reached(d.resource) \subseteq Reached(c.resource)
      BY <2>0, <2>4, <3>2, ReachedIsTransitive
    <3>4. f.resource # c.resource
      <4>1. c.resource \notin Descendants(d.resource)
        BY <2>0, <2>4 DEF Acyclic, OnACycle
      <4>2. d.resource # c.resource
        BY <2>4, <3>2
      <4> QED
        BY <3>1, <4>1, <4>2
    <3>5. f.resource \in Descendants(c.resource)
      BY <2>4, <3>1, <3>2, <3>3, <3>4
    <3> QED
      BY <1>3, <3>5 DEF Related
  <2> QED
    BY <1>3, <2>1, <2>2, <2>3, <2>4 DEF Related
<1> QED
  BY <1>1, <1>2, <1>3

\* State.RootCauses is empty or has one root per place, each of a reported
\* finding and related to reported findings.
LEMMA RootsFacts ==
    ASSUME ConstantsAssumption, roots = <<>> \/ roots = Roots(Reported)
    PROVE  /\ Len(roots) \in Nat /\ DOMAIN roots = 1..Len(roots)
           /\ \A k \in DOMAIN roots :
                /\ roots[k].cause \in Reported
                /\ roots[k].related = Related(roots[k].cause, Reported)
<1>1. CASE roots = <<>>
  BY <1>1
<1>2. CASE roots = Roots(Reported)
  <2> DEFINE findings == Reported
  <2>1. findings \in SUBSET Findings
    BY DEF Reported
  <2>2. /\ Roots(findings) \in Seq({Root(c, findings) : c \in findings})
        /\ \A k \in DOMAIN Roots(findings) :
              \E c \in findings : Roots(findings)[k] = Root(c, findings)
    <3> HIDE DEF findings
    <3> QED
      BY <2>1, RootsAreOfCandidates
  <2>3. Len(roots) \in Nat /\ DOMAIN roots = 1..Len(roots)
    BY <1>2, <2>2
  <2>4. ASSUME NEW k \in DOMAIN roots
        PROVE  /\ roots[k].cause \in Reported
               /\ roots[k].related = Related(roots[k].cause, Reported)
    <3>1. PICK c \in findings : roots[k] = Root(c, findings)
      BY <1>2, <2>2
    <3> QED
      BY <3>1 DEF Root
  <2> QED
    BY <2>3, <2>4
<1> QED
  BY <1>1, <1>2

-----------------------------------------------------------------------------
(* Types and roots                                                         *)

USE ConstantsAssumption, BaselinesAssumption

\* A rule that may be examined.
LEMMA RuleFacts ==
    ASSUME baseline \in Baselines
    PROVE  /\ Len(baseline) \in Nat /\ DOMAIN baseline = 1..Len(baseline)
           /\ None \notin RuleIDs
           /\ \A k \in DOMAIN baseline :
                baseline[k].id \in RuleIDs /\ baseline[k].expires \in Nat
           /\ \A k \in DOMAIN baseline : RuleOf(baseline[k].id) = baseline[k]
<1>1. /\ baseline \in Seq({baseline[j] : j \in DOMAIN baseline})
      /\ \A j \in DOMAIN baseline : baseline[j].id # None /\ baseline[j].expires \in Nat
      /\ \A j, k \in DOMAIN baseline : baseline[j].id = baseline[k].id => j = k
  BY DEF BaselinesAssumption
<1>2. Len(baseline) \in Nat /\ DOMAIN baseline = 1..Len(baseline)
  BY <1>1
<1>3. \A k \in DOMAIN baseline : RuleOf(baseline[k].id) = baseline[k]
  BY <1>1 DEF RuleOf
<1> QED
  BY <1>1, <1>2, <1>3 DEF RuleIDs

\* Only Prepare adds findings, and none that a rule reports.
LEMMA ReportedFixed ==
    ASSUME [Next]_vars
    PROVE  UNCHANGED chosen /\ found \subseteq found' /\ Reported' = Reported
<1>1. UNCHANGED chosen
  BY DEF Next, Correlate, ApplyRule, Propagate, CorrelateAgain, Prepare, Midnight, Finished, vars
<1>2. found' = found \/ \E trends \in SUBSET Trends : found' = found \cup trends
  BY DEF Next, Correlate, ApplyRule, Propagate, CorrelateAgain, Prepare, Midnight, Finished, vars
<1>3. Findings \cap Trends = {}
  BY DEF ConstantsAssumption
<1> QED
  BY <1>1, <1>2, <1>3 DEF Reported

\* Whatever the roots are, they speak of findings that are there.
LEMMA RootsNameReported ==
    ASSUME graph \in Graphs, NEW rs, rs = <<>> \/ rs = Roots(Reported)
    PROVE  \A k \in DOMAIN rs : rs[k].cause \in Reported /\ rs[k].related \subseteq Reported
<1> DEFINE findings == Reported
<1>1. findings \in SUBSET Findings
  BY DEF Reported
<1> HIDE DEF findings
<1>2. \A k \in DOMAIN Roots(findings) :
          \E c \in findings : Roots(findings)[k] = Root(c, findings)
  BY <1>1, RootsAreOfCandidates
<1> SUFFICES ASSUME NEW k \in DOMAIN rs
             PROVE  rs[k].cause \in findings /\ rs[k].related \subseteq findings
  BY DEF findings
<1>3. PICK c \in findings : rs[k] = Root(c, findings)
  BY <1>2 DEF findings
<1>4. rs[k].cause = c /\ rs[k].related = Related(c, findings)
  BY <1>3 DEF Root
<1> QED
  BY <1>1, <1>4, RelatedFacts

LEMMA RelatedAreFound ==
    ASSUME TypeOK, RootsInv
    PROVE  \A k \in DOMAIN roots : /\ roots[k].cause \in Reported
                                   /\ roots[k].related \subseteq Reported
BY RootsNameReported DEF RootsInv, TypeOK

LEMMA RootsStep ==
    ASSUME TypeOK, RootsInv, [Next]_vars
    PROVE  RootsInv'
<1>0. /\ UNCHANGED chosen /\ Reported' = Reported
      /\ Roots(Reported)' = Roots(Reported)
      /\ Len(baseline) \in Nat
  BY ReportedFixed, RootsFixed, RuleFacts DEF TypeOK
<1>1. CASE Correlate
  <2>1. pass = 1 /\ found = Reported
    BY <1>1 DEF Correlate, RootsInv, Reported
  <2>2. roots' = Roots(Reported)
    BY <1>1, <2>1 DEF Correlate
  <2>3. /\ pc' = "prepare" \/ (pc' = "apply" /\ next' = 1 /\ baseline # <<>>)
        /\ UNCHANGED <<found, pass, expired>>
    BY <1>1 DEF Correlate, StartApply
  <2> QED
    BY <1>0, <2>1, <2>2, <2>3 DEF RootsInv, chosen
<1>2. CASE ApplyRule
  <2>1. pc = "apply" /\ next' = next + 1 /\ next <= Len(baseline) /\ UNCHANGED <<found, pass, pc>>
    BY <1>2 DEF ApplyRule
  <2>2. roots' = <<>> \/ roots' = roots
    BY <1>2 DEF ApplyRule, AddExpired
  <2> QED
    BY <1>0, <2>1, <2>2 DEF RootsInv, chosen
<1>3. CASE Propagate
  <2>1. /\ pc = "apply" /\ UNCHANGED <<found, pass, expired, roots>>
        /\ (pass = 1 /\ pc' = "correlateAgain") \/ (pass # 1 /\ pc' = "done")
    BY <1>3 DEF Propagate
  <2> QED
    BY <1>0, <2>1 DEF RootsInv, chosen, TypeOK
<1>4. CASE CorrelateAgain
  <2>1. pass = 1 /\ found = Reported
    BY <1>4 DEF CorrelateAgain, RootsInv, Reported
  <2>2. roots' = Roots(Reported) /\ pc' = "prepare" /\ UNCHANGED <<found, pass>>
    BY <1>4, <2>1 DEF CorrelateAgain
  <2> QED
    BY <1>0, <2>1, <2>2 DEF RootsInv, chosen
<1>5. CASE Prepare
  <2>1. roots = Roots(Reported) /\ pass = 1
    BY <1>5 DEF Prepare, RootsInv
  <2>2. CASE useHistory
    <3>1. /\ roots' = roots /\ pass' = 2
          /\ pc' = "done" \/ (pc' = "apply" /\ next' = 1 /\ baseline # <<>>)
      BY <1>5, <2>2 DEF Prepare, RootsAfter, StartApply
    <3> QED
      BY <1>0, <2>1, <2>2, <3>1 DEF RootsInv, chosen
  <2>3. CASE ~useHistory
    <3>1. pc' = "done" /\ UNCHANGED <<found, roots, pass>>
      BY <1>5, <2>3 DEF Prepare
    <3> QED
      BY <1>0, <2>1, <2>3, <3>1 DEF RootsInv, chosen
  <2> QED
    BY <2>2, <2>3
<1>6. CASE Midnight \/ Finished \/ UNCHANGED vars
  <2>1. UNCHANGED <<found, roots, pass, next, pc, expired>>
    BY <1>6 DEF Midnight, Finished, vars
  <2> QED
    BY <1>0, <2>1 DEF RootsInv, chosen
<1> QED
  BY <1>1, <1>2, <1>3, <1>4, <1>5, <1>6 DEF Next

LEMMA TypeStep ==
    ASSUME TypeOK, RootsInv, [Next]_vars
    PROVE  TypeOK'
<1>0. /\ UNCHANGED chosen /\ RuleIDs' = RuleIDs /\ found \subseteq found'
      /\ LastDay \in Nat /\ today \in Nat
  BY ReportedFixed, ChosenFixes DEF ConstantsAssumption, TypeOK
<1>1. /\ graph' \in Graphs /\ degraded' \subseteq MayDegrade
      /\ useHistory' \in BOOLEAN /\ baseline' \in Baselines
  BY <1>0 DEF TypeOK, chosen
<1>2. \A k \in DOMAIN roots' : roots'[k].related \subseteq found'
  <2>1. roots' = <<>> \/ roots' = Roots(Reported)
    BY RootsStep, RootsFixed, ReportedFixed DEF RootsInv
  <2>2. Reported \subseteq found' /\ graph \in Graphs
    BY <1>0 DEF Reported, TypeOK
  <2> QED
    BY <2>1, <2>2, RootsNameReported
<1>3. found' \subseteq Findings \cup Trends
  BY DEF TypeOK, Next, Correlate, ApplyRule, Propagate, CorrelateAgain, Prepare, Midnight,
         Finished, vars
<1>4. acked' \in [found' -> RuleIDs \cup {None}] /\ expired' \subseteq RuleIDs
  <2>1. CASE ApplyRule
    <3> DEFINE rule == baseline[next]
    <3>1. next \in DOMAIN baseline /\ rule.id \in RuleIDs
      BY <2>1, RuleFacts DEF ApplyRule, RootsInv, TypeOK
    <3>2. CASE Expired(rule, day)
      BY <2>1, <3>1, <3>2 DEF ApplyRule, AddExpired, TypeOK
    <3>3. CASE ~Expired(rule, day)
      <4>1. /\ acked' = [f \in found |-> IF f \in Approved(rule) THEN rule.id ELSE acked[f]]
            /\ UNCHANGED <<expired, found>>
        BY <2>1, <3>3 DEF ApplyRule
      <4> HIDE DEF rule
      <4> QED
        BY <3>1, <4>1 DEF TypeOK
    <3> QED
      BY <1>0, <3>2, <3>3
  <2>2. CASE Propagate
    <3>1. acked \in Acks
      BY DEF TypeOK, Acks
    <3>2. PICK after : Rounds(after) /\ Propagated = after[Len(roots)]
      BY <3>1, PropagatedIsLastRound
    <3>3. Len(roots) \in Nat
      BY RootsFacts DEF RootsInv
    <3>4. Propagated \in Acks
      BY <3>2, <3>3 DEF Rounds
    <3> QED
      BY <1>0, <2>2, <3>4 DEF Propagate, TypeOK, Acks
  <2>3. CASE Prepare
    <3>1. expired' = expired
      BY <2>3 DEF Prepare
    <3>2. acked' \in [found' -> RuleIDs \cup {None}]
      BY <2>3 DEF Prepare, TypeOK
    <3> QED
      BY <1>0, <3>1, <3>2 DEF TypeOK
  <2>4. CASE Correlate \/ CorrelateAgain \/ Midnight \/ Finished \/ UNCHANGED vars
    <3>1. UNCHANGED <<acked, expired, found>>
      BY <2>4 DEF Correlate, CorrelateAgain, Midnight, Finished, vars
    <3> QED
      BY <1>0, <3>1 DEF TypeOK
  <2> QED
    BY <1>0, <2>1, <2>2, <2>3, <2>4 DEF Next
<1>5. /\ pass' \in 1..2 /\ next' \in Nat
      /\ pc' \in {"correlate", "apply", "correlateAgain", "prepare", "done"}
  <2>1. CASE Correlate
    BY <2>1 DEF Correlate, StartApply, TypeOK
  <2>2. CASE Prepare
    <3>1. pass' \in {pass, 2} /\ next' \in {next, 1} /\ pc' \in {"apply", "done"}
      BY <2>2 DEF Prepare, StartApply
    <3> QED
      BY <3>1 DEF TypeOK
  <2>3. CASE ApplyRule
    <3>1. pc' = pc /\ pass' = pass /\ next' = next + 1 /\ next \in Nat
      BY <2>3 DEF ApplyRule, TypeOK
    <3> QED
      BY <3>1 DEF TypeOK
  <2>4. CASE Propagate \/ CorrelateAgain
    <3>1. pc' \in {"correlateAgain", "prepare", "done"} /\ UNCHANGED <<pass, next>>
      BY <2>4 DEF Propagate, CorrelateAgain
    <3> QED
      BY <3>1 DEF TypeOK
  <2>5. CASE Midnight \/ Finished \/ UNCHANGED vars
    <3>1. UNCHANGED <<pass, next, pc>>
      BY <2>5 DEF Midnight, Finished, vars
    <3> QED
      BY <3>1 DEF TypeOK
  <2> QED
    BY <2>1, <2>2, <2>3, <2>4, <2>5 DEF Next
<1>6. day' \in 1..today' /\ today' \in 1..LastDay
  <2>1. day \in 1..today /\ today \in 1..LastDay
    BY DEF TypeOK
  <2>2. CASE Midnight
    BY <1>0, <2>1, <2>2 DEF Midnight
  <2>3. CASE ~Midnight
    <3>1. today' = today /\ day' \in {day, today}
      BY <2>3 DEF Next, Correlate, ApplyRule, Propagate, CorrelateAgain, Prepare, Finished,
                  StartApply, vars
    <3> QED
      BY <1>0, <2>1, <3>1
  <2> QED
    BY <2>2, <2>3
<1> QED
  BY <1>0, <1>1, <1>2, <1>3, <1>4, <1>5, <1>6 DEF TypeOK

-----------------------------------------------------------------------------
(* What every acknowledgement stands on                                    *)

\* A reason stays one: the graph is fixed and no finding goes.
LEMMA JustifiedStays ==
    ASSUME [Next]_vars, NEW k, NEW f, Justified(baseline[k], f)
    PROVE  Justified(baseline[k], f)' /\ baseline' = baseline
<1>1. UNCHANGED chosen /\ found \subseteq found'
  BY ReportedFixed
<1>2. baseline' = baseline
  BY <1>1 DEF chosen
<1> DEFINE rule == baseline[k]
<1>3. PICK cause \in rule.covers \cap found :
          /\ Below(cause, f)
          /\ rule.workloads = Anywhere \/ Workloads(cause) \subseteq rule.workloads
  BY DEF Justified
<1>4. Below(cause, f)' /\ Workloads(cause)' = Workloads(cause)
  BY <1>1, <1>3, ChosenFixes
<1>5. rule' = rule /\ rule.expires >= 1
  BY <1>2 DEF Justified
<1>6. rule.workloads = Anywhere \/ Workloads(cause)' \subseteq rule.workloads
  BY <1>3, <1>4
<1>7. cause \in rule.covers \cap found'
  BY <1>1, <1>3
<1> HIDE DEF rule
<1> QED
  BY <1>2, <1>4, <1>5, <1>6, <1>7 DEF Justified, rule

\* An approval that matches a finding is a reason for it.
LEMMA MatchJustifies ==
    ASSUME TypeOK, RootsInv, NEW k \in DOMAIN baseline, ~Expired(baseline[k], day),
           NEW f \in Approved(baseline[k])
    PROVE  Justified(baseline[k], f)
<1> DEFINE rule == baseline[k]
<1>1. rule.expires \in Nat /\ day \in Int /\ day >= 1
  BY RuleFacts DEF TypeOK
<1>2. rule.expires >= 1
  BY <1>1 DEF Expired
<1>3. f \in rule.covers \cap found /\ MatchWorkload(rule, f)
  BY DEF Approved
<1>4. rule.workloads = Anywhere \/ Workloads(f) \subseteq rule.workloads
  BY <1>3 DEF MatchWorkload, Consumers
<1>5. Below(f, f)
  BY DEF Below
<1> HIDE DEF rule
<1> QED
  BY <1>2, <1>3, <1>4, <1>5 DEF Justified, rule

\* A reason for a cause is one for what is below it.
LEMMA ReasonsPassDown ==
    ASSUME graph \in Graphs, found \subseteq Findings \cup Trends,
           NEW k, NEW c \in found, NEW f \in found, Below(c, f), Justified(baseline[k], c)
    PROVE  Justified(baseline[k], f)
<1> DEFINE rule == baseline[k]
<1>1. PICK cause \in rule.covers \cap found :
          /\ Below(cause, c)
          /\ rule.workloads = Anywhere \/ Workloads(cause) \subseteq rule.workloads
  BY DEF Justified
<1>2. /\ graph \subseteq Resources \X Resources
      /\ cause.resource \in Resources /\ c.resource \in Resources /\ f.resource \in Resources
  BY <1>1 DEF ConstantsAssumption
<1>3. Below(cause, f)
  BY <1>1, <1>2, BelowIsTransitive
<1> HIDE DEF rule
<1> QED
  BY <1>1, <1>3 DEF Justified, rule

LEMMA ReasonsPropagate ==
    ASSUME TypeOK, RootsInv, AllJustified
    PROVE  \A f \in found : Propagated[f] # None =>
              \E k \in DOMAIN baseline : baseline[k].id = Propagated[f] /\ Justified(baseline[k], f)
<1> DEFINE ids == RuleIDs
           J == {p \in found \X ids :
                    \E k \in DOMAIN baseline : baseline[k].id = p[2] /\ Justified(baseline[k], p[1])}
<1>1. acked \in Acks /\ graph \in Graphs /\ found \subseteq Findings \cup Trends
  BY DEF TypeOK, Acks
<1>2. Len(roots) \in Nat /\ DOMAIN roots = 1..Len(roots)
  BY RootsFacts DEF RootsInv
<1>3. ASSUME NEW f \in found, acked[f] # None
      PROVE  <<f, acked[f]>> \in J
  BY <1>1, <1>3 DEF AllJustified, Acks
<1>4. ASSUME NEW j \in DOMAIN roots, roots[j].cause \in found,
             NEW f \in roots[j].related \cap found, NEW id \in ids, <<roots[j].cause, id>> \in J
      PROVE  <<f, id>> \in J
  <2>1. PICK k \in DOMAIN baseline : baseline[k].id = id /\ Justified(baseline[k], roots[j].cause)
    BY <1>4
  <2>2. Below(roots[j].cause, f)
    <3>1. /\ roots[j].cause \in Reported
          /\ roots[j].related = Related(roots[j].cause, Reported)
      BY RootsFacts DEF RootsInv
    <3>2. Reported \in SUBSET Findings
      BY DEF Reported
    <3> QED
      BY <1>1, <1>4, <3>1, <3>2, RelatedFacts
  <2>3. Justified(baseline[k], f)
    BY <1>1, <1>4, <2>1, <2>2, ReasonsPassDown
  <2> QED
    BY <1>4, <2>1, <2>3
<1> HIDE DEF J
<1>5. \A f \in found : Propagated[f] # None => <<f, Propagated[f]>> \in J
  BY <1>1, <1>2, <1>3, <1>4, CopiesKeep
<1> QED
  BY <1>5 DEF J

LEMMA JustifiedStep ==
    ASSUME TypeOK, RootsInv, AllJustified, [Next]_vars
    PROVE  AllJustified'
<1>1. /\ baseline' = baseline
      /\ \A k, f : Justified(baseline[k], f) => Justified(baseline[k], f)'
  BY ReportedFixed, JustifiedStays DEF chosen
<1> SUFFICES ASSUME NEW f \in found', acked'[f] # None
             PROVE  \E k \in DOMAIN baseline :
                        baseline[k].id = acked'[f] /\ Justified(baseline[k], f)'
  BY <1>1 DEF AllJustified
<1>2. SUFFICES \E k \in DOMAIN baseline :
                    baseline[k].id = acked'[f] /\ Justified(baseline[k], f)
  BY <1>1, <1>2
<1>3. CASE ApplyRule /\ ~Expired(baseline[next], day)
  <2>1. next \in DOMAIN baseline
    BY <1>3, RuleFacts DEF ApplyRule, RootsInv, TypeOK
  <2>2. /\ f \in found
        /\ acked'[f] = IF f \in Approved(baseline[next]) THEN baseline[next].id ELSE acked[f]
    BY <1>3 DEF ApplyRule
  <2>3. CASE f \in Approved(baseline[next])
    BY <1>3, <2>1, <2>2, <2>3, MatchJustifies
  <2> QED
    BY <2>2, <2>3 DEF AllJustified
<1>4. CASE Propagate
  <2>1. f \in found /\ acked'[f] = Propagated[f]
    BY <1>4 DEF Propagate
  <2> QED
    BY <2>1, ReasonsPropagate
<1>5. CASE Prepare
  <2>1. f \in found /\ acked'[f] = acked[f]
    BY <1>5 DEF Prepare
  <2> QED
    BY <2>1 DEF AllJustified
<1>6. CASE \/ ApplyRule /\ Expired(baseline[next], day)
           \/ Correlate \/ CorrelateAgain \/ Midnight \/ Finished \/ UNCHANGED vars
  <2>1. UNCHANGED <<found, acked>>
    BY <1>6 DEF ApplyRule, AddExpired, Correlate, CorrelateAgain, Midnight, Finished, vars
  <2> QED
    BY <2>1 DEF AllJustified
<1> QED
  BY <1>3, <1>4, <1>5, <1>6 DEF Next

-----------------------------------------------------------------------------
(* Expired approvals and the roots they reset                              *)

LEMMA RulesFixed ==
    ASSUME [Next]_vars
    PROVE  /\ baseline' = baseline
           /\ \A k, d : Expired(baseline[k], d)' <=> Expired(baseline[k], d)
BY ReportedFixed DEF chosen, Expired

LEMMA ExpiredStep ==
    ASSUME TypeOK, RootsInv, ExpiredKnown, [Next]_vars
    PROVE  ExpiredKnown'
<1>0. /\ baseline' = baseline /\ expired \subseteq expired'
      /\ Len(baseline) \in Nat /\ DOMAIN baseline = 1..Len(baseline)
  <2>1. expired \subseteq expired'
    BY DEF Next, Correlate, ApplyRule, AddExpired, Propagate, CorrelateAgain, Prepare, Midnight,
           Finished, vars
  <2> QED
    BY <2>1, RulesFixed, RuleFacts DEF TypeOK
<1> SUFFICES ASSUME NEW k \in DOMAIN baseline, Expired(baseline[k], 1), Examined(k)'
             PROVE  baseline[k].id \in expired'
  BY <1>0, RulesFixed DEF ExpiredKnown
<1>1. CASE Examined(k)
  BY <1>0, <1>1 DEF ExpiredKnown
<1>2. CASE ApplyRule /\ ~Examined(k)
  <2>1. pass' = pass /\ pc' = pc /\ pc = "apply" /\ next' = next + 1 /\ next \in Nat
    BY <1>2 DEF ApplyRule, TypeOK
  <2>2. k = next
    BY <1>0, <1>2, <2>1 DEF Examined
  <2>3. Expired(baseline[k], day)
    <3>1. baseline[k].expires \in Nat /\ day >= 1 /\ day \in Int
      BY RuleFacts DEF TypeOK
    <3> QED
      BY <3>1 DEF Expired
  <2> QED
    BY <1>2, <2>2, <2>3 DEF ApplyRule, AddExpired
<1>3. CASE Propagate /\ ~Examined(k)
  <2>1. pc = "apply" /\ next > Len(baseline) /\ next \in Nat
    BY <1>3 DEF Propagate, TypeOK
  <2> QED
    BY <1>0, <1>3, <2>1 DEF Examined
<1>4. CASE Prepare
  <2>1. pc = "prepare"
    BY <1>4 DEF Prepare
  <2> QED
    BY <1>0, <2>1 DEF ExpiredKnown, Examined
<1>5. CASE Correlate /\ ~Examined(k)
  <2>1. pass' = pass /\ pass = 1
    BY <1>5 DEF Correlate, RootsInv
  <2>2. CASE baseline = <<>>
    BY <1>0, <2>2
  <2>3. CASE baseline # <<>>
    <3>1. pc' = "apply" /\ next' = 1
      BY <1>5, <2>3 DEF Correlate, StartApply
    <3> QED
      BY <1>0, <2>1, <3>1 DEF Examined
  <2> QED
    BY <2>2, <2>3
<1>6. CASE CorrelateAgain
  <2>1. pc = "correlateAgain"
    BY <1>6 DEF CorrelateAgain
  <2> QED
    BY <1>0, <2>1 DEF ExpiredKnown, Examined
<1>7. CASE (Midnight \/ Finished \/ UNCHANGED vars) /\ ~Examined(k)
  <2>1. UNCHANGED <<pass, pc, next>>
    BY <1>7 DEF Midnight, Finished, vars
  <2> QED
    BY <1>7, <2>1 DEF Examined
<1> QED
  BY <1>1, <1>2, <1>3, <1>4, <1>5, <1>6, <1>7 DEF Next

\* A rule that resets the roots while they are to stay intact: there is none.
LEMMA NoReset ==
    ASSUME TypeOK, RootsInv, ExpiredKnown, Intact, ApplyRule
    PROVE  roots' = roots
<1> DEFINE rule == baseline[next]
<1>1. next \in DOMAIN baseline /\ rule.expires \in Nat
  BY RuleFacts DEF ApplyRule, RootsInv, TypeOK
<1>2. day \in Int /\ day <= LastDay /\ LastDay \in Int
  BY DEF TypeOK, ConstantsAssumption
<1>3. CASE ~Expired(rule, day)
  BY <1>3 DEF ApplyRule
<1>4. CASE Expired(rule, day)
  <2>1. Expired(rule, LastDay)
    BY <1>1, <1>2, <1>4 DEF Expired
  <2>2. pass = 2 /\ Expired(rule, 1)
    BY <1>1, <2>1 DEF Intact, Steady, NoneExpiresMeanwhile
  <2>3. rule.id \in expired
    BY <1>1, <2>2 DEF ExpiredKnown, Examined
  <2> QED
    BY <1>4, <2>3 DEF ApplyRule, AddExpired
<1> QED
  BY <1>3, <1>4

\* Once the first correlation is over, a step that leaves the roots intact
\* finds and leaves those of the reported findings.
LEMMA IntactBefore ==
    ASSUME RootsInv, [Next]_vars, Intact'
    PROVE  Intact \/ Prepare
<1>1. Steady' = Steady /\ NoneExpiresMeanwhile' = NoneExpiresMeanwhile
  BY ReportedFixed, ChosenFixes DEF Steady, NoneExpiresMeanwhile
<1>2. pass' = pass \/ Prepare
  BY DEF Next, Correlate, ApplyRule, Propagate, CorrelateAgain, Midnight, Finished, vars
<1> QED
  BY <1>1, <1>2 DEF Intact

LEMMA RootsIntactStep ==
    ASSUME TypeOK, RootsInv, ExpiredKnown, RootsIntact, [Next]_vars
    PROVE  RootsIntact'
<1> SUFFICES ASSUME pc' # "correlate", Intact'
             PROVE  roots' = Roots(Reported)'
  BY DEF RootsIntact
<1>0. Roots(Reported)' = Roots(Reported)
  BY ReportedFixed, RootsFixed
<1>1. CASE Prepare
  <2>1. roots' = roots /\ roots = Roots(Reported)
    BY <1>1 DEF Prepare, RootsAfter, RootsInv
  <2> QED
    BY <1>0, <2>1
<1>2. CASE Intact /\ ~Prepare
  <2>1. CASE Correlate \/ CorrelateAgain
    <3>1. found = Reported /\ roots' = Roots(found)
      BY <2>1 DEF Correlate, CorrelateAgain, RootsInv, Reported
    <3> QED
      BY <1>0, <3>1
  <2>2. CASE ApplyRule
    <3>1. roots' = roots /\ pc # "correlate"
      BY <1>2, <2>2, NoReset DEF ApplyRule
    <3> QED
      BY <1>0, <1>2, <3>1 DEF RootsIntact
  <2>3. CASE Propagate \/ Midnight \/ Finished \/ UNCHANGED vars
    <3>1. roots' = roots /\ pc # "correlate"
      BY <2>3 DEF Propagate, Midnight, Finished, vars
    <3> QED
      BY <1>0, <1>2, <3>1 DEF RootsIntact
  <2> QED
    BY <1>2, <2>1, <2>2, <2>3 DEF Next
<1> QED
  BY <1>1, <1>2, IntactBefore

-----------------------------------------------------------------------------
(* The second pass finds nothing new                                       *)

\* What is acknowledged stays so.
LEMMA AckedStays ==
    ASSUME TypeOK, RootsInv, [Next]_vars, NEW f \in found, acked[f] # None
    PROVE  acked'[f] # None
<1>1. CASE ApplyRule
  <2> DEFINE rule == baseline[next]
  <2>1. CASE Expired(rule, day)
    BY <1>1, <2>1 DEF ApplyRule, AddExpired
  <2>2. CASE ~Expired(rule, day)
    <3>1. acked'[f] = IF f \in Approved(rule) THEN rule.id ELSE acked[f]
      BY <1>1, <2>2 DEF ApplyRule
    <3> QED
      BY <3>1 DEF Approved
  <2> QED
    BY <2>1, <2>2
<1>2. CASE Propagate
  <2>1. PICK after : Rounds(after) /\ Propagated = after[Len(roots)]
    BY PropagatedIsLastRound DEF TypeOK, Acks
  <2>2. Len(roots) \in Nat /\ 0 \in Nat /\ Len(roots) >= 0
    BY RootsFacts DEF RootsInv
  <2>3. after[0][f] # None
    BY <2>1 DEF Rounds
  <2>4. after[Len(roots)][f] # None
    BY <2>1, <2>2, <2>3, RoundsOnlyAdd
  <2> QED
    BY <1>2, <2>1, <2>4 DEF Propagate
<1>3. CASE Prepare
  BY <1>3 DEF Prepare
<1>4. CASE Correlate \/ CorrelateAgain \/ Midnight \/ Finished \/ UNCHANGED vars
  BY <1>4 DEF Correlate, CorrelateAgain, Midnight, Finished, vars
<1> QED
  BY <1>1, <1>2, <1>3, <1>4 DEF Next

\* While no approval expires, the roots stay, and with them what matches.
LEMMA MatchStays ==
    ASSUME TypeOK, RootsInv, ExpiredKnown, RootsIntact, Steady, [Next]_vars,
           pc # "correlate"
    PROVE  \A k, f : MatchWorkload(baseline[k], f)' <=> MatchWorkload(baseline[k], f)
<1>1. UNCHANGED chosen /\ Intact /\ Intact' /\ pc' # "correlate"
  <2>1. UNCHANGED chosen /\ Steady'
    BY ReportedFixed, ChosenFixes
  <2>2. pc' # "correlate"
    BY DEF Next, Correlate, ApplyRule, Propagate, CorrelateAgain, Prepare, StartApply, Midnight,
           Finished, vars
  <2> QED
    BY <2>1, <2>2 DEF Intact
<1>2. roots = Roots(Reported) /\ roots' = Roots(Reported)'
  <2>1. RootsIntact'
    BY RootsIntactStep
  <2> QED
    BY <1>1, <2>1 DEF RootsIntact
<1>3. Roots(Reported)' = Roots(Reported)
  BY ReportedFixed, RootsFixed
<1> QED
  BY <1>1, <1>2, <1>3, MatchFixed

LEMMA NothingLeftStep ==
    ASSUME TypeOK, RootsInv, ExpiredKnown, RootsIntact, NothingLeft, [Next]_vars
    PROVE  NothingLeft'
<1>0. /\ UNCHANGED chosen /\ Reported' = Reported /\ Steady' = Steady
      /\ Reported \subseteq found
      /\ Len(baseline) \in Nat /\ DOMAIN baseline = 1..Len(baseline)
  BY ReportedFixed, ChosenFixes, RuleFacts DEF Reported, TypeOK, Steady
<1> SUFFICES ASSUME Steady, NEW f \in Reported, NEW k \in DOMAIN baseline,
                    acked'[f] = None, Examined(k)'
             PROVE  ~(f \in baseline[k].covers /\ MatchWorkload(baseline[k], f)')
  BY <1>0 DEF NothingLeft, chosen
<1>1. acked[f] = None
  BY <1>0, AckedStays
<1>2. CASE Examined(k)
  <2>1. pc # "correlate"
    BY <1>2 DEF Examined, RootsInv
  <2> QED
    BY <1>1, <1>2, <2>1, MatchStays DEF NothingLeft
<1>3. CASE ApplyRule /\ ~Examined(k)
  <2>1. pass' = pass /\ pc' = pc /\ pc = "apply" /\ next' = next + 1 /\ next \in Nat
    BY <1>3 DEF ApplyRule, TypeOK
  <2>2. k = next
    BY <1>0, <1>3, <2>1 DEF Examined
  <2>3. ~Expired(baseline[k], day)
    <3>1. baseline[k].expires \in Nat /\ day \in Int /\ day <= LastDay /\ LastDay \in Int
      BY RuleFacts DEF TypeOK, ConstantsAssumption
    <3> QED
      BY <3>1 DEF Steady, Expired
  <2>4. f \notin Approved(baseline[k])
    <3>1. baseline[k].id # None
      BY RuleFacts DEF TypeOK
    <3> QED
      BY <1>0, <1>3, <2>2, <2>3, <3>1 DEF ApplyRule
  <2>5. ~(f \in baseline[k].covers /\ MatchWorkload(baseline[k], f))
    BY <1>0, <1>1, <2>4 DEF Approved
  <2> QED
    BY <2>1, <2>5, MatchStays
<1>4. CASE ~ApplyRule /\ ~Examined(k)
  <2>1. CASE Propagate
    <3>1. pc = "apply" /\ next > Len(baseline) /\ next \in Nat
      BY <2>1 DEF Propagate, TypeOK
    <3> QED
      BY <1>0, <1>4, <3>1 DEF Examined
  <2>2. CASE Prepare \/ CorrelateAgain
    BY <1>4, <2>2 DEF Prepare, CorrelateAgain, Examined
  <2>3. CASE Correlate
    <3>1. pass' = pass /\ pass = 1
      BY <2>3 DEF Correlate, RootsInv
    <3>2. baseline # <<>>
      BY <1>0
    <3>3. pc' = "apply" /\ next' = 1
      BY <2>3, <3>2 DEF Correlate, StartApply
    <3> QED
      BY <1>0, <3>1, <3>3 DEF Examined
  <2>4. CASE Midnight \/ Finished \/ UNCHANGED vars
    <3>1. UNCHANGED <<pass, pc, next>>
      BY <2>4 DEF Midnight, Finished, vars
    <3> QED
      BY <1>4, <3>1 DEF Examined
  <2> QED
    BY <1>4, <2>1, <2>2, <2>3, <2>4 DEF Next
<1> QED
  BY <1>2, <1>3, <1>4

-----------------------------------------------------------------------------
(* The symptoms follow                                                     *)

\* Without a baseline nothing is acknowledged.
LEMMA NoBaselineNoAck ==
    ASSUME TypeOK, baseline = <<>>
    PROVE  \A f \in found : acked[f] = None
BY DEF TypeOK, RuleIDs

LEMMA FollowedByPropagate ==
    ASSUME TypeOK, RootsInv, Acyclic
    PROVE  \A k \in DOMAIN roots : Propagated[roots[k].cause] # None =>
              \A f \in roots[k].related : Visible(f) => Propagated[f] # None
<1>1. /\ Len(roots) \in Nat /\ DOMAIN roots = 1..Len(roots)
      /\ \A k \in DOMAIN roots : /\ roots[k].cause \in Reported
                                 /\ roots[k].related = Related(roots[k].cause, Reported)
                                 /\ roots[k].related \subseteq Reported
  BY RootsFacts, RelatedAreFound DEF RootsInv
<1>2. Reported \in SUBSET Findings /\ Reported \subseteq found /\ graph \in Graphs
  BY DEF Reported, TypeOK
<1>3. ASSUME NEW j \in DOMAIN roots, NEW k \in DOMAIN roots, NEW f \in roots[k].related,
             roots[k].cause \in roots[j].related, Visible(f)
      PROVE  f \in roots[j].related
  <2> DEFINE c == roots[j].cause
             d == roots[k].cause
  <2>1. /\ c \in Reported /\ d \in Related(c, Reported) /\ f \in Related(d, Reported)
        /\ roots[j].related = Related(c, Reported)
    BY <1>1, <1>3
  <2> HIDE DEF c, d
  <2>2. \A e \in Related(c, Reported) : \A g \in Related(e, Reported) :
            Visible(g) => g \in Related(c, Reported)
    BY <1>2, <2>1, RelatedFacts
  <2>3. f \in Related(c, Reported)
    BY <1>3, <2>1, <2>2
  <2> QED
    BY <2>1, <2>3
<1>4. acked \in Acks
  BY DEF TypeOK, Acks
<1> QED
  BY <1>1, <1>2, <1>3, <1>4, CopiesReachSymptoms

LEMMA FollowedStep ==
    ASSUME TypeOK, RootsInv, ExpiredKnown, RootsIntact, NothingLeft, FollowedOnce, [Next]_vars,
           TypeOK', RootsInv'
    PROVE  FollowedOnce'
<1>0. /\ UNCHANGED chosen /\ Reported' = Reported
      /\ Steady' = Steady /\ Acyclic' = Acyclic /\ NoneExpiresMeanwhile' = NoneExpiresMeanwhile
      /\ Reported \subseteq found /\ Roots(Reported)' = Roots(Reported)
  BY ReportedFixed, ChosenFixes, RootsFixed
     DEF Reported, Steady, Acyclic, NoneExpiresMeanwhile
<1> SUFFICES ASSUME Acyclic,
                    \/ Intact' /\ pc' \in {"correlateAgain", "prepare", "done"}
                    \/ Steady /\ pass' = 2
             PROVE  Followed'
  BY <1>0 DEF FollowedOnce
<1>1. Intact'
  BY <1>0 DEF Intact
<1>2. /\ \A k \in DOMAIN roots : roots[k].cause \in Reported /\ roots[k].related \subseteq Reported
      /\ \A k \in DOMAIN roots' :
            roots'[k].cause \in Reported /\ roots'[k].related \subseteq Reported
  <2>1. roots' = <<>> \/ roots' = Roots(Reported)
    BY <1>0 DEF RootsInv
  <2>2. graph \in Graphs
    BY DEF TypeOK
  <2> QED
    BY <2>1, <2>2, RootsNameReported, RelatedAreFound
\* With the same roots, nothing can go wrong but a cause newly acknowledged.
<1>3. ASSUME Followed, roots' = roots,
             \A f \in Reported : acked[f] = None => acked'[f] = None
      PROVE  Followed'
  <2> SUFFICES ASSUME NEW k \in DOMAIN roots, acked'[roots[k].cause] # None,
                      NEW f \in roots[k].related, Visible(f)
               PROVE  acked'[f] # None
    BY <1>3 DEF Followed
  <2>1. acked[f] # None /\ f \in found
    BY <1>0, <1>2, <1>3 DEF Followed
  <2> QED
    BY <2>1, AckedStays
<1>4. CASE Correlate
  <2>1. pass' = 1 /\ acked' = acked /\ found' = found
    BY <1>4 DEF Correlate, RootsInv
  <2>2. baseline = <<>>
    BY <1>4, <2>1 DEF Correlate, StartApply
  <2>3. \A f \in Reported : acked'[f] = None
    BY <1>0, <2>1, <2>2, NoBaselineNoAck
  <2> QED
    BY <1>2, <2>3 DEF Followed
<1>5. CASE ApplyRule
  <2>1. Steady /\ pass = 2
    BY <1>5 DEF ApplyRule
  <2>2. Followed
    BY <2>1 DEF FollowedOnce
  <2>3. roots' = roots
    BY <1>5, <2>1, NoReset DEF Intact
  <2>4. ASSUME NEW f \in Reported, acked[f] = None
        PROVE  acked'[f] = None
    <3>1. next \in DOMAIN baseline
      BY <1>5, RuleFacts DEF ApplyRule, RootsInv, TypeOK
    <3>2. ~(f \in baseline[next].covers /\ MatchWorkload(baseline[next], f))
      BY <2>1, <2>4, <3>1 DEF NothingLeft, Examined
    <3> QED
      BY <1>0, <1>5, <2>4, <3>2 DEF ApplyRule, AddExpired, Approved
  <2> QED
    BY <1>3, <2>2, <2>3, <2>4
<1>6. CASE Propagate
  <2>1. acked' = Propagated /\ roots' = roots
    BY <1>6 DEF Propagate
  <2> QED
    BY <2>1, FollowedByPropagate DEF Followed
<1>7. CASE CorrelateAgain
  <2>1. pass' = 1 /\ pass = 1 /\ acked' = acked /\ found = Reported /\ pc = "correlateAgain"
        /\ roots' = Roots(found)
    BY <1>7 DEF CorrelateAgain, RootsInv, Reported
  <2>2. Intact
    BY <1>0, <1>1, <2>1 DEF Intact
  <2>3. Followed /\ roots = Roots(Reported)
    BY <2>1, <2>2 DEF FollowedOnce, RootsIntact
  <2> QED
    BY <1>3, <2>1, <2>3
<1>8. CASE Prepare
  <2>1. pc = "prepare" /\ pass = 1 /\ roots' = roots
    BY <1>8 DEF Prepare, RootsAfter, RootsInv
  <2>2. Steady
    <3>1. CASE baseline = <<>>
      BY <3>1 DEF Steady
    <3>2. CASE baseline # <<>> /\ useHistory
      <4>1. pc' = "apply"
        BY <1>8, <3>2 DEF Prepare, StartApply
      <4> QED
        BY <4>1
    <3>3. CASE ~useHistory
      <4>1. pass' = 1
        BY <1>8, <2>1, <3>3 DEF Prepare
      <4> QED
        BY <1>0, <1>1, <4>1 DEF Intact
    <3> QED
      BY <3>1, <3>2, <3>3
  <2>3. Followed
    BY <2>1, <2>2 DEF FollowedOnce, Intact
  <2>4. \A f \in Reported : acked'[f] = acked[f]
    BY <1>0, <1>8 DEF Prepare
  <2> QED
    BY <1>3, <2>1, <2>3, <2>4
<1>9. CASE Midnight \/ Finished \/ UNCHANGED vars
  <2>1. UNCHANGED <<found, acked, roots, pass, pc>>
    BY <1>9 DEF Midnight, Finished, vars
  <2>2. Intact
    BY <1>0, <1>1, <2>1 DEF Intact
  <2>3. Followed
    BY <2>1, <2>2 DEF FollowedOnce
  <2> QED
    BY <1>3, <2>1, <2>3
<1> QED
  BY <1>4, <1>5, <1>6, <1>7, <1>8, <1>9 DEF Next

-----------------------------------------------------------------------------
(* The invariant                                                           *)

LEMMA AcknowledgeInvInit ==
    ASSUME Init
    PROVE  AcknowledgeInv
<1>1. TypeOK
  <2>1. LastDay \in Nat \ {0}
    BY DEF ConstantsAssumption
  <2>2. acked \in [found -> RuleIDs \cup {None}]
    BY DEF Init
  <2>3. \A k \in DOMAIN roots : roots[k].related \subseteq found
    BY DEF Init
  <2> QED
    BY <2>1, <2>2, <2>3 DEF Init, TypeOK
<1>2. RootsInv
  BY DEF Init, RootsInv
<1>3. AllJustified
  BY DEF Init, AllJustified
<1>4. ExpiredKnown /\ NothingLeft
  BY DEF Init, ExpiredKnown, NothingLeft, Examined
<1>5. RootsIntact /\ FollowedOnce
  BY DEF Init, RootsIntact, FollowedOnce, Intact
<1> QED
  BY <1>1, <1>2, <1>3, <1>4, <1>5 DEF AcknowledgeInv

LEMMA AcknowledgeInvStep ==
    ASSUME AcknowledgeInv, [Next]_vars
    PROVE  AcknowledgeInv'
<1>1. TypeOK' /\ RootsInv' /\ AllJustified' /\ ExpiredKnown' /\ RootsIntact' /\ NothingLeft'
  BY TypeStep, RootsStep, JustifiedStep, ExpiredStep, RootsIntactStep, NothingLeftStep
     DEF AcknowledgeInv
<1>2. FollowedOnce'
  BY <1>1, FollowedStep DEF AcknowledgeInv
<1> QED
  BY <1>1, <1>2 DEF AcknowledgeInv

\* The inductive invariant, for every set of findings, graph and baseline.
THEOREM AcknowledgeInvHolds == Spec => []AcknowledgeInv
<1>1. Init => AcknowledgeInv
  BY AcknowledgeInvInit
<1>2. AcknowledgeInv /\ [Next]_vars => AcknowledgeInv'
  BY AcknowledgeInvStep
<1> QED
  BY <1>1, <1>2, PTL DEF Spec

\* State.Findings, Finding.Acknowledgement and State.RootCauses stay well
\* typed: no root cause speaks of a finding that is not there.
THEOREM TypeCorrect == Spec => []TypeOK
<1>1. AcknowledgeInv => TypeOK
  BY DEF AcknowledgeInv
<1> QED
  BY <1>1, AcknowledgeInvHolds, PTL

-----------------------------------------------------------------------------
(* The properties                                                          *)

\* baseline.Apply: whatever is acknowledged stands below a finding that an
\* approval in force covers.
THEOREM OnlyThroughAnApprovalHolds == Spec => []OnlyThroughAnApproval
<1>1. ASSUME AcknowledgeInv
      PROVE  OnlyThroughAnApproval
  <2> SUFFICES ASSUME NEW f \in found, acked[f] # None
               PROVE  /\ RuleOf(acked[f]).expires >= 1
                      /\ \E cause \in RuleOf(acked[f]).covers \cap found : Below(cause, f)
    BY DEF OnlyThroughAnApproval
  <2>1. PICK k \in DOMAIN baseline : baseline[k].id = acked[f] /\ Justified(baseline[k], f)
    BY <1>1 DEF AcknowledgeInv, AllJustified
  <2>2. RuleOf(acked[f]) = baseline[k]
    BY <1>1, <2>1, RuleFacts DEF AcknowledgeInv, TypeOK
  <2> QED
    BY <2>1, <2>2 DEF Justified
<1> QED
  BY <1>1, AcknowledgeInvHolds, PTL

\* What is downstream of a finding touches no workload that it does not touch,
\* except the ReplicaSets that are not asked about where a top-level workload is.
LEMMA WorkloadsBelow ==
    ASSUME graph \in Graphs, NEW c \in Findings \cup Trends, NEW f \in Findings \cup Trends,
           Below(c, f)
    PROVE  \/ Workloads(f) \subseteq Workloads(c)
           \/ /\ Workloads(f) \cap Deployments = {}
              /\ f.resource \in Descendants(c.resource)
              /\ Reached(c.resource) \cap Deployments # {}
<1> DEFINE rc == c.resource
           rf == f.resource
<1>1. graph \subseteq Resources \X Resources /\ rc \in Resources /\ rf \in Resources
  BY DEF ConstantsAssumption
<1>2. CASE rf = rc
  BY <1>2 DEF Workloads
<1>3. CASE rf \in Descendants(rc)
  <2>1. /\ Reached(rf) \subseteq Reached(rc)
        /\ \A w \in Reached(rf) : w \in Resources /\ Descendants(w) \subseteq Reached(rf)
    <3>1. Descendants(rc) \subseteq Reached(rc)
      BY DEF Reached
    <3>2. Reached(rf) \subseteq Reached(rc)
      BY <1>1, <1>3, <3>1, ReachedIsTransitive
    <3>3. ASSUME NEW w \in Reached(rf)
          PROVE  w \in Resources /\ Descendants(w) \subseteq Reached(rf)
      <4>1. w \in Resources /\ Reached(w) \subseteq Reached(rf)
        BY <1>1, ReachedIsTransitive
      <4> QED
        BY <4>1 DEF Reached
    <3> QED
      BY <3>2, <3>3
  <2>2. CASE Reached(rf) \cap Deployments # {}
    <3>1. Reached(rc) \cap Deployments # {}
      BY <2>1, <2>2
    <3>2. /\ Workloads(f) = Outermost(Reached(rf) \cap Deployments)
          /\ Workloads(c) = Outermost(Reached(rc) \cap Deployments)
      BY <2>2, <3>1 DEF Workloads
    <3>3. ASSUME NEW w \in Outermost(Reached(rf) \cap Deployments)
          PROVE  w \in Outermost(Reached(rc) \cap Deployments)
      <4>1. /\ w \in Reached(rf) \cap Deployments
            /\ Descendants(w) \cap (Reached(rf) \cap Deployments) = {}
        BY <3>3 DEF Outermost
      <4>2. Descendants(w) \cap Deployments = {}
        BY <2>1, <4>1
      <4> QED
        BY <2>1, <4>1, <4>2 DEF Outermost
    <3> QED
      BY <3>2, <3>3
  <2>3. CASE Reached(rf) \cap Deployments = {} /\ Reached(rc) \cap Deployments = {}
    BY <2>1, <2>3 DEF Workloads
  <2>4. CASE Reached(rf) \cap Deployments = {} /\ Reached(rc) \cap Deployments # {}
    <3>1. Workloads(f) \cap Deployments = {}
      BY <2>4 DEF Workloads
    <3> QED
      BY <1>3, <2>4, <3>1
  <2> QED
    BY <2>2, <2>3, <2>4
<1> QED
  BY <1>2, <1>3 DEF Below

\* baseline.Apply, matchWorkload: an approval limited to workloads stays in
\* them, whichever way it was handed on.
THEOREM ApprovalStaysInItsWorkloadsHolds == Spec => []ApprovalStaysInItsWorkloads
<1>1. ASSUME AcknowledgeInv
      PROVE  ApprovalStaysInItsWorkloads
  <2>0. /\ graph \in Graphs /\ baseline \in Baselines /\ found \subseteq Findings \cup Trends
        /\ AllJustified
    BY <1>1 DEF AcknowledgeInv, TypeOK
  <2> SUFFICES ASSUME NEW f \in found, acked[f] # None
               PROVE  LET rule == RuleOf(acked[f]) IN
                      \/ rule.workloads = Anywhere
                      \/ Workloads(f) \subseteq rule.workloads
                      \/ /\ Workloads(f) \cap Deployments = {}
                         /\ \E cause \in rule.covers \cap found :
                               /\ f.resource \in Descendants(cause.resource)
                               /\ Reached(cause.resource) \cap Deployments # {}
                               /\ Workloads(cause) \subseteq rule.workloads
    BY DEF ApprovalStaysInItsWorkloads
  <2>1. PICK k \in DOMAIN baseline : baseline[k].id = acked[f] /\ Justified(baseline[k], f)
    BY <2>0 DEF AllJustified
  <2> DEFINE rule == baseline[k]
  <2>2. RuleOf(acked[f]) = rule
    BY <2>0, <2>1, RuleFacts
  <2>3. PICK cause \in rule.covers \cap found :
            /\ Below(cause, f)
            /\ rule.workloads = Anywhere \/ Workloads(cause) \subseteq rule.workloads
    BY <2>1 DEF Justified
  <2>4. \/ Workloads(f) \subseteq Workloads(cause)
        \/ /\ Workloads(f) \cap Deployments = {}
           /\ f.resource \in Descendants(cause.resource)
           /\ Reached(cause.resource) \cap Deployments # {}
    BY <2>0, <2>3, WorkloadsBelow
  <2> HIDE DEF rule
  <2> QED
    BY <2>2, <2>3, <2>4
<1> QED
  BY <1>1, AcknowledgeInvHolds, PTL

\* baseline.Apply, second loop: in the report the visible findings that a root
\* names are acknowledged whenever its cause is.
THEOREM SymptomsFollowTheirCauseHolds == Spec => []SymptomsFollowTheirCause
<1>1. ASSUME AcknowledgeInv
      PROVE  SymptomsFollowTheirCause
  <2> SUFFICES ASSUME pc = "done", Acyclic, Steady \/ (useHistory /\ NoneExpiresMeanwhile)
               PROVE  Followed
    BY DEF SymptomsFollowTheirCause
  <2>1. Intact
    BY <1>1 DEF AcknowledgeInv, RootsInv, Intact
  <2> QED
    BY <1>1, <2>1 DEF AcknowledgeInv, FollowedOnce
<1> QED
  BY <1>1, AcknowledgeInvHolds, PTL

\* In the second pass the copies reach no visible finding that the first left.
LEMMA SecondPropagateAddsNothing ==
    ASSUME TypeOK, RootsInv, Followed, Acyclic,
           NEW f \in Reported, Visible(f), acked[f] = None
    PROVE  Propagated[f] = None
<1> DEFINE Settled(g) ==
              \A k \in DOMAIN roots : roots[k].cause = g =>
                 \A h \in roots[k].related : Visible(h) => acked[h] # None
           G == {g \in found : Settled(g) /\ (Visible(g) => acked[g] # None)}
           ids == RuleIDs
           J == G \X ids
<1>1. acked \in Acks /\ graph \in Graphs /\ Reported \subseteq found /\ Reported \in SUBSET Findings
  BY DEF TypeOK, Acks, Reported
<1>2. /\ Len(roots) \in Nat /\ DOMAIN roots = 1..Len(roots)
      /\ \A k \in DOMAIN roots : /\ roots[k].cause \in Reported
                                 /\ roots[k].related = Related(roots[k].cause, Reported)
                                 /\ roots[k].related \subseteq Reported
  BY RootsFacts, RelatedAreFound DEF RootsInv
<1>3. ASSUME NEW g \in found, acked[g] # None
      PROVE  <<g, acked[g]>> \in J
  <2>1. Settled(g)
    BY <1>3 DEF Followed
  <2> QED
    BY <1>1, <1>3, <2>1 DEF Acks
<1>4. ASSUME NEW k \in DOMAIN roots, roots[k].cause \in G, NEW g \in roots[k].related \cap found
      PROVE  g \in G
  <2>1. \A h \in roots[k].related : Visible(h) => acked[h] # None
    BY <1>4
  <2>2. ASSUME NEW j \in DOMAIN roots, NEW h \in roots[j].related, roots[j].cause = g, Visible(h)
        PROVE  acked[h] # None
    <3>1. h \in roots[k].related
      <4> DEFINE c == roots[k].cause
      <4>1. /\ c \in Reported /\ g \in Related(c, Reported) /\ h \in Related(g, Reported)
            /\ roots[k].related = Related(c, Reported)
        BY <1>2, <1>4, <2>2
      <4> HIDE DEF c
      <4>2. \A d \in Related(c, Reported) : \A e \in Related(d, Reported) :
                Visible(e) => e \in Related(c, Reported)
        BY <1>1, <4>1, RelatedFacts
      <4>3. h \in Related(c, Reported)
        BY <2>2, <4>1, <4>2
      <4> QED
        BY <4>1, <4>3
    <3> QED
      BY <2>1, <2>2, <3>1
  <2> QED
    BY <2>1, <2>2
<1>5. f \notin G /\ f \in found
  BY <1>1
<1> HIDE DEF G
<1>6. \A k \in DOMAIN roots : roots[k].cause \in found =>
          \A g \in roots[k].related \cap found, id \in ids :
             <<roots[k].cause, id>> \in J => <<g, id>> \in J
  BY <1>4
<1> HIDE DEF J
<1>7. \A g \in found : Propagated[g] # None => <<g, Propagated[g]>> \in J
  BY <1>1, <1>2, <1>3, <1>6, CopiesKeep
<1> QED
  BY <1>5, <1>7 DEF J

\* app.applyBaselineToLateFindings: the second call of Apply takes nothing back
\* and acknowledges none of the issues and warnings that the first one left.
THEOREM SecondPassKeepsTheFirstHolds == Spec => SecondPassKeepsTheFirst
<1>1. ASSUME AcknowledgeInv, [Next]_vars, pass = 2, Acyclic, Steady, NEW f \in found
      PROVE  /\ acked[f] # None => acked'[f] # None
             /\ f \in Findings /\ Visible(f) /\ acked[f] = None => acked'[f] = None
  <2>0. TypeOK /\ RootsInv /\ NothingLeft /\ FollowedOnce
    BY <1>1 DEF AcknowledgeInv
  <2>1. acked[f] # None => acked'[f] # None
    BY <1>1, <2>0, AckedStays
  <2>2. ASSUME f \in Findings, Visible(f), acked[f] = None
        PROVE  acked'[f] = None
    <3>0. f \in Reported
      BY <2>2 DEF Reported
    <3>1. CASE ApplyRule
      <4>1. next \in DOMAIN baseline
        BY <2>0, <3>1, RuleFacts DEF ApplyRule, RootsInv, TypeOK
      <4>2. ~(f \in baseline[next].covers /\ MatchWorkload(baseline[next], f))
        BY <1>1, <2>0, <2>2, <3>0, <4>1 DEF NothingLeft, Examined
      <4> QED
        BY <2>2, <3>1, <4>2 DEF ApplyRule, AddExpired, Approved
    <3>2. CASE Propagate
      <4>1. Followed
        BY <1>1, <2>0 DEF FollowedOnce
      <4>2. Propagated[f] = None
        BY <1>1, <2>0, <2>2, <3>0, <4>1, SecondPropagateAddsNothing
      <4> QED
        BY <3>2, <4>2 DEF Propagate
    <3>3. CASE Correlate \/ CorrelateAgain \/ Midnight \/ Finished \/ UNCHANGED vars
      BY <2>2, <3>3 DEF Correlate, CorrelateAgain, Midnight, Finished, vars
    <3>4. CASE Prepare
      BY <1>1, <2>0, <3>4 DEF Prepare, RootsInv
    <3> QED
      BY <1>1, <3>1, <3>2, <3>3, <3>4 DEF Next
  <2> QED
    BY <2>1, <2>2
<1>2. AcknowledgeInv /\ [Next]_vars =>
        [pass = 2 /\ Acyclic /\ Steady =>
           \A f \in found :
              /\ acked[f] # None => acked'[f] # None
              /\ f \in Findings /\ Visible(f) /\ acked[f] = None => acked'[f] = None]_vars
  BY <1>1
<1> QED
  BY <1>2, AcknowledgeInvHolds, PTL DEF Spec, SecondPassKeepsTheFirst
=============================================================================
