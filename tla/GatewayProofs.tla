--------------------------- MODULE GatewayProofs ---------------------------
(***************************************************************************)
(* What the gateway promises of the bodies it holds, of its stop and of    *)
(* the vendor sign-ins it runs, for any number of each.                    *)
(***************************************************************************)
EXTENDS BodyBudget, Shutdown, VendorLogin, FiniteSetTheorems,
        SequenceTheorems, NaturalsInduction, WellFoundedInduction, TLAPS

(***************************************************************************)
(* The body budget.                                                        *)
(***************************************************************************)

Charges ==
    [pc : PC, owner : Owners \cup {NoOwner}, share : Nat,
     n : Nat, size : Nat, exact : BOOLEAN, encoded : BOOLEAN,
     ask : Nat, back : Nat, then : {"idle", "read", "decode", "serve"}]

\* Where a request stands, and what its charge is then: only a request
\* giving back has something under way, one whose charge is being taken goes
\* on to read or to decode, and one whose handler returned keeps nothing.
Stands(q) ==
    /\ q.pc = "idle" => q.owner = NoOwner /\ q.n = 0
    /\ q.pc # "idle" => q.owner \in Owners
    /\ q.pc # "unshare" => q.back = 0
    /\ q.pc \in {"grow", "acquire", "wait", "unask", "read"}
         => q.then \in {"read", "decode"}
    /\ q.pc = "unshare" => q.then \in {"idle", "serve"}
    /\ q.pc = "unshare" /\ q.then = "idle" => q.n = 0

RequestsStand == \A r \in Requests : Stands(req[r])

\* Nobody waits twice.
Distinct(line) ==
    \A i, j \in DOMAIN line : line[i] = line[j] => i = j

\* The line holds requests that wait.
LineWaits ==
    /\ Distinct(sem.waiters)
    /\ \A i \in DOMAIN sem.waiters : req[sem.waiters[i]].pc = "wait"

\* What each request has of the semaphore.
AllTaken == [r \in Requests |-> Taken(r)]

\* What a request has of its owner's share.
SharedOf(q) ==
    q.n + q.back + IF q.pc \in {"acquire", "wait", "unask"} THEN q.ask ELSE 0

\* What a request has of owner o's share, in all and as one of the requests
\* allowed at most level.
Part(q, o) == IF q.owner = o THEN SharedOf(q) ELSE 0

PartAt(q, o, level) ==
    IF q.owner = o /\ q.share <= level THEN SharedOf(q) ELSE 0

AllShared(o) == [r \in Requests |-> Part(req[r], o)]

SharedAt(o, level) == [r \in Requests |-> PartAt(req[r], o, level)]

TakenExact == sem.cur = SumFunctionOnSet(AllTaken, Requests)

SharedExact ==
    \A o \in Owners : HeldBy(o) = SumFunctionOnSet(AllShared(o), Requests)

\* At every level, not only at those some request is allowed.
LevelsKept ==
    \A o \in Owners : \A level \in Nat :
        SumFunctionOnSet(SharedAt(o, level), Requests) <= level

HeldTyped == DOMAIN held \subseteq Owners /\ held \in [DOMAIN held -> Nat]

Shares == HeldTyped /\ SharedExact /\ LevelsKept

SemTyped == sem \in [cur : 0 .. Budget, waiters : Seq(Requests)]

Semaphore == SemTyped /\ LineWaits /\ TakenExact

\* The inductive invariant.
BudgetInv ==
    /\ req \in [Requests -> Charges]
    /\ RequestsStand
    /\ Semaphore
    /\ Shares

(***************************************************************************)
(* Sums over finite sets.                                                  *)
(***************************************************************************)

LEMMA FirstNumber ==
    ASSUME NEW T, T \subseteq Nat, T # {}
    PROVE  \E n \in T : \A m \in T : n <= m
<1> DEFINE below == {p \in Nat \X Nat : p[1] < p[2]}
<1>1. IsWellFoundedOn(below, Nat)
  BY NatLessThanWellFounded, Zenon DEF OpToRel
<1>2. PICK n \in T : \A m \in T : ~ (<<m, n>> \in below)
  <2> HIDE DEF below
  <2> QED BY <1>1, WFMin
<1>3. ASSUME NEW m \in T PROVE n <= m
  <2>1. n \in Nat /\ m \in Nat
    BY <1>2
  <2>2. ~ (m < n)
    BY <1>2, <2>1
  <2> QED BY <2>1, <2>2
<1> QED BY <1>2, <1>3

\* A bounded set of numbers has a largest one.
LEMMA LastNumber ==
    ASSUME NEW T, NEW b \in Nat, T \subseteq 0 .. b, T # {}
    PROVE  Max(T) \in T /\ \A m \in T : m <= Max(T)
<1> DEFINE gaps == {n \in Nat : n <= b /\ b - n \in T}
<1>1. PICK m \in T : TRUE
  OBVIOUS
<1>2. m \in 0 .. b
  BY <1>1
<1>3. b - m \in gaps
  BY <1>1, <1>2
<1>4. PICK n \in gaps : \A k \in gaps : n <= k
  <2>1. gaps \subseteq Nat /\ gaps # {}
    BY <1>3
  <2> HIDE DEF gaps
  <2> QED BY <2>1, FirstNumber
<1>5. n \in Nat /\ n <= b /\ b - n \in T
  BY <1>4
<1>6. ASSUME NEW k \in T PROVE b - n >= k
  <2>1. k \in 0 .. b
    BY <1>6
  <2>2. b - k \in gaps
    BY <2>1, <1>6
  <2>3. n <= b - k
    BY <2>2, <1>4
  <2> QED BY <2>1, <2>3, <1>5
<1>7. \E x \in T : \A y \in T : x >= y
  BY <1>5, <1>6
<1>8. Max(T) \in T /\ \A y \in T : Max(T) >= y
  BY <1>7, Zenon DEF Max
<1>9. \A y \in T : Max(T) >= y => y <= Max(T)
  BY <1>8
<1> QED BY <1>8, <1>9

\* Induction over the subsets of a finite set: a family that has a subset
\* whenever it has the smaller ones has them all.
LEMMA SubsetInduction ==
    ASSUME NEW S, IsFiniteSet(S), NEW G,
           \A T \in SUBSET S : (\A U \in SUBSET T : U # T => U \in G) => T \in G
    PROVE  \A T \in SUBSET S : T \in G
<1> SUFFICES ASSUME NEW A \in SUBSET S, A \notin G PROVE FALSE
  OBVIOUS
<1> DEFINE sizes == {n \in Nat : \E T \in SUBSET S :
                                    T \notin G /\ Cardinality(T) = n}
<1>1. \A T \in SUBSET S : IsFiniteSet(T) /\ Cardinality(T) \in Nat
  BY FS_Subset, FS_CardinalityType
<1>2. Cardinality(A) \in sizes
  BY <1>1
<1>3. PICK n \in sizes : \A m \in sizes : n <= m
  <2>1. sizes \subseteq Nat /\ sizes # {}
    BY <1>2
  <2> HIDE DEF sizes
  <2> QED BY <2>1, FirstNumber
<1>4. PICK T \in SUBSET S : T \notin G /\ Cardinality(T) = n
  BY <1>3
<1>5. ASSUME NEW U \in SUBSET T, U # T PROVE U \in G
  <2>1. Cardinality(U) \in Nat /\ Cardinality(U) < n
    <3>1. Cardinality(U) <= Cardinality(T)
          /\ (Cardinality(U) = Cardinality(T) => U = T)
      BY <1>1, <1>4, <1>5, FS_Subset
    <3>2. Cardinality(U) \in Nat /\ n \in Nat
      BY <1>1, <1>4, <1>5
    <3> QED BY <3>1, <3>2, <1>4, <1>5
  <2>2. Cardinality(U) \notin sizes
    <3>1. n \in Nat
      BY <1>3
    <3> HIDE DEF sizes
    <3> QED BY <2>1, <3>1, <1>3
  <2> QED BY <2>1, <2>2
<1> QED BY <1>4, <1>5

Pick(T) == CHOOSE x \in T : TRUE

\* The function SumFunctionOnSet recurses with, on the subsets of S.
IsSum(sum, f, S) ==
    sum = [T \in SUBSET S |->
              IF T = {} THEN 0 ELSE f[Pick(T)] + sum[T \ {Pick(T)}]]

LEMMA SumIs ==
    ASSUME NEW f, NEW S
    PROVE  SumFunctionOnSet(f, S) = (CHOOSE sum : IsSum(sum, f, S))[S]
  BY Zenon DEF SumFunctionOnSet, FoldFunctionOnSet, MapThenFoldSet, IsSum, Pick

LEMMA PickIn == ASSUME NEW T, T # {} PROVE Pick(T) \in T
  BY DEF Pick

\* Two of them agree where both are defined.
LEMMA SumsAgree ==
    ASSUME NEW f, NEW A, NEW B, NEW sumA, NEW sumB,
           IsSum(sumA, f, A), IsSum(sumB, f, B),
           NEW S, IsFiniteSet(S), S \subseteq A, S \subseteq B
    PROVE  sumA[S] = sumB[S]
<1> DEFINE G == {T \in SUBSET S : sumA[T] = sumB[T]}
<1>1. ASSUME NEW T \in SUBSET S, \A U \in SUBSET T : U # T => U \in G
      PROVE  T \in G
  <2>1. sumA[T] = IF T = {} THEN 0 ELSE f[Pick(T)] + sumA[T \ {Pick(T)}]
    <3>1. T \in SUBSET A
      OBVIOUS
    <3> QED BY <3>1 DEF IsSum
  <2>2. sumB[T] = IF T = {} THEN 0 ELSE f[Pick(T)] + sumB[T \ {Pick(T)}]
    <3>1. T \in SUBSET B
      OBVIOUS
    <3> QED BY <3>1 DEF IsSum
  <2>3. CASE T = {}
    BY <2>1, <2>2, <2>3
  <2>4. CASE T # {}
    <3>1. T \ {Pick(T)} \in SUBSET T /\ T \ {Pick(T)} # T
      BY <2>4, PickIn
    <3>2. sumA[T \ {Pick(T)}] = sumB[T \ {Pick(T)}]
      BY <3>1, <1>1
    <3> QED BY <2>1, <2>2, <2>4, <3>2
  <2> QED BY <2>3, <2>4
<1>2. \A T \in SUBSET S : T \in G
  <2> HIDE DEF G
  <2> QED BY <1>1, SubsetInduction
<1> QED BY <1>2

\* The sum of a finite set is that of its parts.
LEMMA SumUnfolds ==
    ASSUME NEW f, NEW S, IsFiniteSet(S)
    PROVE  SumFunctionOnSet(f, S) =
               IF S = {} THEN 0
               ELSE f[Pick(S)] + SumFunctionOnSet(f, S \ {Pick(S)})
<1> DEFINE sum(T) == CHOOSE s : IsSum(s, f, T)
           G == {T \in SUBSET S : IsSum(sum(T), f, T)}
<1>0. \A T : SumFunctionOnSet(f, T) = sum(T)[T]
  BY SumIs
<1>a. ASSUME NEW T \in SUBSET S, NEW U \in SUBSET T, T \in G, U \in G
      PROVE  sum(T)[U] = SumFunctionOnSet(f, U)
  <2>1. IsFiniteSet(U) /\ U \subseteq T /\ U \subseteq U
    BY FS_Subset
  <2>2. IsSum(sum(T), f, T) /\ IsSum(sum(U), f, U)
    BY <1>a
  <2> HIDE DEF sum
  <2>3. sum(T)[U] = sum(U)[U]
    BY <2>1, <2>2, SumsAgree
  <2> QED BY <2>3, <1>0
<1>b. ASSUME NEW T \in SUBSET S, \A U \in SUBSET T : U \in G
      PROVE  SumFunctionOnSet(f, T) =
               IF T = {} THEN 0
               ELSE f[Pick(T)] + SumFunctionOnSet(f, T \ {Pick(T)})
  <2>1. IsSum(sum(T), f, T)
    BY <1>b
  <2>2. sum(T)[T \ {Pick(T)}] = SumFunctionOnSet(f, T \ {Pick(T)})
    <3>1. T \ {Pick(T)} \in SUBSET T /\ T \in SUBSET T
      OBVIOUS
    <3>2. T \ {Pick(T)} \in G /\ T \in G
      BY <3>1, <1>b
    <3> HIDE DEF sum, G
    <3> QED BY <3>1, <3>2, <1>a
  <2>3. SumFunctionOnSet(f, T) = sum(T)[T]
    BY <1>0
  <2> HIDE DEF sum, G
  <2>4. sum(T)[T] = IF T = {} THEN 0 ELSE f[Pick(T)] + sum(T)[T \ {Pick(T)}]
    <3> T \in SUBSET T
      OBVIOUS
    <3> QED BY <2>1 DEF IsSum
  <2> QED BY <2>2, <2>3, <2>4, Zenon
<1>1. ASSUME NEW T \in SUBSET S, \A U \in SUBSET T : U # T => U \in G
      PROVE  T \in G
  <2> DEFINE g == [U \in SUBSET T |->
                     IF U = {} THEN 0
                     ELSE f[Pick(U)] + SumFunctionOnSet(f, U \ {Pick(U)})]
  <2>1. ASSUME NEW U \in SUBSET T, U # T
        PROVE  g[U] = SumFunctionOnSet(f, U)
    <3>1. U \in SUBSET S
      OBVIOUS
    <3>2. \A V \in SUBSET U : V \in G
      <4>1. \A V \in SUBSET U : V \in SUBSET T /\ V # T
        BY <2>1
      <4> HIDE DEF G
      <4> QED BY <4>1, <1>1
    <3>3. g[U] = IF U = {} THEN 0
                 ELSE f[Pick(U)] + SumFunctionOnSet(f, U \ {Pick(U)})
      BY Zenon
    <3> HIDE DEF g, G, sum
    <3> QED BY <3>1, <3>2, <3>3, <1>b
  <2>2. \A U \in SUBSET T :
           U # {} => SumFunctionOnSet(f, U \ {Pick(U)}) = g[U \ {Pick(U)}]
    <3> SUFFICES ASSUME NEW U \in SUBSET T, U # {}
                 PROVE  SumFunctionOnSet(f, U \ {Pick(U)}) = g[U \ {Pick(U)}]
      OBVIOUS
    <3>1. U \ {Pick(U)} \in SUBSET T /\ U \ {Pick(U)} # T
      BY PickIn
    <3> HIDE DEF g
    <3> QED BY <3>1, <2>1
  <2>3. IsSum(g, f, T)
    <3> DEFINE h == [U \in SUBSET T |->
                       IF U = {} THEN 0 ELSE f[Pick(U)] + g[U \ {Pick(U)}]]
    <3>1. ASSUME NEW U \in SUBSET T
          PROVE  (IF U = {} THEN 0
                  ELSE f[Pick(U)] + SumFunctionOnSet(f, U \ {Pick(U)}))
                 = IF U = {} THEN 0 ELSE f[Pick(U)] + g[U \ {Pick(U)}]
      <4> HIDE DEF g
      <4>1. CASE U = {}
        BY <4>1
      <4>2. CASE U # {}
        BY <4>2, <2>2
      <4> QED BY <4>1, <4>2
    <3>2. g = h
      <4> DEFINE lhs(U) == IF U = {} THEN 0
                  ELSE f[Pick(U)] + SumFunctionOnSet(f, U \ {Pick(U)})
                 rhs(k, U) == IF U = {} THEN 0 ELSE f[Pick(U)] + k[U \ {Pick(U)}]
      <4>1. g = [U \in SUBSET T |-> lhs(U)]
        BY Zenon
      <4>2. \A U \in SUBSET T : lhs(U) = rhs(g, U)
        BY <3>1
      <4>3. h = [U \in SUBSET T |-> rhs(g, U)]
        BY Zenon
      <4> HIDE DEF lhs, rhs, g, h
      <4> QED BY <4>1, <4>2, <4>3
    <3> HIDE DEF g
    <3> QED BY <3>2 DEF IsSum
  <2> HIDE DEF g
  <2>4. IsSum(sum(T), f, T)
    BY <2>3, Zenon
  <2> QED BY <2>4
<1>2. \A T \in SUBSET S : T \in G
  <2> HIDE DEF G
  <2> QED BY <1>1, SubsetInduction
<1>3. S \in SUBSET S /\ \A U \in SUBSET S : U \in G
  BY <1>2
<1> HIDE DEF G, sum
<1> QED BY <1>3, <1>b

Nats(f, S) == \A x \in S : f[x] \in Nat

\* The sum is a number, and any element may be counted first.
LEMMA SumFacts ==
    ASSUME NEW f, NEW S, IsFiniteSet(S), Nats(f, S)
    PROVE  /\ SumFunctionOnSet(f, S) \in Nat
           /\ \A x \in S : SumFunctionOnSet(f, S)
                             = f[x] + SumFunctionOnSet(f, S \ {x})
<1> DEFINE sum(T) == SumFunctionOnSet(f, T)
           good(T) == sum(T) \in Nat /\ \A x \in T : sum(T) = f[x] + sum(T \ {x})
           G == {T \in SUBSET S : good(T)}
<1>1. ASSUME NEW T \in SUBSET S, \A U \in SUBSET T : U # T => U \in G
      PROVE  T \in G
  <2>1. IsFiniteSet(T)
    BY FS_Subset
  <2>2. sum(T) = IF T = {} THEN 0 ELSE f[Pick(T)] + sum(T \ {Pick(T)})
    BY <2>1, SumUnfolds
  <2>3. CASE T = {}
    BY <2>2, <2>3
  <2>4. CASE T # {}
    <3>1. Pick(T) \in T
      BY <2>4, PickIn
    <3>2. PICK p \in T : p = Pick(T)
      BY <3>1
    <3>3. sum(T) = f[p] + sum(T \ {p})
      <4> HIDE DEF sum
      <4> QED BY <2>2, <2>4, <3>2
    <3>4. \A x \in T : good(T \ {x}) /\ f[x] \in Nat
      <4>1. \A x \in T : T \ {x} \in SUBSET T /\ T \ {x} # T
        OBVIOUS
      <4>2. \A x \in T : T \ {x} \in G
        <5> HIDE DEF G
        <5> QED BY <4>1, <1>1
      <4>3. \A x \in T : good(T \ {x})
        <5> HIDE DEF good
        <5> QED BY <4>2
      <4>4. \A x \in T : f[x] \in Nat
        BY DEF Nats
      <4> HIDE DEF good
      <4> QED BY <4>3, <4>4
    <3>5. sum(T) \in Nat
      <4>1. sum(T \ {p}) \in Nat /\ f[p] \in Nat
        BY <3>4
      <4> HIDE DEF sum
      <4> QED BY <3>3, <4>1
    <3>6. ASSUME NEW x \in T PROVE sum(T) = f[x] + sum(T \ {x})
      <4>1. CASE x = p
        BY <4>1, <3>3
      <4>2. CASE x # p
        <5>1. x \in T \ {p} /\ p \in T \ {x}
          BY <4>2
        <5>2. sum(T \ {p}) = f[x] + sum((T \ {p}) \ {x})
              /\ sum(T \ {x}) = f[p] + sum((T \ {x}) \ {p})
          BY <3>4, <5>1
        <5>3. (T \ {p}) \ {x} = (T \ {x}) \ {p}
          OBVIOUS
        <5>4. (T \ {p}) \ {x} \in SUBSET T /\ (T \ {p}) \ {x} # T
          OBVIOUS
        <5>5. (T \ {p}) \ {x} \in G
          <6> HIDE DEF G
          <6> QED BY <5>4, <1>1
        <5>6. sum((T \ {p}) \ {x}) \in Nat
          BY <5>5
        <5>7. f[x] \in Nat /\ f[p] \in Nat
          BY <3>4
        <5>8. sum((T \ {x}) \ {p}) = sum((T \ {p}) \ {x})
          BY <5>3, Zenon
        <5> DEFINE rest == sum((T \ {p}) \ {x})
                   a == sum(T \ {p})
                   b == sum(T \ {x})
        <5>9. sum(T) = f[p] + a /\ a = f[x] + rest /\ b = f[p] + rest
          BY <3>3, <5>2, <5>8, Zenon
        <5>10. rest \in Nat
          BY <5>6
        <5> HIDE DEF rest, a, b
        <5>11. sum(T) = f[x] + b
          <6> HIDE DEF sum
          <6> QED BY <5>7, <5>9, <5>10
        <5> QED BY <5>11 DEF b
      <4> QED BY <4>1, <4>2
    <3> QED BY <3>5, <3>6
  <2> QED BY <2>3, <2>4
<1>2. \A T \in SUBSET S : T \in G
  <2> HIDE DEF G
  <2> QED BY <1>1, SubsetInduction
<1> QED BY <1>2

LEMMA SumEmpty == ASSUME NEW f PROVE SumFunctionOnSet(f, {}) = 0
  BY SumUnfolds, FS_EmptySet

\* The sum depends on the values on the set only.
LEMMA SumSame ==
    ASSUME NEW f, NEW g, NEW S, IsFiniteSet(S), \A x \in S : f[x] = g[x]
    PROVE  SumFunctionOnSet(f, S) = SumFunctionOnSet(g, S)
<1> DEFINE G == {T \in SUBSET S : SumFunctionOnSet(f, T) = SumFunctionOnSet(g, T)}
<1>1. ASSUME NEW T \in SUBSET S, \A U \in SUBSET T : U # T => U \in G
      PROVE  T \in G
  <2>1. IsFiniteSet(T)
    BY FS_Subset
  <2>2. SumFunctionOnSet(f, T) =
          IF T = {} THEN 0
          ELSE f[Pick(T)] + SumFunctionOnSet(f, T \ {Pick(T)})
    BY <2>1, SumUnfolds
  <2>3. SumFunctionOnSet(g, T) =
          IF T = {} THEN 0
          ELSE g[Pick(T)] + SumFunctionOnSet(g, T \ {Pick(T)})
    BY <2>1, SumUnfolds
  <2>4. CASE T = {}
    BY <2>2, <2>3, <2>4
  <2>5. CASE T # {}
    <3>1. Pick(T) \in T
      BY <2>5, PickIn
    <3>2. T \ {Pick(T)} \in SUBSET T /\ T \ {Pick(T)} # T
      BY <3>1
    <3>3. T \ {Pick(T)} \in G
      <4> HIDE DEF G
      <4> QED BY <3>2, <1>1
    <3>4. f[Pick(T)] = g[Pick(T)]
      BY <3>1
    <3> QED BY <2>2, <2>3, <2>5, <3>3, <3>4
  <2> QED BY <2>4, <2>5
<1>2. \A T \in SUBSET S : T \in G
  <2> HIDE DEF G
  <2> QED BY <1>1, SubsetInduction
<1> QED BY <1>2

\* A change at one point changes the sum by as much.
LEMMA SumChange ==
    ASSUME NEW f, NEW g, NEW S, IsFiniteSet(S), Nats(f, S), Nats(g, S),
           NEW x \in S, \A y \in S \ {x} : f[y] = g[y]
    PROVE  SumFunctionOnSet(g, S) + f[x] = SumFunctionOnSet(f, S) + g[x]
<1>1. SumFunctionOnSet(f, S) = f[x] + SumFunctionOnSet(f, S \ {x})
  BY SumFacts
<1>2. SumFunctionOnSet(g, S) = g[x] + SumFunctionOnSet(g, S \ {x})
  BY SumFacts
<1>3. IsFiniteSet(S \ {x}) /\ Nats(f, S \ {x})
  BY FS_Subset DEF Nats
<1>4. SumFunctionOnSet(f, S \ {x}) = SumFunctionOnSet(g, S \ {x})
  BY <1>3, SumSame
<1>5. SumFunctionOnSet(f, S \ {x}) \in Nat
  BY <1>3, SumFacts
<1>6. f[x] \in Nat /\ g[x] \in Nat
  BY DEF Nats
<1> QED BY <1>1, <1>2, <1>4, <1>5, <1>6

\* An element is at most the sum.
LEMMA SumMember ==
    ASSUME NEW f, NEW S, IsFiniteSet(S), Nats(f, S), NEW x \in S
    PROVE  f[x] <= SumFunctionOnSet(f, S)
<1>1. SumFunctionOnSet(f, S) = f[x] + SumFunctionOnSet(f, S \ {x})
  BY SumFacts
<1>2. IsFiniteSet(S \ {x}) /\ Nats(f, S \ {x})
  BY FS_Subset DEF Nats
<1>3. SumFunctionOnSet(f, S \ {x}) \in Nat
  BY <1>2, SumFacts
<1>4. f[x] \in Nat
  BY DEF Nats
<1> QED BY <1>1, <1>3, <1>4

\* More at every point is more in all.
LEMMA SumGrows ==
    ASSUME NEW f, NEW g, NEW S, IsFiniteSet(S), Nats(f, S), Nats(g, S),
           \A x \in S : f[x] <= g[x]
    PROVE  SumFunctionOnSet(f, S) <= SumFunctionOnSet(g, S)
<1> DEFINE G == {T \in SUBSET S :
                    SumFunctionOnSet(f, T) <= SumFunctionOnSet(g, T)}
<1>1. ASSUME NEW T \in SUBSET S, \A U \in SUBSET T : U # T => U \in G
      PROVE  T \in G
  <2>1. IsFiniteSet(T) /\ Nats(f, T) /\ Nats(g, T)
    BY FS_Subset DEF Nats
  <2>2. CASE T = {}
    <3>1. SumFunctionOnSet(f, {}) = 0 /\ SumFunctionOnSet(g, {}) = 0
      BY SumEmpty
    <3> QED BY <2>2, <3>1
  <2>3. CASE T # {}
    <3>1. PICK x \in T : TRUE
      BY <2>3
    <3>2. SumFunctionOnSet(f, T) = f[x] + SumFunctionOnSet(f, T \ {x})
      BY <2>1, SumFacts
    <3>3. SumFunctionOnSet(g, T) = g[x] + SumFunctionOnSet(g, T \ {x})
      BY <2>1, SumFacts
    <3>4. T \ {x} \in SUBSET T /\ T \ {x} # T
      BY <3>1
    <3>5. T \ {x} \in G
      <4> HIDE DEF G
      <4> QED BY <3>4, <1>1
    <3>6. IsFiniteSet(T \ {x}) /\ Nats(f, T \ {x}) /\ Nats(g, T \ {x})
      BY <2>1, FS_Subset DEF Nats
    <3>7. SumFunctionOnSet(f, T \ {x}) \in Nat
          /\ SumFunctionOnSet(g, T \ {x}) \in Nat
      BY <3>6, SumFacts
    <3>8. f[x] \in Nat /\ g[x] \in Nat /\ f[x] <= g[x]
      BY DEF Nats
    <3> QED BY <3>2, <3>3, <3>5, <3>7, <3>8
  <2> QED BY <2>2, <2>3
<1>2. \A T \in SUBSET S : T \in G
  <2> HIDE DEF G
  <2> QED BY <1>1, SubsetInduction
<1> QED BY <1>2

\* Zeros elsewhere leave the sum of a part of the set.
LEMMA SumPart ==
    ASSUME NEW f, NEW g, NEW S, IsFiniteSet(S), NEW A \in SUBSET S, Nats(f, S),
           \A x \in A : g[x] = f[x], \A x \in S \ A : f[x] = 0
    PROVE  SumFunctionOnSet(g, A) = SumFunctionOnSet(f, S)
<1> DEFINE G == {T \in SUBSET S : SumFunctionOnSet(f, T)
                                    = SumFunctionOnSet(f, T \cap A)}
<1>1. ASSUME NEW T \in SUBSET S, \A U \in SUBSET T : U # T => U \in G
      PROVE  T \in G
  <2>1. IsFiniteSet(T) /\ Nats(f, T)
    BY FS_Subset DEF Nats
  <2>2. CASE T \subseteq A
    <3>1. T \cap A = T
      BY <2>2
    <3> QED BY <3>1
  <2>3. CASE ~ (T \subseteq A)
    <3>1. PICK x \in T : x \notin A
      BY <2>3
    <3>2. SumFunctionOnSet(f, T) = f[x] + SumFunctionOnSet(f, T \ {x})
      BY <2>1, SumFacts
    <3>4. T \ {x} \in SUBSET T /\ T \ {x} # T
      BY <3>1
    <3>5. T \ {x} \in G
      <4> HIDE DEF G
      <4> QED BY <3>4, <1>1
    <3>6. (T \ {x}) \cap A = T \cap A
      BY <3>1
    <3>7. IsFiniteSet(T \ {x}) /\ Nats(f, T \ {x})
      BY <2>1, FS_Subset DEF Nats
    <3>8. SumFunctionOnSet(f, T \ {x}) \in Nat
      BY <3>7, SumFacts
    <3>9. f[x] = 0
      BY <3>1
    <3> QED BY <3>2, <3>5, <3>6, <3>8, <3>9
  <2> QED BY <2>2, <2>3
<1>2. \A T \in SUBSET S : T \in G
  <2> HIDE DEF G
  <2> QED BY <1>1, SubsetInduction
<1>3. SumFunctionOnSet(f, S) = SumFunctionOnSet(f, S \cap A)
  BY <1>2
<1>4. S \cap A = A
  OBVIOUS
<1>5. IsFiniteSet(A)
  BY FS_Subset
<1>6. SumFunctionOnSet(g, A) = SumFunctionOnSet(f, A)
  BY <1>5, SumSame
<1> QED BY <1>3, <1>4, <1>6

(***************************************************************************)
(* The semaphore's line.                                                   *)
(***************************************************************************)

\* What t, standing as q, has of the semaphore when the line is as given.
TakenOf(q, t, line) ==
    q.n + IF q.pc = "wait" /\ t \notin ToSet(line) THEN q.ask ELSE 0

TakenBy(rq, line) == [t \in Requests |-> TakenOf(rq[t], t, line)]

LEMMA AllTakenIs == AllTaken = TakenBy(req, sem.waiters)
  BY Zenon DEF AllTaken, TakenBy, Taken, TakenOf, Waiting

LEMMA ChargeTypes ==
    ASSUME NEW q \in Charges
    PROVE  /\ SharedOf(q) \in Nat
           /\ \A t, line : TakenOf(q, t, line) \in Nat
  BY DEF Charges, SharedOf, TakenOf

LEMMA ToSetIs ==
    ASSUME NEW line, NEW t
    PROVE  t \in ToSet(line) <=> \E i \in DOMAIN line : line[i] = t
  BY DEF ToSet

\* Request t is one of the first k in line.
First(line, k, t) == \E i \in 1 .. k : line[i] = t

\* What the requests have when the first k in line were granted.
Granted(b, line, k) ==
    [t \in Requests |->
        b[t] + IF First(line, k, t) THEN req[t].ask ELSE 0]

LEMMA AskedGrows ==
    ASSUME NEW line \in Seq(Requests), req \in [Requests -> Charges],
           NEW k \in Nat, k + 1 <= Len(line)
    PROVE  /\ Asked(line, k) \in Nat
           /\ Asked(line, k + 1) = Asked(line, k) + req[line[k + 1]].ask
<1> DEFINE asks == [i \in DOMAIN line |-> req[line[i]].ask]
<1>1. DOMAIN line = 1 .. Len(line)
      /\ \A i \in DOMAIN line : line[i] \in Requests
  OBVIOUS
<1>2. \A i \in DOMAIN line : asks[i] = req[line[i]].ask /\ asks[i] \in Nat
  BY <1>1 DEF Charges
<1>3. 1 .. k \subseteq DOMAIN line /\ 1 .. (k + 1) \subseteq DOMAIN line
      /\ k + 1 \in 1 .. (k + 1) /\ (1 .. (k + 1)) \ {k + 1} = 1 .. k
  BY <1>1
<1>4. IsFiniteSet(1 .. k) /\ IsFiniteSet(1 .. (k + 1))
  BY FS_Interval
<1>5. Asked(line, k) = SumFunctionOnSet(asks, 1 .. k)
      /\ Asked(line, k + 1) = SumFunctionOnSet(asks, 1 .. (k + 1))
  BY Zenon DEF Asked
<1> HIDE DEF asks
<1>6. Nats(asks, 1 .. k) /\ Nats(asks, 1 .. (k + 1))
  BY <1>2, <1>3 DEF Nats
<1>7. SumFunctionOnSet(asks, 1 .. k) \in Nat
  BY <1>4, <1>6, SumFacts
<1>8. SumFunctionOnSet(asks, 1 .. (k + 1))
        = asks[k + 1] + SumFunctionOnSet(asks, (1 .. (k + 1)) \ {k + 1})
  BY <1>3, <1>4, <1>6, SumFacts
<1>9. asks[k + 1] = req[line[k + 1]].ask /\ asks[k + 1] \in Nat
  BY <1>2, <1>3
<1>10. SumFunctionOnSet(asks, (1 .. (k + 1)) \ {k + 1})
         = SumFunctionOnSet(asks, 1 .. k)
  BY <1>3, Zenon
<1> QED BY <1>5, <1>7, <1>8, <1>9, <1>10

LEMMA GrantedGrows ==
    ASSUME NEW line \in Seq(Requests), req \in [Requests -> Charges],
           Distinct(line), NEW b \in [Requests -> Nat],
           NEW k \in Nat, k + 1 <= Len(line)
    PROVE  SumFunctionOnSet(Granted(b, line, k + 1), Requests)
             = SumFunctionOnSet(Granted(b, line, k), Requests)
                 + req[line[k + 1]].ask
<1> DEFINE f == Granted(b, line, k)
           g == Granted(b, line, k + 1)
           x == line[k + 1]
<1>1. x \in Requests
  OBVIOUS
<1>2. \A t \in Requests : req[t].ask \in Nat
  BY DEF Charges
<1>3. \A t \in Requests :
         /\ f[t] = b[t] + IF First(line, k, t) THEN req[t].ask ELSE 0
         /\ g[t] = b[t] + IF First(line, k + 1, t) THEN req[t].ask ELSE 0
  BY DEF Granted
<1>4. ~ First(line, k, x)
  <2> SUFFICES ASSUME NEW i \in 1 .. k, line[i] = x PROVE FALSE
    BY DEF First
  <2>1. i \in DOMAIN line /\ k + 1 \in DOMAIN line /\ i # k + 1
    OBVIOUS
  <2> QED BY <2>1 DEF Distinct
<1>5. First(line, k + 1, x)
  BY DEF First
<1>6. \A t \in Requests \ {x} :
        First(line, k + 1, t) <=> First(line, k, t)
  <2> SUFFICES ASSUME NEW t \in Requests \ {x}
               PROVE  First(line, k + 1, t) <=> First(line, k, t)
    OBVIOUS
  <2>1. \A i \in 1 .. k : i \in 1 .. (k + 1)
    OBVIOUS
  <2>2. \A i \in 1 .. (k + 1) : i = k + 1 \/ i \in 1 .. k
    OBVIOUS
  <2>3. \A i \in 1 .. (k + 1) : line[i] = t => i # k + 1
    OBVIOUS
  <2> QED BY <2>1, <2>2, <2>3 DEF First
<1> HIDE DEF f, g, x
<1>7. f[x] = b[x] /\ g[x] = b[x] + req[x].ask /\ b[x] \in Nat
      /\ req[x].ask \in Nat
  BY <1>1, <1>2, <1>3, <1>4, <1>5
<1>8. \A t \in Requests \ {x} : f[t] = g[t]
  BY <1>3, <1>6
<1>9. Nats(f, Requests) /\ Nats(g, Requests)
  <2>1. ASSUME NEW t \in Requests PROVE f[t] \in Nat /\ g[t] \in Nat
    <3>1. b[t] \in Nat /\ req[t].ask \in Nat
      BY <1>2
    <3> DEFINE now == IF First(line, k, t) THEN req[t].ask ELSE 0
               next == IF First(line, k + 1, t) THEN req[t].ask ELSE 0
    <3>2. now \in Nat /\ next \in Nat
      BY <3>1
    <3>3. f[t] = b[t] + now /\ g[t] = b[t] + next
      BY <1>3
    <3> HIDE DEF now, next
    <3> QED BY <3>1, <3>2, <3>3
  <2> QED BY <2>1 DEF Nats
<1>10. IsFiniteSet(Requests)
  BY BudgetAssumption
<1>11. SumFunctionOnSet(g, Requests) + f[x] = SumFunctionOnSet(f, Requests) + g[x]
  BY <1>1, <1>8, <1>9, <1>10, SumChange
<1>12. SumFunctionOnSet(g, Requests) \in Nat /\ SumFunctionOnSet(f, Requests) \in Nat
  BY <1>9, <1>10, SumFacts
<1>13. SumFunctionOnSet(g, Requests) = SumFunctionOnSet(f, Requests) + req[x].ask
  <2> DEFINE sf == SumFunctionOnSet(f, Requests)
             sg == SumFunctionOnSet(g, Requests)
             a == req[x].ask
             c == b[x]
  <2>1. sg + c = sf + (c + a) /\ c \in Nat /\ a \in Nat /\ sf \in Nat /\ sg \in Nat
    BY <1>7, <1>11, <1>12, Zenon
  <2> HIDE DEF sf, sg, a, c
  <2>2. sg = sf + a
    BY <2>1
  <2> QED BY <2>2 DEF sf, sg, a
<1> QED BY <1>13 DEF f, g, x

\* Whatever prefix of the line is granted, what is taken grows by what its
\* requests are given.
LEMMA PrefixPays ==
    ASSUME NEW line \in Seq(Requests), req \in [Requests -> Charges],
           Distinct(line), NEW b \in [Requests -> Nat], NEW c \in Nat,
           c = SumFunctionOnSet(b, Requests)
    PROVE  \A k \in 0 .. Len(line) :
              /\ Asked(line, k) \in Nat
              /\ c + Asked(line, k) = SumFunctionOnSet(Granted(b, line, k), Requests)
<1> DEFINE good(k) ==
              /\ Asked(line, k) \in Nat
              /\ c + Asked(line, k) = SumFunctionOnSet(Granted(b, line, k), Requests)
           bad == {k \in 0 .. Len(line) : ~ good(k)}
<1>1. good(0)
  <2>1. 1 .. 0 = {}
    OBVIOUS
  <2>2. Asked(line, 0) = 0
    BY <2>1, SumEmpty DEF Asked
  <2>3. \A t \in Requests : Granted(b, line, 0)[t] = b[t]
    <3> SUFFICES ASSUME NEW t \in Requests PROVE Granted(b, line, 0)[t] = b[t]
      OBVIOUS
    <3>1. Granted(b, line, 0)[t]
            = b[t] + IF First(line, 0, t) THEN req[t].ask ELSE 0
      BY DEF Granted
    <3>2. ~ First(line, 0, t)
      BY <2>1 DEF First
    <3>3. b[t] \in Nat
      OBVIOUS
    <3> QED BY <3>1, <3>2, <3>3
  <2>4. SumFunctionOnSet(Granted(b, line, 0), Requests)
          = SumFunctionOnSet(b, Requests)
    <3>1. IsFiniteSet(Requests)
      BY BudgetAssumption
    <3> QED BY <2>3, <3>1, SumSame
  <2> QED BY <2>2, <2>4
<1>2. ASSUME NEW k \in Nat, k + 1 <= Len(line), good(k) PROVE good(k + 1)
  <2>1. Asked(line, k + 1) = Asked(line, k) + req[line[k + 1]].ask
    BY <1>2, AskedGrows
  <2>2. SumFunctionOnSet(Granted(b, line, k + 1), Requests)
          = SumFunctionOnSet(Granted(b, line, k), Requests) + req[line[k + 1]].ask
    BY <1>2, GrantedGrows
  <2>3. req[line[k + 1]].ask \in Nat
    <3>1. line[k + 1] \in Requests
      BY <1>2
    <3> QED BY <3>1 DEF Charges
  <2>4. Asked(line, k) \in Nat
        /\ c + Asked(line, k) = SumFunctionOnSet(Granted(b, line, k), Requests)
    BY <1>2
  <2> DEFINE asked == Asked(line, k)
             asked1 == Asked(line, k + 1)
             sum == SumFunctionOnSet(Granted(b, line, k), Requests)
             sum1 == SumFunctionOnSet(Granted(b, line, k + 1), Requests)
             ask == req[line[k + 1]].ask
  <2>5. /\ asked1 = asked + ask /\ sum1 = sum + ask /\ ask \in Nat
        /\ asked \in Nat /\ c + asked = sum
    BY <2>1, <2>2, <2>3, <2>4, Zenon
  <2>6. asked1 \in Nat /\ c + asked1 = sum1
    <3> HIDE DEF asked, asked1, sum, sum1, ask
    <3> QED BY <2>5
  <2> QED BY <2>6, Zenon
<1>3. bad = {}
  <2> HIDE DEF good
  <2> SUFFICES ASSUME bad # {} PROVE FALSE
    OBVIOUS
  <2>1. bad \subseteq Nat
    OBVIOUS
  <2>2. PICK k \in bad : \A m \in bad : k <= m
    <3> HIDE DEF bad
    <3> QED BY <2>1, FirstNumber
  <2>3. k \in 0 .. Len(line) /\ ~ good(k)
    BY <2>2
  <2>4. k # 0
    BY <1>1, <2>3
  <2>5. k - 1 \in Nat /\ k - 1 + 1 = k /\ k <= Len(line) /\ k - 1 \in 0 .. Len(line)
    BY <2>3, <2>4
  <2>6. ~ good(k - 1)
    <3>1. good(k - 1) => good(k - 1 + 1)
      BY <1>2, <2>5
    <3> QED BY <3>1, <2>3, <2>5
  <2>7. k - 1 \in bad
    BY <2>5, <2>6
  <2>8. k <= k - 1
    <3> HIDE DEF bad
    <3> QED BY <2>2, <2>7
  <2> QED BY <2>3, <2>8
<1> QED BY <1>3

\* Granting takes no more than the budget, and for the requests that left
\* the line exactly what they asked for.
LEMMA NotifyPays ==
    ASSUME NEW line \in Seq(Requests), req \in [Requests -> Charges],
           Distinct(line), NEW b \in [Requests -> Nat], NEW c \in Nat,
           c <= Budget, c = SumFunctionOnSet(b, Requests),
           NEW m, m = Notify(c, line)
    PROVE  /\ m \in [cur : 0 .. Budget, waiters : Seq(Requests)]
           /\ Distinct(m.waiters)
           /\ ToSet(m.waiters) \subseteq ToSet(line)
           /\ m.cur = SumFunctionOnSet(
                        [t \in Requests |->
                           b[t] + IF t \in ToSet(line) \ ToSet(m.waiters)
                                  THEN req[t].ask ELSE 0],
                        Requests)
<1> DEFINE fits == {k \in 0 .. Len(line) : c + Asked(line, k) <= Budget}
<1>1. \A k \in 0 .. Len(line) :
         /\ Asked(line, k) \in Nat
         /\ c + Asked(line, k) = SumFunctionOnSet(Granted(b, line, k), Requests)
  BY PrefixPays
<1>2. Len(line) \in Nat /\ Budget \in Nat
  BY BudgetAssumption
<1>3. 0 \in fits
  <2>1. 1 .. 0 = {}
    OBVIOUS
  <2>2. Asked(line, 0) = 0
    BY <2>1, SumEmpty DEF Asked
  <2> QED BY <1>2, <2>2
<1>4. PICK k : k = Max(fits)
  OBVIOUS
<1>5. k \in fits
  <2>1. fits \subseteq 0 .. Len(line) /\ fits # {}
    BY <1>3
  <2> HIDE DEF fits
  <2> QED BY <1>2, <1>4, <2>1, LastNumber
<1>6. k \in 0 .. Len(line) /\ c + Asked(line, k) <= Budget
  BY <1>5
<1>7. m = [cur |-> c + Asked(line, k), waiters |-> SubSeq(line, k + 1, Len(line))]
  BY <1>4, Zenon DEF Notify
<1> HIDE DEF fits
<1>8. m.cur = c + Asked(line, k) /\ m.waiters = SubSeq(line, k + 1, Len(line))
  <2> DEFINE all == c + Asked(line, k)
             left == SubSeq(line, k + 1, Len(line))
  <2>1. m = [cur |-> all, waiters |-> left]
    BY <1>7, Zenon
  <2> HIDE DEF all, left
  <2>2. m.cur = all /\ m.waiters = left
    BY <2>1
  <2> QED BY <2>2 DEF all, left
<1> DEFINE rest == SubSeq(line, k + 1, Len(line))
<1>9. rest \in Seq(Requests) /\ Len(rest) = Len(line) - k
      /\ \A i \in 1 .. (Len(line) - k) : rest[i] = line[i + k]
  BY <1>2, <1>6
<1>10. DOMAIN rest = 1 .. (Len(line) - k) /\ DOMAIN line = 1 .. Len(line)
  BY <1>9
<1> HIDE DEF rest
<1>11. m \in [cur : 0 .. Budget, waiters : Seq(Requests)]
  <2>1. c + Asked(line, k) \in 0 .. Budget
    BY <1>1, <1>2, <1>6
  <2> QED BY <1>7, <1>9, <2>1 DEF rest
<1>12. Distinct(rest)
  <2> SUFFICES ASSUME NEW i \in DOMAIN rest, NEW j \in DOMAIN rest,
                      rest[i] = rest[j]
               PROVE  i = j
    BY DEF Distinct
  <2>1. i + k \in DOMAIN line /\ j + k \in DOMAIN line
    BY <1>6, <1>10
  <2>2. line[i + k] = line[j + k]
    BY <1>9, <1>10
  <2>3. i + k = j + k
    BY <2>1, <2>2 DEF Distinct
  <2> QED BY <1>6, <1>10, <2>3
<1>13. \A t : t \in ToSet(rest) <=> \E i \in DOMAIN line : k < i /\ line[i] = t
  <2> SUFFICES ASSUME NEW t
               PROVE  t \in ToSet(rest)
                        <=> \E i \in DOMAIN line : k < i /\ line[i] = t
    OBVIOUS
  <2>1. ASSUME NEW i \in DOMAIN rest, rest[i] = t
        PROVE  i + k \in DOMAIN line /\ k < i + k /\ line[i + k] = t
    <3>1. i \in 1 .. (Len(line) - k)
      BY <1>10
    <3>2. rest[i] = line[i + k]
      BY <1>9, <3>1
    <3>3. i + k \in 1 .. Len(line) /\ k < i + k
      BY <1>2, <1>6, <3>1
    <3> QED BY <1>10, <2>1, <3>2, <3>3
  <2>2. ASSUME NEW i \in DOMAIN line, k < i, line[i] = t
        PROVE  i - k \in DOMAIN rest /\ rest[i - k] = t
    <3>1. i - k \in 1 .. (Len(line) - k) /\ (i - k) + k = i
      BY <1>6, <1>10, <2>2
    <3> QED BY <3>1, <1>9, <1>10, <2>2
  <2> QED BY <2>1, <2>2, ToSetIs
<1>14. \A t : t \in ToSet(line) <=> \E i \in DOMAIN line : line[i] = t
  BY ToSetIs
<1>15. ToSet(rest) \subseteq ToSet(line)
  BY <1>13, <1>14
<1>16. \A t : t \in ToSet(line) \ ToSet(rest) <=> First(line, k, t)
  <2> SUFFICES ASSUME NEW t
               PROVE  t \in ToSet(line) \ ToSet(rest) <=> First(line, k, t)
    OBVIOUS
  <2>1. ASSUME NEW i \in 1 .. k, line[i] = t
        PROVE  t \in ToSet(line) \ ToSet(rest)
    <3>1. i \in DOMAIN line
      BY <1>6, <1>10
    <3>2. \A j \in DOMAIN line : line[j] = t => j = i
      BY <3>1, <2>1 DEF Distinct
    <3>3. ~ (k < i)
      BY <1>6
    <3> QED BY <3>1, <3>2, <3>3, <2>1, <1>13, <1>14
  <2>2. ASSUME NEW i \in DOMAIN line, line[i] = t, t \notin ToSet(rest)
        PROVE  i \in 1 .. k
    <3>1. ~ (k < i)
      BY <2>2, <1>13
    <3> QED BY <3>1, <1>6, <1>10
  <2> QED BY <2>1, <2>2, <1>14 DEF First
<1>17. Granted(b, line, k) =
         [t \in Requests |-> b[t] + IF t \in ToSet(line) \ ToSet(rest)
                                    THEN req[t].ask ELSE 0]
  <2>1. \A t \in Requests :
          (IF First(line, k, t) THEN req[t].ask ELSE 0)
            = IF t \in ToSet(line) \ ToSet(rest) THEN req[t].ask ELSE 0
    BY <1>16, Zenon
  <2> DEFINE lhs(t) == IF First(line, k, t) THEN req[t].ask ELSE 0
             rhs(t) == IF t \in ToSet(line) \ ToSet(rest) THEN req[t].ask ELSE 0
  <2>2. \A t \in Requests : lhs(t) = rhs(t)
    BY <2>1
  <2>3. Granted(b, line, k) = [t \in Requests |-> b[t] + lhs(t)]
    BY Zenon DEF Granted
  <2>4. [t \in Requests |-> b[t] + rhs(t)] =
          [t \in Requests |-> b[t] + IF t \in ToSet(line) \ ToSet(rest)
                                    THEN req[t].ask ELSE 0]
    BY Zenon
  <2> HIDE DEF lhs, rhs
  <2>5. [t \in Requests |-> b[t] + lhs(t)] = [t \in Requests |-> b[t] + rhs(t)]
    BY <2>2
  <2> QED BY <2>3, <2>4, <2>5, Zenon
<1>18. m.waiters = rest /\ m.cur = SumFunctionOnSet(Granted(b, line, k), Requests)
  BY <1>1, <1>6, <1>8 DEF rest
<1> QED BY <1>11, <1>12, <1>15, <1>17, <1>18, Zenon

\* The line is granted after a step that leaves it alone: the semaphore again
\* holds what the requests hold.
LEMMA NotifyKeeps ==
    ASSUME req \in [Requests -> Charges], (req \in [Requests -> Charges])',
           NEW line \in Seq(Requests), Distinct(line),
           \A t \in ToSet(line) : req'[t] = req[t] /\ req[t].pc = "wait",
           NEW c \in Nat, c <= Budget,
           c = SumFunctionOnSet(TakenBy(req', line), Requests),
           sem' = Notify(c, line)
    PROVE  Semaphore'
<1> DEFINE b == TakenBy(req', line)
<1>1. b \in [Requests -> Nat]
  <2>1. \A t \in Requests : TakenOf(req'[t], t, line) \in Nat
    BY DEF Charges, TakenOf
  <2> QED BY <2>1 DEF TakenBy
<1>2. PICK m : m = Notify(c, line)
  OBVIOUS
<1>3. sem' = m
  BY <1>2
<1>a. c = SumFunctionOnSet(b, Requests)
  OBVIOUS
<1> HIDE DEF b
<1>4. /\ m \in [cur : 0 .. Budget, waiters : Seq(Requests)]
      /\ Distinct(m.waiters)
      /\ ToSet(m.waiters) \subseteq ToSet(line)
      /\ m.cur = SumFunctionOnSet(
                   [t \in Requests |->
                      b[t] + IF t \in ToSet(line) \ ToSet(m.waiters)
                             THEN req[t].ask ELSE 0],
                   Requests)
  BY <1>1, <1>2, <1>a, NotifyPays
<1>5. LineWaits'
  <2>1. \A i \in DOMAIN m.waiters : m.waiters[i] \in ToSet(line)
    BY <1>4, ToSetIs
  <2>2. \A i \in DOMAIN m.waiters : req'[m.waiters[i]].pc = "wait"
    BY <2>1
  <2> QED BY <1>3, <1>4, <2>2 DEF LineWaits
<1>6. ASSUME NEW t \in Requests
      PROVE  b[t] + (IF t \in ToSet(line) \ ToSet(m.waiters)
                     THEN req[t].ask ELSE 0)
               = TakenOf(req'[t], t, m.waiters)
  <2>1. b[t] = TakenOf(req'[t], t, line)
    BY Zenon DEF b, TakenBy
  <2>2. req[t] \in Charges /\ req'[t] \in Charges
    OBVIOUS
  <2>3. CASE t \in ToSet(line)
    <3>1. req'[t] = req[t] /\ req[t].pc = "wait" /\ req[t].ask \in Nat
          /\ req[t].n \in Nat
      BY <2>2, <2>3 DEF Charges
    <3> QED BY <2>1, <2>3, <3>1 DEF TakenOf
  <2>4. CASE t \notin ToSet(line)
    <3>1. t \notin ToSet(m.waiters)
      BY <1>4, <2>4
    <3>2. b[t] \in Nat
      BY <1>1
    <3> QED BY <2>1, <2>4, <3>1, <3>2 DEF TakenOf
  <2> QED BY <2>3, <2>4
<1>7. [t \in Requests |-> b[t] + IF t \in ToSet(line) \ ToSet(m.waiters)
                                THEN req[t].ask ELSE 0]
        = TakenBy(req', m.waiters)
  <2> DEFINE lhs(t) == b[t] + IF t \in ToSet(line) \ ToSet(m.waiters)
                              THEN req[t].ask ELSE 0
             rhs(t) == TakenOf(req'[t], t, m.waiters)
  <2>1. \A t \in Requests : lhs(t) = rhs(t)
    BY <1>6
  <2>2. TakenBy(req', m.waiters) = [t \in Requests |-> rhs(t)]
    BY Zenon DEF TakenBy
  <2> HIDE DEF lhs, rhs
  <2>3. [t \in Requests |-> lhs(t)] = [t \in Requests |-> rhs(t)]
    BY <2>1
  <2> QED BY <2>2, <2>3, Zenon DEF lhs
<1>8. TakenExact'
  <2>1. AllTaken' = TakenBy(req', m.waiters)
    BY <1>3, Zenon DEF AllTaken, TakenBy, Taken, TakenOf, Waiting
  <2>2. sem'.cur = m.cur
    BY <1>3
  <2> QED BY <1>4, <1>7, <2>1, <2>2, Zenon DEF TakenExact
<1> QED BY <1>3, <1>4, <1>5, <1>8 DEF Semaphore, SemTyped

(***************************************************************************)
(* The owners' shares.                                                     *)
(***************************************************************************)

\* Request r goes on to q, and no other moves.
Step(r, q) == req' = [req EXCEPT ![r] = q]

LEMMA PartTypes ==
    ASSUME NEW q \in Charges, NEW o
    PROVE  /\ Part(q, o) \in Nat
           /\ \A level \in Nat : PartAt(q, o, level) \in Nat
<1>1. SharedOf(q) \in Nat
  BY ChargeTypes
<1> QED BY <1>1 DEF Part, PartAt

\* A step of one request moves the sums by what it moves.
LEMMA SharesMove ==
    ASSUME req \in [Requests -> Charges], NEW r \in Requests, NEW q \in Charges,
           Step(r, q), NEW o \in Owners
    PROVE  /\ SumFunctionOnSet(AllShared(o), Requests) \in Nat
           /\ SumFunctionOnSet(AllShared(o)', Requests) \in Nat
           /\ Part(req[r], o) <= SumFunctionOnSet(AllShared(o), Requests)
           /\ SumFunctionOnSet(AllShared(o)', Requests) + Part(req[r], o)
                = SumFunctionOnSet(AllShared(o), Requests) + Part(q, o)
<1> DEFINE f == AllShared(o)
           g == AllShared(o)'
<1>1. \A t \in Requests : f[t] = Part(req[t], o) /\ g[t] = Part(req'[t], o)
  BY DEF AllShared
<1>2. req'[r] = q /\ \A t \in Requests \ {r} : req'[t] = req[t]
  BY DEF Step
<1>3. \A t \in Requests : req[t] \in Charges /\ req'[t] \in Charges
  BY DEF Step
<1> HIDE DEF f, g
<1>4. Nats(f, Requests) /\ Nats(g, Requests)
  BY <1>1, <1>3, PartTypes DEF Nats
<1>5. \A t \in Requests \ {r} : f[t] = g[t]
  BY <1>1, <1>2
<1>6. IsFiniteSet(Requests)
  BY BudgetAssumption
<1>7. SumFunctionOnSet(f, Requests) \in Nat /\ SumFunctionOnSet(g, Requests) \in Nat
  BY <1>4, <1>6, SumFacts
<1>8. SumFunctionOnSet(g, Requests) + f[r] = SumFunctionOnSet(f, Requests) + g[r]
  BY <1>4, <1>5, <1>6, SumChange
<1>9. f[r] <= SumFunctionOnSet(f, Requests)
  BY <1>4, <1>6, SumMember
<1>10. f[r] = Part(req[r], o) /\ g[r] = Part(q, o)
  BY <1>1, <1>2
<1> QED BY <1>7, <1>8, <1>9, <1>10, Zenon DEF f, g

LEMMA LevelsMove ==
    ASSUME req \in [Requests -> Charges], NEW r \in Requests, NEW q \in Charges,
           Step(r, q), NEW o \in Owners, NEW level \in Nat
    PROVE  /\ SumFunctionOnSet(SharedAt(o, level), Requests) \in Nat
           /\ SumFunctionOnSet(SharedAt(o, level)', Requests) \in Nat
           /\ SumFunctionOnSet(SharedAt(o, level), Requests)
                <= SumFunctionOnSet(AllShared(o), Requests)
           /\ SumFunctionOnSet(SharedAt(o, level)', Requests)
                  + PartAt(req[r], o, level)
                = SumFunctionOnSet(SharedAt(o, level), Requests)
                  + PartAt(q, o, level)
<1> DEFINE f == SharedAt(o, level)
           g == SharedAt(o, level)'
           h == AllShared(o)
<1>1. \A t \in Requests : f[t] = PartAt(req[t], o, level)
                          /\ g[t] = PartAt(req'[t], o, level)
                          /\ h[t] = Part(req[t], o)
  BY DEF SharedAt, AllShared
<1>2. req'[r] = q /\ \A t \in Requests \ {r} : req'[t] = req[t]
  BY DEF Step
<1>3. \A t \in Requests : req[t] \in Charges /\ req'[t] \in Charges
  BY DEF Step
<1> HIDE DEF f, g, h
<1>4. Nats(f, Requests) /\ Nats(g, Requests) /\ Nats(h, Requests)
  <2>1. \A t \in Requests : PartAt(req[t], o, level) \in Nat
                           /\ PartAt(req'[t], o, level) \in Nat
    BY <1>3, PartTypes
  <2>2. \A t \in Requests : Part(req[t], o) \in Nat
    BY <1>3, PartTypes
  <2> QED BY <1>1, <2>1, <2>2 DEF Nats
<1>5. \A t \in Requests \ {r} : f[t] = g[t]
  BY <1>1, <1>2
<1>6. IsFiniteSet(Requests)
  BY BudgetAssumption
<1>7. SumFunctionOnSet(f, Requests) \in Nat /\ SumFunctionOnSet(g, Requests) \in Nat
  BY <1>4, <1>6, SumFacts
<1>8. SumFunctionOnSet(g, Requests) + f[r] = SumFunctionOnSet(f, Requests) + g[r]
  BY <1>4, <1>5, <1>6, SumChange
<1>9. f[r] = PartAt(req[r], o, level) /\ g[r] = PartAt(q, o, level)
  BY <1>1, <1>2
<1>10. \A t \in Requests : f[t] <= h[t]
  <2> SUFFICES ASSUME NEW t \in Requests PROVE f[t] <= h[t]
    OBVIOUS
  <2>1. SharedOf(req[t]) \in Nat
    BY <1>3, ChargeTypes
  <2> QED BY <1>1, <2>1 DEF Part, PartAt
<1>11. SumFunctionOnSet(f, Requests) <= SumFunctionOnSet(h, Requests)
  BY <1>4, <1>6, <1>10, SumGrows
<1> QED BY <1>7, <1>8, <1>9, <1>11, Zenon DEF f, g, h

\* What r has of its owner's share stays as it is.
LEMMA SharesUnmoved ==
    ASSUME req \in [Requests -> Charges], NEW r \in Requests, NEW q \in Charges,
           Step(r, q), held' = held, Shares,
           \/ /\ q.owner = req[r].owner /\ q.share = req[r].share
              /\ SharedOf(q) = SharedOf(req[r])
           \/ SharedOf(q) = 0 /\ SharedOf(req[r]) = 0
    PROVE  Shares'
<1>1. ASSUME NEW o \in Owners
      PROVE  SumFunctionOnSet(AllShared(o)', Requests)
               = SumFunctionOnSet(AllShared(o), Requests)
  <2>1. Part(req[r], o) = Part(q, o) /\ Part(q, o) \in Nat
    BY PartTypes DEF Part
  <2>2. SumFunctionOnSet(AllShared(o), Requests) \in Nat
        /\ SumFunctionOnSet(AllShared(o)', Requests) \in Nat
        /\ SumFunctionOnSet(AllShared(o)', Requests) + Part(req[r], o)
              = SumFunctionOnSet(AllShared(o), Requests) + Part(q, o)
    BY SharesMove
  <2> QED BY <2>1, <2>2
<1>2. ASSUME NEW o \in Owners, NEW level \in Nat
      PROVE  SumFunctionOnSet(SharedAt(o, level)', Requests)
               = SumFunctionOnSet(SharedAt(o, level), Requests)
  <2>1. PartAt(req[r], o, level) = PartAt(q, o, level)
        /\ PartAt(q, o, level) \in Nat
    BY PartTypes DEF PartAt
  <2>2. SumFunctionOnSet(SharedAt(o, level), Requests) \in Nat
        /\ SumFunctionOnSet(SharedAt(o, level)', Requests) \in Nat
        /\ SumFunctionOnSet(SharedAt(o, level)', Requests) + PartAt(req[r], o, level)
              = SumFunctionOnSet(SharedAt(o, level), Requests) + PartAt(q, o, level)
    BY LevelsMove
  <2> QED BY <2>1, <2>2
<1>3. SharedExact'
  <2> SUFFICES ASSUME NEW o \in Owners
               PROVE  HeldBy(o)' = SumFunctionOnSet(AllShared(o)', Requests)
    BY DEF SharedExact
  <2>1. HeldBy(o)' = HeldBy(o)
    BY DEF HeldBy
  <2>2. HeldBy(o) = SumFunctionOnSet(AllShared(o), Requests)
    BY DEF Shares, SharedExact
  <2> QED BY <1>1, <2>1, <2>2
<1>4. LevelsKept'
  <2> SUFFICES ASSUME NEW o \in Owners, NEW level \in Nat
               PROVE  SumFunctionOnSet(SharedAt(o, level)', Requests) <= level
    BY DEF LevelsKept
  <2>1. SumFunctionOnSet(SharedAt(o, level), Requests) <= level
    BY DEF Shares, LevelsKept
  <2> QED BY <1>2, <2>1
<1>5. HeldTyped'
  BY DEF Shares, HeldTyped
<1> QED BY <1>3, <1>4, <1>5 DEF Shares

\* The owner gives back what r has less.
LEMMA SharesLess ==
    ASSUME req \in [Requests -> Charges], NEW r \in Requests, NEW q \in Charges,
           Step(r, q), Shares,
           req[r].owner \in Owners, NEW n \in Nat,
           held' = LessHeld(req[r].owner, n),
           SharedOf(q) + n = SharedOf(req[r]),
           \/ q.owner = req[r].owner /\ q.share = req[r].share
           \/ SharedOf(q) = 0
    PROVE  Shares'
<1>0. SharedOf(q) \in Nat /\ SharedOf(req[r]) \in Nat
  BY ChargeTypes
<1>1. PICK o \in Owners : o = req[r].owner
  OBVIOUS
<1>2. \A p \in Owners : HeldBy(p) = SumFunctionOnSet(AllShared(p), Requests)
  BY DEF Shares, SharedExact
<1>3. ASSUME NEW p \in Owners
      PROVE  /\ Part(req[r], p) = IF p = o THEN SharedOf(req[r]) ELSE 0
             /\ Part(q, p) = IF p = o THEN SharedOf(q) ELSE 0
  BY <1>1 DEF Part
<1>4. HeldBy(o) \in Nat /\ n <= HeldBy(o)
  <2>1. SumFunctionOnSet(AllShared(o), Requests) \in Nat
        /\ Part(req[r], o) <= SumFunctionOnSet(AllShared(o), Requests)
    BY SharesMove
  <2>2. Part(req[r], o) = SharedOf(req[r]) /\ n <= SharedOf(req[r])
    BY <1>0, <1>3
  <2>3. HeldBy(o) = SumFunctionOnSet(AllShared(o), Requests)
    BY <1>2
  <2> QED BY <1>0, <2>1, <2>2, <2>3
<1>5. HeldTyped
  BY DEF Shares
<1>6. HeldTyped' /\ HeldBy(o)' = HeldBy(o) - n
      /\ \A p \in Owners \ {o} : HeldBy(p)' = HeldBy(p)
  <2>0. held' = LessHeld(o, n)
    BY <1>1
  <2>1. CASE HeldBy(o) - n > 0
    <3>1. held' = [held EXCEPT ![o] = @ - n]
      BY <2>0, <2>1 DEF LessHeld
    <3>2. o \in DOMAIN held /\ held[o] = HeldBy(o)
      BY <1>4, <2>1 DEF HeldBy
    <3>3. DOMAIN held' = DOMAIN held /\ held'[o] = held[o] - n
          /\ \A p \in DOMAIN held \ {o} : held'[p] = held[p]
      BY <3>1, <3>2, <1>5 DEF HeldTyped
    <3>4. held[o] - n \in Nat
      BY <1>4, <2>1, <3>2
    <3>5. HeldTyped'
      BY <1>5, <3>1, <3>4 DEF HeldTyped
    <3>6. HeldBy(o)' = HeldBy(o) - n
      BY <3>2, <3>3 DEF HeldBy
    <3>7. \A p \in Owners \ {o} : HeldBy(p)' = HeldBy(p)
      BY <3>3 DEF HeldBy
    <3> QED BY <3>5, <3>6, <3>7
  <2>2. CASE ~ (HeldBy(o) - n > 0)
    <3>1. held' = [p \in DOMAIN held \ {o} |-> held[p]]
      BY <2>0, <2>2 DEF LessHeld
    <3>2. DOMAIN held' = DOMAIN held \ {o}
          /\ \A p \in DOMAIN held \ {o} : held'[p] = held[p]
      BY <3>1
    <3>3. HeldTyped'
      BY <1>5, <3>1 DEF HeldTyped
    <3>4. HeldBy(o)' = 0
      BY <3>2 DEF HeldBy
    <3>5. HeldBy(o) - n = 0
      BY <1>4, <2>2
    <3>6. \A p \in Owners \ {o} : HeldBy(p)' = HeldBy(p)
      BY <3>2 DEF HeldBy
    <3> QED BY <3>3, <3>4, <3>5, <3>6
  <2> QED BY <2>1, <2>2
<1>7. SharedExact'
  <2> SUFFICES ASSUME NEW p \in Owners
               PROVE  HeldBy(p)' = SumFunctionOnSet(AllShared(p)', Requests)
    BY DEF SharedExact
  <2>1. SumFunctionOnSet(AllShared(p), Requests) \in Nat
        /\ SumFunctionOnSet(AllShared(p)', Requests) \in Nat
        /\ SumFunctionOnSet(AllShared(p)', Requests) + Part(req[r], p)
              = SumFunctionOnSet(AllShared(p), Requests) + Part(q, p)
    BY SharesMove
  <2>2. HeldBy(p) = SumFunctionOnSet(AllShared(p), Requests)
    BY <1>2
  <2>3. CASE p = o
    <3>1. Part(req[r], p) = SharedOf(req[r]) /\ Part(q, p) = SharedOf(q)
          /\ HeldBy(p)' = HeldBy(p) - n
      BY <1>3, <1>6, <2>3
    <3> DEFINE s == SumFunctionOnSet(AllShared(p), Requests)
               u == SumFunctionOnSet(AllShared(p)', Requests)
               x == SharedOf(req[r])
               y == SharedOf(q)
    <3>2. s \in Nat /\ u \in Nat /\ x \in Nat /\ y \in Nat /\ u + x = s + y
          /\ y + n = x
      BY <1>0, <2>1, <3>1, Zenon
    <3> HIDE DEF s, u, x, y
    <3>3. u = s - n
      BY <3>2
    <3> QED BY <2>2, <3>1, <3>3 DEF s, u
  <2>4. CASE p # o
    <3>1. Part(req[r], p) = 0 /\ Part(q, p) = 0 /\ HeldBy(p)' = HeldBy(p)
      BY <1>3, <1>6, <2>4
    <3> QED BY <2>1, <2>2, <3>1
  <2> QED BY <2>3, <2>4
<1>8. LevelsKept'
  <2> SUFFICES ASSUME NEW p \in Owners, NEW level \in Nat
               PROVE  SumFunctionOnSet(SharedAt(p, level)', Requests) <= level
    BY DEF LevelsKept
  <2>1. SumFunctionOnSet(SharedAt(p, level), Requests) <= level
    BY DEF Shares, LevelsKept
  <2>2. SumFunctionOnSet(SharedAt(p, level), Requests) \in Nat
        /\ SumFunctionOnSet(SharedAt(p, level)', Requests) \in Nat
        /\ SumFunctionOnSet(SharedAt(p, level)', Requests) + PartAt(req[r], p, level)
              = SumFunctionOnSet(SharedAt(p, level), Requests) + PartAt(q, p, level)
    BY LevelsMove
  <2>3. PartAt(req[r], p, level) \in Nat /\ PartAt(q, p, level) \in Nat
    BY PartTypes
  <2>4. PartAt(q, p, level) <= PartAt(req[r], p, level)
    <3>1. SharedOf(q) <= SharedOf(req[r])
      BY <1>0
    <3> QED BY <1>0, <3>1 DEF PartAt
  <2> QED BY <2>1, <2>2, <2>3, <2>4
<1> QED BY <1>6, <1>7, <1>8 DEF Shares

\* The owner is charged n more, and r's allowance covers all the owner then
\* holds.
LEMMA SharesMore ==
    ASSUME req \in [Requests -> Charges], NEW r \in Requests, NEW q \in Charges,
           Step(r, q), Shares,
           req[r].owner \in Owners, NEW n \in Nat,
           held' = MoreHeld(req[r].owner, n),
           SharedOf(q) = SharedOf(req[r]) + n,
           q.owner = req[r].owner, q.share = req[r].share,
           HeldBy(req[r].owner) + n <= req[r].share
    PROVE  Shares'
<1>0. SharedOf(q) \in Nat /\ SharedOf(req[r]) \in Nat
  BY ChargeTypes
<1>1. PICK o \in Owners : o = req[r].owner
  OBVIOUS
<1>2. \A p \in Owners : HeldBy(p) = SumFunctionOnSet(AllShared(p), Requests)
  BY DEF Shares, SharedExact
<1>3. ASSUME NEW p \in Owners
      PROVE  /\ Part(req[r], p) = IF p = o THEN SharedOf(req[r]) ELSE 0
             /\ Part(q, p) = IF p = o THEN SharedOf(q) ELSE 0
  BY <1>1 DEF Part
<1>4. HeldBy(o) \in Nat
  <2>1. SumFunctionOnSet(AllShared(o), Requests) \in Nat
    BY SharesMove
  <2> QED BY <1>2, <2>1
<1>5. HeldTyped
  BY DEF Shares
<1>6. HeldTyped' /\ HeldBy(o)' = HeldBy(o) + n
      /\ \A p \in Owners \ {o} : HeldBy(p)' = HeldBy(p)
  <2> DEFINE more == HeldBy(o) + n
  <2>1. held' = MoreHeld(o, n)
    BY <1>1
  <2>2. more \in Nat
    BY <1>4
  <2>3. held' = [p \in DOMAIN held \cup {o} |-> IF p = o THEN more ELSE held[p]]
    BY <2>1, Zenon DEF MoreHeld
  <2> HIDE DEF more
  <2>4. DOMAIN held' = {o} \cup DOMAIN held /\ held'[o] = more
        /\ \A p \in DOMAIN held \ {o} : held'[p] = held[p]
    BY <2>3
  <2>5. HeldTyped'
    BY <1>5, <2>2, <2>3 DEF HeldTyped
  <2>6. HeldBy(o)' = more
    BY <2>4 DEF HeldBy
  <2>7. \A p \in Owners \ {o} : HeldBy(p)' = HeldBy(p)
    BY <2>4 DEF HeldBy
  <2> QED BY <2>5, <2>6, <2>7 DEF more
<1>7. SharedExact'
  <2> SUFFICES ASSUME NEW p \in Owners
               PROVE  HeldBy(p)' = SumFunctionOnSet(AllShared(p)', Requests)
    BY DEF SharedExact
  <2>1. SumFunctionOnSet(AllShared(p), Requests) \in Nat
        /\ SumFunctionOnSet(AllShared(p)', Requests) \in Nat
        /\ SumFunctionOnSet(AllShared(p)', Requests) + Part(req[r], p)
              = SumFunctionOnSet(AllShared(p), Requests) + Part(q, p)
    BY SharesMove
  <2>2. HeldBy(p) = SumFunctionOnSet(AllShared(p), Requests)
    BY <1>2
  <2>3. CASE p = o
    <3>1. Part(req[r], p) = SharedOf(req[r]) /\ Part(q, p) = SharedOf(q)
          /\ HeldBy(p)' = HeldBy(p) + n
      BY <1>3, <1>6, <2>3
    <3> DEFINE s == SumFunctionOnSet(AllShared(p), Requests)
               u == SumFunctionOnSet(AllShared(p)', Requests)
               x == SharedOf(req[r])
               y == SharedOf(q)
    <3>2. s \in Nat /\ u \in Nat /\ x \in Nat /\ y \in Nat /\ u + x = s + y
          /\ y = x + n
      BY <1>0, <2>1, <3>1, Zenon
    <3> HIDE DEF s, u, x, y
    <3>3. u = s + n
      BY <3>2
    <3> QED BY <2>2, <3>1, <3>3 DEF s, u
  <2>4. CASE p # o
    <3>1. Part(req[r], p) = 0 /\ Part(q, p) = 0 /\ HeldBy(p)' = HeldBy(p)
      BY <1>3, <1>6, <2>4
    <3> QED BY <2>1, <2>2, <3>1
  <2> QED BY <2>3, <2>4
<1>8. LevelsKept'
  <2> SUFFICES ASSUME NEW p \in Owners, NEW level \in Nat
               PROVE  SumFunctionOnSet(SharedAt(p, level)', Requests) <= level
    BY DEF LevelsKept
  <2>1. SumFunctionOnSet(SharedAt(p, level), Requests) <= level
    BY DEF Shares, LevelsKept
  <2>2. SumFunctionOnSet(SharedAt(p, level), Requests) \in Nat
        /\ SumFunctionOnSet(SharedAt(p, level)', Requests) \in Nat
        /\ SumFunctionOnSet(SharedAt(p, level), Requests)
             <= SumFunctionOnSet(AllShared(p), Requests)
        /\ SumFunctionOnSet(SharedAt(p, level)', Requests) + PartAt(req[r], p, level)
              = SumFunctionOnSet(SharedAt(p, level), Requests) + PartAt(q, p, level)
    BY LevelsMove
  <2>3. PartAt(req[r], p, level) \in Nat /\ PartAt(q, p, level) \in Nat
    BY PartTypes
  <2>4. CASE p = o /\ req[r].share <= level
    <3>1. PartAt(q, p, level) = PartAt(req[r], p, level) + n
      BY <1>0, <1>1, <2>4 DEF PartAt
    <3>2. SumFunctionOnSet(SharedAt(p, level)', Requests)
            = SumFunctionOnSet(SharedAt(p, level), Requests) + n
      BY <2>2, <2>3, <3>1
    <3>3. HeldBy(p) = SumFunctionOnSet(AllShared(p), Requests)
          /\ HeldBy(p) + n <= req[r].share /\ HeldBy(p) \in Nat
      BY <1>1, <1>2, <1>4, <2>4
    <3>4. req[r].share \in Nat
      BY DEF Charges
    <3> QED BY <2>2, <2>4, <3>2, <3>3, <3>4
  <2>5. CASE ~ (p = o /\ req[r].share <= level)
    <3>1. PartAt(q, p, level) = 0 /\ PartAt(req[r], p, level) = 0
      BY <1>1, <2>5 DEF PartAt
    <3> QED BY <2>1, <2>2, <3>1
  <2> QED BY <2>4, <2>5
<1> QED BY <1>6, <1>7, <1>8 DEF Shares

(***************************************************************************)
(* One request's step, as the semaphore sees it.                           *)
(***************************************************************************)

\* Two lines that agree but for r.
SameBut(before, after, r) == ToSet(before) \ {r} = ToSet(after) \ {r}

\* The line changes for r alone, and so does what is taken.
LEMMA TakenMoves ==
    ASSUME req \in [Requests -> Charges], NEW r \in Requests, NEW q \in Charges,
           Step(r, q), NEW before, NEW after,
           SameBut(before, after, r)
    PROVE  /\ SumFunctionOnSet(TakenBy(req, before), Requests) \in Nat
           /\ SumFunctionOnSet(TakenBy(req', after), Requests) \in Nat
           /\ TakenOf(req[r], r, before)
                <= SumFunctionOnSet(TakenBy(req, before), Requests)
           /\ SumFunctionOnSet(TakenBy(req', after), Requests)
                  + TakenOf(req[r], r, before)
                = SumFunctionOnSet(TakenBy(req, before), Requests)
                  + TakenOf(q, r, after)
<1> DEFINE f == TakenBy(req, before)
           g == TakenBy(req', after)
<1>1. \A t \in Requests : f[t] = TakenOf(req[t], t, before)
                          /\ g[t] = TakenOf(req'[t], t, after)
  BY Zenon DEF TakenBy
<1>2. req'[r] = q /\ \A t \in Requests \ {r} : req'[t] = req[t]
  BY DEF Step
<1>3. \A t \in Requests : req[t] \in Charges /\ req'[t] \in Charges
  BY DEF Step
<1> HIDE DEF f, g
<1>4. Nats(f, Requests) /\ Nats(g, Requests)
  <2>1. \A t \in Requests : TakenOf(req[t], t, before) \in Nat
    BY <1>3 DEF TakenOf, Charges
  <2>2. \A t \in Requests : TakenOf(req'[t], t, after) \in Nat
    BY <1>3 DEF TakenOf, Charges
  <2> QED BY <1>1, <2>1, <2>2 DEF Nats
<1>5. \A t \in Requests \ {r} : f[t] = g[t]
  <2> SUFFICES ASSUME NEW t \in Requests, t # r PROVE f[t] = g[t]
    OBVIOUS
  <2>1. t \in ToSet(before) <=> t \in ToSet(after)
    BY DEF SameBut
  <2>2. req'[t] = req[t]
    BY <1>2
  <2>3. TakenOf(req[t], t, before) = TakenOf(req'[t], t, after)
    BY <2>1, <2>2 DEF TakenOf
  <2> QED BY <1>1, <2>3
<1>6. IsFiniteSet(Requests)
  BY BudgetAssumption
<1>7. SumFunctionOnSet(f, Requests) \in Nat /\ SumFunctionOnSet(g, Requests) \in Nat
  BY <1>4, <1>6, SumFacts
<1>8. SumFunctionOnSet(g, Requests) + f[r] = SumFunctionOnSet(f, Requests) + g[r]
  BY <1>4, <1>5, <1>6, SumChange
<1>9. f[r] <= SumFunctionOnSet(f, Requests)
  BY <1>4, <1>6, SumMember
<1>10. f[r] = TakenOf(req[r], r, before) /\ g[r] = TakenOf(q, r, after)
  BY <1>1, <1>2, Zenon
<1> QED BY <1>7, <1>8, <1>9, <1>10, Zenon DEF f, g

LEMMA NotInLine ==
    ASSUME Semaphore, NEW r, req[r].pc # "wait"
    PROVE  r \notin ToSet(sem.waiters)
  BY ToSetIs DEF Semaphore, LineWaits

LEMMA LineInRequests ==
    ASSUME SemTyped
    PROVE  sem.waiters \in Seq(Requests) /\ sem.cur \in Nat /\ sem.cur <= Budget
           /\ ToSet(sem.waiters) \subseteq Requests
<1>1. sem.waiters \in Seq(Requests) /\ sem.cur \in 0 .. Budget
  BY DEF SemTyped
<1>2. \A i \in DOMAIN sem.waiters : sem.waiters[i] \in Requests
  BY <1>1
<1> QED BY <1>1, <1>2, BudgetAssumption DEF ToSet

\* A request outside the line that takes or gives back nothing.
LEMMA SemUnmoved ==
    ASSUME req \in [Requests -> Charges], NEW r \in Requests, NEW q \in Charges,
           Step(r, q), sem' = sem, Semaphore,
           r \notin ToSet(sem.waiters),
           TakenOf(q, r, sem.waiters) = TakenOf(req[r], r, sem.waiters)
    PROVE  Semaphore'
<1> DEFINE f == SumFunctionOnSet(TakenBy(req, sem.waiters), Requests)
           g == SumFunctionOnSet(TakenBy(req', sem.waiters), Requests)
           x == TakenOf(req[r], r, sem.waiters)
           y == TakenOf(q, r, sem.waiters)
<1>1. f \in Nat /\ g \in Nat /\ g + x = f + y
  <2>1. PICK line : line = sem.waiters
    OBVIOUS
  <2>2. SameBut(line, line, r)
    BY DEF SameBut
  <2>3. /\ SumFunctionOnSet(TakenBy(req, line), Requests) \in Nat
        /\ SumFunctionOnSet(TakenBy(req', line), Requests) \in Nat
        /\ TakenOf(req[r], r, line) <= SumFunctionOnSet(TakenBy(req, line), Requests)
        /\ SumFunctionOnSet(TakenBy(req', line), Requests) + TakenOf(req[r], r, line)
             = SumFunctionOnSet(TakenBy(req, line), Requests) + TakenOf(q, r, line)
    BY <2>2, TakenMoves
  <2> QED BY <2>1, <2>3, Zenon
<1>2. x = y /\ x \in Nat
  BY DEF TakenOf, Charges
<1> HIDE DEF f, g, x, y
<1>3. g = f
  BY <1>1, <1>2
<1>4. TakenExact'
  <2>1. sem.cur = f
    BY AllTakenIs DEF Semaphore, TakenExact, f
  <2>2. AllTaken' = TakenBy(req', sem.waiters)
    BY Zenon DEF AllTaken, TakenBy, Taken, TakenOf, Waiting
  <2> QED BY <1>3, <2>1, <2>2 DEF TakenExact, g
<1>5. LineWaits'
  <2>1. LineWaits /\ SemTyped
    BY DEF Semaphore
  <2>2. \A i \in DOMAIN sem.waiters : sem.waiters[i] # r /\ sem.waiters[i] \in Requests
    BY <2>1, ToSetIs, LineInRequests
  <2>3. \A i \in DOMAIN sem.waiters : req'[sem.waiters[i]] = req[sem.waiters[i]]
    BY <2>2 DEF Step
  <2> QED BY <2>1, <2>3 DEF LineWaits
<1>6. SemTyped'
  BY DEF Semaphore, SemTyped
<1> QED BY <1>4, <1>5, <1>6 DEF Semaphore

\* A request outside the line gives n back, and the line is granted.
LEMMA SemReleased ==
    ASSUME req \in [Requests -> Charges], NEW r \in Requests, NEW q \in Charges,
           Step(r, q), Semaphore,
           r \notin ToSet(sem.waiters), NEW n \in Nat, sem' = SemRelease(n),
           TakenOf(q, r, sem.waiters) + n = TakenOf(req[r], r, sem.waiters)
    PROVE  Semaphore'
<1> DEFINE f == SumFunctionOnSet(TakenBy(req, sem.waiters), Requests)
           g == SumFunctionOnSet(TakenBy(req', sem.waiters), Requests)
           x == TakenOf(req[r], r, sem.waiters)
           y == TakenOf(q, r, sem.waiters)
<1>0. SemTyped /\ LineWaits /\ TakenExact
  BY DEF Semaphore
<1>1. f \in Nat /\ g \in Nat /\ g + x = f + y /\ x <= f
  <2>1. PICK line : line = sem.waiters
    OBVIOUS
  <2>2. SameBut(line, line, r)
    BY DEF SameBut
  <2>3. /\ SumFunctionOnSet(TakenBy(req, line), Requests) \in Nat
        /\ SumFunctionOnSet(TakenBy(req', line), Requests) \in Nat
        /\ TakenOf(req[r], r, line) <= SumFunctionOnSet(TakenBy(req, line), Requests)
        /\ SumFunctionOnSet(TakenBy(req', line), Requests) + TakenOf(req[r], r, line)
             = SumFunctionOnSet(TakenBy(req, line), Requests) + TakenOf(q, r, line)
    BY <2>2, TakenMoves
  <2> QED BY <2>1, <2>3, Zenon
<1>2. y + n = x /\ x \in Nat /\ y \in Nat
  BY DEF TakenOf, Charges
<1>3. sem.cur = f
  BY <1>0, AllTakenIs DEF TakenExact
<1>4. sem.waiters \in Seq(Requests) /\ sem.cur \in Nat /\ sem.cur <= Budget
      /\ ToSet(sem.waiters) \subseteq Requests
  BY <1>0, LineInRequests
<1>4a. Budget \in Nat
  BY BudgetAssumption
<1> HIDE DEF f, g, x, y
<1>5. PICK c : c = sem.cur - n
  OBVIOUS
<1>6. c \in Nat /\ c <= Budget /\ c = g
  BY <1>1, <1>2, <1>3, <1>4, <1>4a, <1>5
<1>7. PICK line : line = sem.waiters
  OBVIOUS
<1>8. sem' = Notify(c, line)
  BY <1>5, <1>7 DEF SemRelease
<1>9. c = SumFunctionOnSet(TakenBy(req', line), Requests)
  BY <1>6, <1>7 DEF g
<1>10. line \in Seq(Requests) /\ Distinct(line)
  BY <1>0, <1>4, <1>7 DEF LineWaits
<1>11. \A t \in ToSet(line) : req'[t] = req[t] /\ req[t].pc = "wait"
  <2>1. \A t \in ToSet(line) : t # r /\ t \in Requests
    BY <1>4, <1>7
  <2>2. \A t \in ToSet(line) : req[t].pc = "wait"
    BY <1>0, <1>7, ToSetIs DEF LineWaits
  <2> QED BY <2>1, <2>2 DEF Step
<1>12. (req \in [Requests -> Charges])'
  BY DEF Step
<1> QED BY <1>6, <1>8, <1>9, <1>10, <1>11, <1>12, NotifyKeeps

\* A piece of the line.
LEMMA Piece ==
    ASSUME NEW line \in Seq(Requests), NEW m \in Nat, NEW n \in Nat,
           1 <= m, m <= n + 1, n <= Len(line)
    PROVE  /\ SubSeq(line, m, n) \in Seq(Requests)
           /\ Len(SubSeq(line, m, n)) = (n + 1) - m
           /\ \A j \in 1 .. ((n + 1) - m) :
                 SubSeq(line, m, n)[j] = line[j + (m - 1)]
<1>1. \A j \in m .. n : line[j] \in Requests
  OBVIOUS
<1>2. /\ SubSeq(line, m, n) \in Seq(Requests)
      /\ Len(SubSeq(line, m, n)) = IF m <= n THEN n - m + 1 ELSE 0
      /\ \A j \in 1 .. n - m + 1 : SubSeq(line, m, n)[j] = line[m + j - 1]
  <2>1. m \in Int /\ n \in Int
    OBVIOUS
  <2> QED BY <1>1, <2>1, SubSeqProperties
<1>3. (IF m <= n THEN n - m + 1 ELSE 0) = (n + 1) - m
  OBVIOUS
<1>4. \A j \in 1 .. ((n + 1) - m) : j \in 1 .. n - m + 1 /\ m + j - 1 = j + (m - 1)
  OBVIOUS
<1>5. \A j \in 1 .. ((n + 1) - m) : SubSeq(line, m, n)[j] = line[j + (m - 1)]
  BY <1>2, <1>4
<1>6. Len(SubSeq(line, m, n)) = (n + 1) - m
  BY <1>2, <1>3
<1> QED BY <1>2, <1>5, <1>6, Zenon

\* Taking one out of the line.
LEMMA OutOfLine ==
    ASSUME NEW line \in Seq(Requests), Distinct(line), NEW r, NEW i \in DOMAIN line,
           line[i] = r
    PROVE  /\ RemoveAt(line, i) \in Seq(Requests)
           /\ Distinct(RemoveAt(line, i))
           /\ ToSet(RemoveAt(line, i)) = ToSet(line) \ {r}
<1>1. i \in DOMAIN line /\ line[i] = r
  OBVIOUS
<1>2. i \in 1 .. Len(line) /\ Len(line) \in Nat /\ DOMAIN line = 1 .. Len(line)
  BY <1>1
<1> DEFINE head == SubSeq(line, 1, i - 1)
           tail == SubSeq(line, i + 1, Len(line))
           out == RemoveAt(line, i)
<1>3. head \in Seq(Requests) /\ Len(head) = i - 1
      /\ \A j \in 1 .. (i - 1) : head[j] = line[j]
  <2> DEFINE n == i - 1
  <2>1. n \in Nat /\ 1 \in Nat /\ 1 <= n + 1 /\ n <= Len(line) /\ (n + 1) - 1 = n
        /\ \A j \in 1 .. n : j + (1 - 1) = j
    BY <1>2
  <2>2. head = SubSeq(line, 1, n)
    BY Zenon
  <2> HIDE DEF n, head
  <2>3. /\ SubSeq(line, 1, n) \in Seq(Requests)
        /\ Len(SubSeq(line, 1, n)) = (n + 1) - 1
        /\ \A j \in 1 .. ((n + 1) - 1) : SubSeq(line, 1, n)[j] = line[j + (1 - 1)]
    <3>1. 1 <= 1
      OBVIOUS
    <3> QED BY <2>1, <3>1, Piece
  <2>4. head \in Seq(Requests) /\ Len(head) = n
        /\ \A j \in 1 .. n : head[j] = line[j]
    BY <2>1, <2>2, <2>3
  <2> QED BY <2>4 DEF n
<1>4. tail \in Seq(Requests) /\ Len(tail) = Len(line) - i
      /\ \A j \in 1 .. (Len(line) - i) : tail[j] = line[j + i]
  <2> DEFINE m == i + 1
             n == Len(line)
  <2>1. m \in Nat /\ n \in Nat /\ 1 <= m /\ m <= n + 1 /\ n <= Len(line)
        /\ (n + 1) - m = n - i /\ m - 1 = i
    BY <1>2
  <2>2. tail = SubSeq(line, m, n)
    BY Zenon
  <2> HIDE DEF m, n, tail
  <2>3. /\ SubSeq(line, m, n) \in Seq(Requests)
        /\ Len(SubSeq(line, m, n)) = (n + 1) - m
        /\ \A j \in 1 .. ((n + 1) - m) : SubSeq(line, m, n)[j] = line[j + (m - 1)]
    BY <2>1, Piece
  <2>4. tail \in Seq(Requests) /\ Len(tail) = n - i
        /\ \A j \in 1 .. (n - i) : tail[j] = line[j + i]
    BY <2>1, <2>2, <2>3
  <2> QED BY <2>4 DEF n
<1>5. out = head \o tail
  BY DEF RemoveAt
<1> HIDE DEF head, tail, out
<1>5a. /\ out \in Seq(Requests)
       /\ Len(out) = Len(head) + Len(tail)
       /\ \A j \in 1 .. Len(head) + Len(tail) :
             out[j] = IF j <= Len(head) THEN head[j] ELSE tail[j - Len(head)]
  <2>1. head \in Seq(Requests) /\ tail \in Seq(Requests)
    BY <1>3, <1>4
  <2>2. /\ head \o tail \in Seq(Requests)
        /\ Len(head \o tail) = Len(head) + Len(tail)
        /\ \A j \in 1 .. Len(head) + Len(tail) : (head \o tail)[j] =
              IF j <= Len(head) THEN head[j] ELSE tail[j - Len(head)]
    BY <2>1, ConcatProperties, Zenon
  <2> QED BY <1>5, <2>2, Zenon
<1>6. out \in Seq(Requests) /\ Len(out) = Len(line) - 1
  BY <1>2, <1>3, <1>4, <1>5a
<1>7. DOMAIN out = 1 .. (Len(line) - 1)
  BY <1>6
<1>8. ASSUME NEW j \in DOMAIN out
      PROVE  out[j] = IF j < i THEN line[j] ELSE line[j + 1]
  <2>1. CASE j < i
    <3>1. j \in 1 .. (i - 1)
      BY <1>2, <1>7, <2>1
    <3>2. out[j] = head[j]
      BY <1>2, <1>3, <1>4, <1>5a, <1>6, <1>7, <3>1
    <3> QED BY <1>3, <2>1, <3>1, <3>2
  <2>2. CASE ~ (j < i)
    <3>1. j - (i - 1) \in 1 .. (Len(line) - i) /\ (j - (i - 1)) + i = j + 1
      BY <1>2, <1>7, <2>2
    <3>2. out[j] = tail[j - (i - 1)]
      <4>1. j \in 1 .. Len(head) + Len(tail) /\ ~ (j <= Len(head)) /\ Len(head) = i - 1
        BY <1>2, <1>3, <1>4, <1>7, <2>2
      <4> QED BY <1>5a, <4>1
    <3> QED BY <1>4, <2>2, <3>1, <3>2
  <2> QED BY <2>1, <2>2
<1> DEFINE at(j) == IF j < i THEN j ELSE j + 1
<1>9. \A j \in DOMAIN out : at(j) \in DOMAIN line /\ at(j) # i /\ out[j] = line[at(j)]
  <2> SUFFICES ASSUME NEW j \in DOMAIN out
               PROVE  at(j) \in DOMAIN line /\ at(j) # i /\ out[j] = line[at(j)]
    OBVIOUS
  <2>1. at(j) \in DOMAIN line /\ at(j) # i
    <3>1. j \in Nat /\ 1 <= j /\ j <= Len(line) - 1 /\ i \in Nat
      BY <1>2, <1>7
    <3>2. at(j) \in 1 .. Len(line) /\ at(j) # i
      <4> DEFINE len == Len(line)
      <4>0. len \in Nat /\ i \in 1 .. len /\ j <= len - 1
        BY <1>2, <3>1
      <4> HIDE DEF len
      <4>1. CASE j < i
        <5>1. at(j) = j
          BY <4>1
        <5>2. j \in 1 .. len /\ j # i
          BY <3>1, <4>0, <4>1
        <5> QED BY <5>1, <5>2 DEF len
      <4>2. CASE ~ (j < i)
        <5>1. at(j) = j + 1
          BY <4>2
        <5>2. j + 1 \in 1 .. len /\ j + 1 # i
          BY <3>1, <4>0, <4>2
        <5> QED BY <5>1, <5>2 DEF len
      <4> QED BY <4>1, <4>2
    <3> QED BY <1>2, <3>2
  <2>2. out[j] = line[at(j)]
    BY <1>8
  <2> QED BY <2>1, <2>2
<1>10. \A j, k \in DOMAIN out : at(j) = at(k) => j = k
  BY <1>2, <1>7
<1>11. \A k \in DOMAIN line : k # i => \E j \in DOMAIN out : at(j) = k
  <2> SUFFICES ASSUME NEW k \in DOMAIN line, k # i
               PROVE  \E j \in DOMAIN out : at(j) = k
    OBVIOUS
  <2>1. CASE k < i
    <3>1. k \in DOMAIN out /\ at(k) = k
      BY <1>2, <1>7, <2>1
    <3> QED BY <3>1
  <2>2. CASE ~ (k < i)
    <3>1. k - 1 \in DOMAIN out /\ at(k - 1) = k
      BY <1>2, <1>7, <2>2
    <3> QED BY <3>1
  <2> QED BY <2>1, <2>2
<1> HIDE DEF at
<1>12. Distinct(out)
  BY <1>9, <1>10 DEF Distinct
<1>13. \A k \in DOMAIN line : line[k] = r => k = i
  BY <1>1 DEF Distinct
<1>14. ASSUME NEW t
       PROVE  t \in ToSet(out) <=> t \in ToSet(line) \ {r}
  <2>1. ASSUME t \in ToSet(out) PROVE t \in ToSet(line) /\ t # r
    <3>1. PICK j \in DOMAIN out : out[j] = t
      BY <2>1, ToSetIs
    <3>2. at(j) \in DOMAIN line /\ at(j) # i /\ line[at(j)] = t
      BY <1>9, <3>1
    <3> QED BY <3>2, <1>13, ToSetIs
  <2>2. ASSUME t \in ToSet(line), t # r PROVE t \in ToSet(out)
    <3>1. PICK k \in DOMAIN line : line[k] = t
      BY <2>2, ToSetIs
    <3>2. k # i
      BY <1>1, <2>2, <3>1
    <3>3. PICK j \in DOMAIN out : at(j) = k
      BY <1>11, <3>2
    <3>4. out[j] = t
      BY <1>9, <3>1, <3>3
    <3> QED BY <3>4, ToSetIs
  <2> QED BY <2>1, <2>2
<1>15. ToSet(out) = ToSet(line) \ {r}
  BY <1>14
<1> QED BY <1>6, <1>12, <1>15 DEF out

(***************************************************************************)
(* The steps of the gate.                                                  *)
(***************************************************************************)

LEMMA InvOf ==
    ASSUME BudgetInv, NEW r \in Requests
    PROVE  /\ req \in [Requests -> Charges]
           /\ req[r] \in Charges
           /\ Stands(req[r])
           /\ Semaphore
           /\ Shares
           /\ req[r].pc # "wait" => r \notin ToSet(sem.waiters)
<1>1. req \in [Requests -> Charges] /\ RequestsStand /\ Semaphore /\ Shares
  BY DEF BudgetInv
<1>2. req[r].pc # "wait" => r \notin ToSet(sem.waiters)
  BY <1>1, NotInLine
<1> QED BY <1>1, <1>2 DEF RequestsStand

LEMMA StepStands ==
    ASSUME BudgetInv, NEW r \in Requests, NEW q \in Charges, Stands(q),
           Step(r, q)
    PROVE  (req \in [Requests -> Charges])' /\ RequestsStand'
<1>1. req \in [Requests -> Charges] /\ RequestsStand
  BY DEF BudgetInv
<1>2. req'[r] = q /\ \A t \in Requests \ {r} : req'[t] = req[t]
  BY <1>1 DEF Step
<1>3. (req \in [Requests -> Charges])'
  BY <1>1 DEF Step
<1> QED BY <1>1, <1>2, <1>3 DEF RequestsStand

\* A request outside the line goes on, and its charges stay.
LEMMA QuietStep ==
    ASSUME BudgetInv, NEW r \in Requests, NEW q \in Charges, Stands(q),
           Step(r, q), held' = held, sem' = sem,
           r \notin ToSet(sem.waiters),
           TakenOf(q, r, sem.waiters) = TakenOf(req[r], r, sem.waiters),
           \/ /\ q.owner = req[r].owner /\ q.share = req[r].share
              /\ SharedOf(q) = SharedOf(req[r])
           \/ SharedOf(q) = 0 /\ SharedOf(req[r]) = 0
    PROVE  BudgetInv'
<1>1. req \in [Requests -> Charges] /\ Semaphore /\ Shares
  BY DEF BudgetInv
<1>2. (req \in [Requests -> Charges])' /\ RequestsStand'
  BY StepStands
<1>3. Semaphore'
  BY <1>1, SemUnmoved
<1>4. Shares'
  BY <1>1, SharesUnmoved
<1> QED BY <1>2, <1>3, <1>4 DEF BudgetInv

\* What a request outside the gate is.
LEMMA IdleCharge ==
    /\ IdleReq \in Charges
    /\ Stands(IdleReq)
    /\ SharedOf(IdleReq) = 0
    /\ \A t, line : TakenOf(IdleReq, t, line) = 0
<1>1. IdleReq \in Charges
  BY DEF IdleReq, Charges, PC
<1>2. Stands(IdleReq)
  BY DEF IdleReq, Stands
<1>3. SharedOf(IdleReq) = 0
  BY DEF IdleReq, SharedOf
<1>4. \A t, line : TakenOf(IdleReq, t, line) = 0
  BY DEF IdleReq, TakenOf
<1> QED BY <1>1, <1>2, <1>3, <1>4

LEMMA ReceiveKeeps ==
    ASSUME BudgetInv, NEW r \in Requests, NEW o \in Owners,
           NEW limit \in BodyLimits, NEW size \in 0 .. limit,
           NEW exact \in BOOLEAN, NEW encoded \in BOOLEAN,
           Receive(r, o, limit, size, exact, encoded)
    PROVE  BudgetInv'
<1> DEFINE allowed == Share(limit, encoded)
           first == Smaller(InitialBuffer, size)
           q == [IdleReq EXCEPT !.pc = "grow", !.owner = o, !.share = allowed,
                                !.size = size, !.exact = exact,
                                !.encoded = encoded, !.ask = first,
                                !.then = "read"]
<1>0. req \in [Requests -> Charges] /\ req[r] \in Charges /\ Stands(req[r])
      /\ r \notin ToSet(sem.waiters) /\ req[r].pc = "idle"
  BY InvOf DEF Receive
<1>1. Step(r, q) /\ held' = held /\ sem' = sem
  BY DEF Step, Receive
<1>2. limit \in Nat /\ size \in Nat /\ InitialBuffer \in Nat /\ Budget \in Nat
      /\ MaxJSON \in Nat
  BY BudgetAssumption
<1>3. allowed \in Nat /\ first \in Nat
  <2>1. Smaller(InitialBuffer, size) \in Nat
    BY <1>2 DEF Smaller
  <2>2. Budget \div 4 \in Nat
    BY <1>2
  <2>3. (IF encoded THEN limit + MaxJSON ELSE limit) \in Nat
    BY <1>2
  <2> QED BY <2>1, <2>2, <2>3 DEF Share, Larger
<1> HIDE DEF allowed, first
<1>4. q.pc = "grow" /\ q.owner = o /\ q.n = 0 /\ q.back = 0 /\ q.then = "read"
  BY DEF IdleReq
<1>5. q \in Charges
  <2>1. IdleReq \in Charges
    BY IdleCharge
  <2> QED BY <1>2, <1>3, <2>1 DEF Charges, PC
<1> HIDE DEF q
<1>6. Stands(q)
  BY <1>4 DEF Stands
<1>7. SharedOf(q) = 0 /\ TakenOf(q, r, sem.waiters) = 0
  BY <1>4 DEF SharedOf, TakenOf
<1>8. SharedOf(req[r]) = 0 /\ TakenOf(req[r], r, sem.waiters) = 0
  BY <1>0 DEF Stands, SharedOf, TakenOf
<1> QED BY <1>0, <1>1, <1>5, <1>6, <1>7, <1>8, QuietStep

LEMMA GrowShareKeeps ==
    ASSUME BudgetInv, NEW r \in Requests, GrowShare(r)
    PROVE  BudgetInv'
<1>0. req \in [Requests -> Charges] /\ req[r] \in Charges /\ Stands(req[r])
      /\ Semaphore /\ Shares
      /\ r \notin ToSet(sem.waiters) /\ req[r].pc = "grow"
  BY InvOf DEF GrowShare
<1>1. CASE HeldBy(req[r].owner) + req[r].ask > req[r].share
  <2> DEFINE q == [req[r] EXCEPT !.pc = "failed", !.ask = 0]
  <2>1. Step(r, q) /\ held' = held /\ sem' = sem
    BY <1>0, <1>1 DEF Step, GrowShare
  <2>2. q \in Charges /\ Stands(q)
    BY <1>0 DEF Charges, Stands, PC
  <2>3. TakenOf(q, r, sem.waiters) = TakenOf(req[r], r, sem.waiters)
        /\ q.owner = req[r].owner /\ q.share = req[r].share
        /\ SharedOf(q) = SharedOf(req[r])
    BY <1>0 DEF Charges, TakenOf, SharedOf
  <2> HIDE DEF q
  <2> QED BY <1>0, <2>1, <2>2, <2>3, QuietStep
<1>2. CASE ~ (HeldBy(req[r].owner) + req[r].ask > req[r].share)
  <2> DEFINE q == [req[r] EXCEPT !.pc = "acquire"]
  <2>1. Step(r, q) /\ held' = MoreHeld(req[r].owner, req[r].ask) /\ sem' = sem
    BY <1>0, <1>2 DEF Step, GrowShare
  <2>2. q \in Charges /\ Stands(q)
    BY <1>0 DEF Charges, Stands, PC
  <2>3. TakenOf(q, r, sem.waiters) = TakenOf(req[r], r, sem.waiters)
        /\ q.owner = req[r].owner /\ q.share = req[r].share
    BY <1>0 DEF Charges, TakenOf
  <2>4. SharedOf(q) = SharedOf(req[r]) + req[r].ask
    BY <1>0 DEF Charges, SharedOf
  <2>5. req[r].owner \in Owners /\ req[r].ask \in Nat /\ req[r].share \in Nat
    BY <1>0 DEF Stands, Charges
  <2>6. HeldBy(req[r].owner) + req[r].ask <= req[r].share
    <3>1. HeldBy(req[r].owner) \in Nat
      BY <1>0 DEF HeldBy, Shares, HeldTyped
    <3> QED BY <1>2, <2>5, <3>1
  <2> HIDE DEF q
  <2>7. (req \in [Requests -> Charges])' /\ RequestsStand'
    BY <2>1, <2>2, StepStands
  <2>8. Semaphore'
    BY <1>0, <2>1, <2>2, <2>3, SemUnmoved
  <2>9. Shares'
    BY <1>0, <2>1, <2>2, <2>3, <2>4, <2>5, <2>6, SharesMore
  <2> QED BY <2>7, <2>8, <2>9 DEF BudgetInv
<1> QED BY <1>1, <1>2

LEMMA BookedStep ==
    ASSUME BudgetInv, NEW r \in Requests, req[r].pc \in {"acquire", "wait"},
           req' = Booked(r),
           NEW q, q = [req[r] EXCEPT !.pc = req[r].then,
                                     !.n = req[r].n + req[r].ask, !.ask = 0]
    PROVE  /\ Step(r, q) /\ q \in Charges /\ Stands(q)
           /\ q.pc \in {"read", "decode"} /\ q.n = req[r].n + req[r].ask
           /\ q.owner = req[r].owner /\ q.share = req[r].share
           /\ SharedOf(q) = SharedOf(req[r])
<1>0. req \in [Requests -> Charges] /\ req[r] \in Charges /\ Stands(req[r])
  BY InvOf
<1>1. Step(r, q)
  BY <1>0 DEF Step, Booked
<1>2. req[r].then \in {"read", "decode"} /\ req[r].back = 0
  BY <1>0 DEF Stands
<1>3. req[r].n \in Nat /\ req[r].ask \in Nat /\ req[r].n + req[r].ask \in Nat
  BY <1>0 DEF Charges
<1>4. q \in Charges
  BY <1>0, <1>2, <1>3 DEF Charges, PC
<1>5. q.pc = req[r].then /\ q.n = req[r].n + req[r].ask /\ q.ask = 0
      /\ q.owner = req[r].owner /\ q.share = req[r].share /\ q.back = req[r].back
      /\ q.then = req[r].then
  BY <1>0 DEF Charges
<1>6. Stands(q)
  BY <1>0, <1>2, <1>5 DEF Stands
<1>7. SharedOf(q) = SharedOf(req[r])
  BY <1>2, <1>3, <1>5 DEF SharedOf
<1> QED BY <1>1, <1>2, <1>4, <1>5, <1>6, <1>7

LEMMA AcquireKeeps ==
    ASSUME BudgetInv, NEW r \in Requests, Acquire(r)
    PROVE  BudgetInv'
<1>0. req \in [Requests -> Charges] /\ req[r] \in Charges /\ Stands(req[r])
      /\ Semaphore /\ Shares
      /\ r \notin ToSet(sem.waiters) /\ req[r].pc = "acquire" /\ held' = held
  BY InvOf DEF Acquire
<1>a. SemTyped /\ LineWaits /\ TakenExact
  BY <1>0 DEF Semaphore
<1>b. sem.waiters \in Seq(Requests) /\ sem.cur \in Nat /\ sem.cur <= Budget
      /\ ToSet(sem.waiters) \subseteq Requests
  BY <1>a, LineInRequests
<1>c. req[r].n \in Nat /\ req[r].ask \in Nat /\ Budget \in Nat
  BY <1>0, BudgetAssumption DEF Charges
<1>d. sem.cur = SumFunctionOnSet(TakenBy(req, sem.waiters), Requests)
  BY <1>a, AllTakenIs DEF TakenExact
<1>1. CASE /\ Acquirable(req[r].ask)
           /\ sem' = [sem EXCEPT !.cur = @ + req[r].ask]
           /\ req' = Booked(r)
  <2>1. PICK q : q = [req[r] EXCEPT !.pc = req[r].then,
                                    !.n = req[r].n + req[r].ask, !.ask = 0]
    OBVIOUS
  <2>2. /\ Step(r, q) /\ q \in Charges /\ Stands(q)
        /\ q.pc \in {"read", "decode"} /\ q.n = req[r].n + req[r].ask
        /\ q.owner = req[r].owner /\ q.share = req[r].share
        /\ SharedOf(q) = SharedOf(req[r])
    BY <1>0, <1>1, <2>1, BookedStep
  <2>3. (req \in [Requests -> Charges])' /\ RequestsStand'
    BY <2>2, StepStands
  <2>4. Shares'
    BY <1>0, <2>2, SharesUnmoved
  <2>5. PICK line : line = sem.waiters
    OBVIOUS
  <2>6. sem'.waiters = line /\ sem'.cur = sem.cur + req[r].ask
        /\ sem'.cur <= Budget /\ line = <<>>
    BY <1>1, <1>a, <2>5 DEF SemTyped, Acquirable
  <2>7. SemTyped'
    <3>1. PICK c : c = sem.cur + req[r].ask
      OBVIOUS
    <3>2. c \in 0 .. Budget
      BY <1>b, <1>c, <2>6, <3>1
    <3>3. sem' = [cur |-> c, waiters |-> line]
      BY <1>1, <1>a, <2>5, <3>1 DEF SemTyped
    <3> QED BY <1>b, <2>5, <3>2, <3>3 DEF SemTyped
  <2>8. LineWaits'
    BY <2>6 DEF LineWaits, Distinct
  <2> DEFINE f == SumFunctionOnSet(TakenBy(req, line), Requests)
             g == SumFunctionOnSet(TakenBy(req', line), Requests)
             x == TakenOf(req[r], r, line)
             y == TakenOf(q, r, line)
  <2>9. f \in Nat /\ g \in Nat /\ g + x = f + y
    <3>1. SameBut(line, line, r)
      BY DEF SameBut
    <3> QED BY <1>0, <2>2, <3>1, TakenMoves
  <2>10. x = req[r].n /\ y = req[r].n + req[r].ask
    BY <1>0, <1>c, <2>2 DEF TakenOf
  <2>11. sem.cur = f
    BY <1>d, <2>5
  <2>12. sem'.cur = g
    <3> DEFINE cur == sem.cur
               cur1 == sem'.cur
               ask == req[r].ask
               n == req[r].n
    <3>1. /\ cur1 = cur + ask /\ cur = f /\ x = n /\ y = n + ask
          /\ g + x = f + y /\ f \in Nat /\ g \in Nat
      BY <2>6, <2>9, <2>10, <2>11, Zenon
    <3>2. n \in Nat /\ ask \in Nat
      BY <1>c
    <3>3. cur1 = g
      <4> HIDE DEF f, g, x, y, cur, cur1, ask, n
      <4> QED BY <3>1, <3>2
    <3> QED BY <3>3
  <2>13. AllTaken' = TakenBy(req', line)
    BY <2>6, Zenon DEF AllTaken, TakenBy, Taken, TakenOf, Waiting
  <2>14. TakenExact'
    BY <2>12, <2>13 DEF TakenExact
  <2> QED BY <2>3, <2>4, <2>7, <2>8, <2>14 DEF BudgetInv, Semaphore
<1>2. CASE /\ ~ Acquirable(req[r].ask)
           /\ sem' = [sem EXCEPT !.waiters = Append(@, r)]
           /\ req' = [req EXCEPT ![r].pc = "wait"]
  <2> DEFINE q == [req[r] EXCEPT !.pc = "wait"]
  <2>1. Step(r, q)
    BY <1>0, <1>2 DEF Step
  <2>2. q \in Charges /\ Stands(q) /\ q.pc = "wait" /\ q.n = req[r].n
    BY <1>0 DEF Charges, Stands, PC
  <2>3. q.owner = req[r].owner /\ q.share = req[r].share
        /\ SharedOf(q) = SharedOf(req[r])
    BY <1>0 DEF Charges, SharedOf
  <2> HIDE DEF q
  <2>4. (req \in [Requests -> Charges])' /\ RequestsStand'
    BY <2>1, <2>2, StepStands
  <2>5. Shares'
    BY <1>0, <2>1, <2>2, <2>3, SharesUnmoved
  <2>6. PICK line : line = sem.waiters
    OBVIOUS
  <2>7. PICK longer : longer = Append(line, r)
    OBVIOUS
  <2>8. sem'.waiters = longer /\ sem'.cur = sem.cur
        /\ sem' = [cur |-> sem.cur, waiters |-> longer]
    BY <1>2, <1>a, <2>6, <2>7 DEF SemTyped
  <2>9. longer \in Seq(Requests) /\ DOMAIN longer = 1 .. (Len(line) + 1)
        /\ longer[Len(line) + 1] = r /\ DOMAIN line = 1 .. Len(line)
        /\ Len(line) \in Nat
        /\ \A i \in 1 .. Len(line) : longer[i] = line[i]
    BY <1>b, <2>6, <2>7
  <2>10. SemTyped'
    BY <1>b, <1>c, <2>8, <2>9 DEF SemTyped
  <2>11. \A i \in DOMAIN longer : i = Len(line) + 1 \/ i \in DOMAIN line
    BY <2>9
  <2>12. \A i \in DOMAIN line : line[i] # r /\ line[i] \in Requests /\ longer[i] = line[i]
         /\ i \in DOMAIN longer
    BY <1>0, <1>b, <2>6, <2>9, ToSetIs
  <2>13. LineWaits'
    <3>1. Distinct(line) /\ \A i \in DOMAIN line : req[line[i]].pc = "wait"
      BY <1>a, <2>6 DEF LineWaits
    <3>2. Distinct(longer)
      BY <2>9, <2>11, <2>12, <3>1 DEF Distinct
    <3>3. \A i \in DOMAIN line : req'[line[i]] = req[line[i]]
      BY <1>0, <2>1, <2>12 DEF Step
    <3>4. req'[r].pc = "wait"
      BY <1>0, <2>1, <2>2 DEF Step
    <3>5. \A i \in DOMAIN longer : req'[longer[i]].pc = "wait"
      BY <2>9, <2>11, <2>12, <3>1, <3>3, <3>4
    <3> QED BY <2>8, <3>2, <3>5 DEF LineWaits
  <2>14. SameBut(line, longer, r) /\ r \in ToSet(longer) /\ r \notin ToSet(line)
    <3>1. \A t : t # r => (t \in ToSet(line) <=> t \in ToSet(longer))
      BY <2>9, <2>11, <2>12, ToSetIs
    <3>2. r \in ToSet(longer)
      BY <2>9, ToSetIs
    <3> QED BY <1>0, <2>6, <3>1, <3>2 DEF SameBut
  <2> DEFINE f == SumFunctionOnSet(TakenBy(req, line), Requests)
             g == SumFunctionOnSet(TakenBy(req', longer), Requests)
             x == TakenOf(req[r], r, line)
             y == TakenOf(q, r, longer)
  <2>15. f \in Nat /\ g \in Nat /\ g + x = f + y
    BY <1>0, <2>1, <2>2, <2>14, TakenMoves
  <2>16. x = req[r].n /\ y = req[r].n
    BY <1>0, <1>c, <2>2, <2>14 DEF TakenOf
  <2>17. sem.cur = f
    BY <1>d, <2>6
  <2>18. sem'.cur = g
    <3> DEFINE cur == sem.cur
               cur1 == sem'.cur
               n == req[r].n
    <3>1. /\ cur1 = cur /\ cur = f /\ x = n /\ y = n
          /\ g + x = f + y /\ f \in Nat /\ g \in Nat
      BY <2>8, <2>15, <2>16, <2>17, Zenon
    <3>2. n \in Nat
      BY <1>c
    <3>3. cur1 = g
      <4> HIDE DEF f, g, x, y, cur, cur1, n
      <4> QED BY <3>1, <3>2
    <3> QED BY <3>3
  <2>19. AllTaken' = TakenBy(req', longer)
    BY <2>8, Zenon DEF AllTaken, TakenBy, Taken, TakenOf, Waiting
  <2>20. TakenExact'
    BY <2>18, <2>19 DEF TakenExact
  <2> QED BY <2>4, <2>5, <2>10, <2>13, <2>20 DEF BudgetInv, Semaphore
<1>3. CASE req' = [req EXCEPT ![r].pc = "unask"] /\ UNCHANGED sem
  <2> DEFINE q == [req[r] EXCEPT !.pc = "unask"]
  <2>1. Step(r, q) /\ sem' = sem
    BY <1>0, <1>3 DEF Step
  <2>2. q \in Charges /\ Stands(q)
    BY <1>0 DEF Charges, Stands, PC
  <2>3. TakenOf(q, r, sem.waiters) = TakenOf(req[r], r, sem.waiters)
        /\ q.owner = req[r].owner /\ q.share = req[r].share
        /\ SharedOf(q) = SharedOf(req[r])
    BY <1>0 DEF Charges, TakenOf, SharedOf
  <2> HIDE DEF q
  <2> QED BY <1>0, <2>1, <2>2, <2>3, QuietStep
<1> QED BY <1>1, <1>2, <1>3 DEF Acquire

LEMMA AcquireGrantedKeeps ==
    ASSUME BudgetInv, NEW r \in Requests, AcquireGranted(r)
    PROVE  BudgetInv'
<1>0. req \in [Requests -> Charges] /\ req[r] \in Charges
      /\ req[r].pc = "wait" /\ r \notin ToSet(sem.waiters) /\ req' = Booked(r)
      /\ held' = held /\ sem' = sem
  BY InvOf DEF AcquireGranted, Waiting
<1>1. PICK q : q = [req[r] EXCEPT !.pc = req[r].then,
                                  !.n = req[r].n + req[r].ask, !.ask = 0]
  OBVIOUS
<1>2. /\ Step(r, q) /\ q \in Charges /\ Stands(q)
      /\ q.pc \in {"read", "decode"} /\ q.n = req[r].n + req[r].ask
      /\ q.owner = req[r].owner /\ q.share = req[r].share
      /\ SharedOf(q) = SharedOf(req[r])
  BY <1>0, <1>1, BookedStep
<1>3. TakenOf(q, r, sem.waiters) = TakenOf(req[r], r, sem.waiters)
  <2>1. req[r].n + req[r].ask \in Nat
    BY <1>0 DEF Charges
  <2> QED BY <1>0, <1>2, <2>1 DEF TakenOf
<1> QED BY <1>0, <1>2, <1>3, QuietStep

LEMMA AcquireEndsKeeps ==
    ASSUME BudgetInv, NEW r \in Requests, AcquireEnds(r)
    PROVE  BudgetInv'
<1>0. req \in [Requests -> Charges] /\ req[r] \in Charges /\ Stands(req[r])
      /\ Semaphore /\ Shares
      /\ req[r].pc = "wait" /\ held' = held
  BY InvOf DEF AcquireEnds
<1> DEFINE q == [req[r] EXCEPT !.pc = "unask"]
<1>1. Step(r, q)
  BY <1>0 DEF Step, AcquireEnds
<1>2. q \in Charges /\ Stands(q) /\ q.pc = "unask" /\ q.n = req[r].n
  BY <1>0 DEF Charges, Stands, PC
<1>3. q.owner = req[r].owner /\ q.share = req[r].share
      /\ SharedOf(q) = SharedOf(req[r])
  BY <1>0 DEF Charges, SharedOf
<1> HIDE DEF q
<1>4. (req \in [Requests -> Charges])' /\ RequestsStand'
  BY <1>1, <1>2, StepStands
<1>5. Shares'
  BY <1>0, <1>1, <1>2, <1>3, SharesUnmoved
<1>c. req[r].n \in Nat /\ req[r].ask \in Nat
  BY <1>0 DEF Charges
<1>6. CASE r \notin ToSet(sem.waiters)
  <2>1. sem' = SemRelease(req[r].ask)
    BY <1>6 DEF AcquireEnds, Waiting
  <2>2. TakenOf(q, r, sem.waiters) + req[r].ask = TakenOf(req[r], r, sem.waiters)
    BY <1>0, <1>2, <1>6, <1>c DEF TakenOf
  <2>3. Semaphore'
    BY <1>0, <1>1, <1>2, <1>6, <1>c, <2>1, <2>2, SemReleased
  <2> QED BY <1>4, <1>5, <2>3 DEF BudgetInv
<1>7. CASE r \in ToSet(sem.waiters)
  <2>a. SemTyped /\ LineWaits /\ TakenExact
    BY <1>0 DEF Semaphore
  <2>b. sem.waiters \in Seq(Requests) /\ sem.cur \in Nat /\ sem.cur <= Budget
        /\ ToSet(sem.waiters) \subseteq Requests
    BY <2>a, LineInRequests
  <2>1. PICK i : i = CHOOSE j \in DOMAIN sem.waiters : sem.waiters[j] = r
    OBVIOUS
  <2>2. i \in DOMAIN sem.waiters /\ sem.waiters[i] = r
    <3>1. \E j \in DOMAIN sem.waiters : sem.waiters[j] = r
      BY <1>7, ToSetIs
    <3> QED BY <2>1, <3>1
  <2>3. PICK line : line = sem.waiters
    OBVIOUS
  <2>4. PICK left : left = RemoveAt(line, i)
    OBVIOUS
  <2>5. sem' = Notify(sem.cur, left)
    BY <1>7, <2>1, <2>3, <2>4, Zenon DEF AcquireEnds, Waiting, LineWithout
  <2>6. line \in Seq(Requests) /\ Distinct(line) /\ i \in DOMAIN line /\ line[i] = r
    BY <2>a, <2>b, <2>2, <2>3 DEF LineWaits
  <2>7. left \in Seq(Requests) /\ Distinct(left) /\ ToSet(left) = ToSet(line) \ {r}
    BY <2>4, <2>6, OutOfLine
  <2>8. SameBut(line, left, r) /\ r \notin ToSet(left) /\ r \in ToSet(line)
    BY <1>7, <2>3, <2>7 DEF SameBut
  <2> DEFINE f == SumFunctionOnSet(TakenBy(req, line), Requests)
             g == SumFunctionOnSet(TakenBy(req', left), Requests)
             x == TakenOf(req[r], r, line)
             y == TakenOf(q, r, left)
  <2>9. f \in Nat /\ g \in Nat /\ g + x = f + y
    BY <1>0, <1>1, <1>2, <2>8, TakenMoves
  <2>10. x = req[r].n /\ y = req[r].n
    BY <1>c, <1>2, <2>8 DEF TakenOf
  <2>11. sem.cur = f
    BY <2>a, <2>3, AllTakenIs DEF TakenExact
  <2> HIDE DEF f, g, x, y
  <2>12. PICK c : c = sem.cur
    OBVIOUS
  <2>13. c = g /\ c \in Nat /\ c <= Budget
    BY <1>c, <2>b, <2>9, <2>10, <2>11, <2>12
  <2>14. c = SumFunctionOnSet(TakenBy(req', left), Requests)
    BY <2>13 DEF g
  <2>15. \A t \in ToSet(left) : req'[t] = req[t] /\ req[t].pc = "wait"
    <3>1. \A t \in ToSet(left) : t # r /\ t \in Requests /\ t \in ToSet(line)
      BY <2>b, <2>3, <2>7
    <3>2. \A t \in ToSet(line) : req[t].pc = "wait"
      BY <2>a, <2>3, ToSetIs DEF LineWaits
    <3> QED BY <1>0, <1>1, <3>1, <3>2 DEF Step
  <2>16. sem' = Notify(c, left)
    BY <2>5, <2>12
  <2>17. Semaphore'
    BY <1>0, <1>4, <2>7, <2>13, <2>14, <2>15, <2>16, NotifyKeeps
  <2> QED BY <1>4, <1>5, <2>17 DEF BudgetInv
<1> QED BY <1>6, <1>7

LEMMA GrowUndoneKeeps ==
    ASSUME BudgetInv, NEW r \in Requests, GrowUndone(r)
    PROVE  BudgetInv'
<1>0. req \in [Requests -> Charges] /\ req[r] \in Charges /\ Stands(req[r])
      /\ Semaphore /\ Shares /\ r \notin ToSet(sem.waiters)
      /\ req[r].pc = "unask" /\ sem' = sem
      /\ held' = LessHeld(req[r].owner, req[r].ask)
  BY InvOf DEF GrowUndone
<1> DEFINE q == [req[r] EXCEPT !.pc = "failed", !.ask = 0]
<1>1. Step(r, q)
  BY <1>0 DEF Step, GrowUndone
<1>2. q \in Charges /\ Stands(q)
  BY <1>0 DEF Charges, Stands, PC
<1>3. q.owner = req[r].owner /\ q.share = req[r].share
      /\ TakenOf(q, r, sem.waiters) = TakenOf(req[r], r, sem.waiters)
  BY <1>0 DEF Charges, TakenOf
<1>4. SharedOf(q) + req[r].ask = SharedOf(req[r])
  BY <1>0 DEF Charges, SharedOf
<1>5. req[r].owner \in Owners /\ req[r].ask \in Nat
  BY <1>0 DEF Stands, Charges
<1> HIDE DEF q
<1>6. (req \in [Requests -> Charges])' /\ RequestsStand'
  BY <1>1, <1>2, StepStands
<1>7. Semaphore'
  BY <1>0, <1>1, <1>2, <1>3, SemUnmoved
<1>8. Shares'
  BY <1>0, <1>1, <1>2, <1>3, <1>4, <1>5, SharesLess
<1> QED BY <1>6, <1>7, <1>8 DEF BudgetInv

LEMMA ShrinkKeeps ==
    ASSUME BudgetInv, NEW r \in Requests, NEW keep \in Nat, NEW then,
           req[r].pc \in {"decode", "serve", "failed"},
           \/ then = "serve"
           \/ then = "idle" /\ keep = 0,
           Shrink(r, keep, then)
    PROVE  BudgetInv'
<1>0. req \in [Requests -> Charges] /\ req[r] \in Charges /\ Stands(req[r])
      /\ Semaphore /\ Shares /\ r \notin ToSet(sem.waiters)
  BY InvOf
<1>1. req[r].n > keep /\ held' = held /\ sem' = SemRelease(req[r].n - keep)
  BY DEF Shrink
<1>2. req[r].n \in Nat /\ req[r].back = 0
  BY <1>0 DEF Charges, Stands
<1>3. PICK n : n = req[r].n - keep
  OBVIOUS
<1>4. n \in Nat /\ keep + n = req[r].n
  BY <1>1, <1>2, <1>3
<1> DEFINE q == [req[r] EXCEPT !.pc = "unshare", !.back = n, !.n = keep,
                               !.then = then]
<1>5. Step(r, q)
  BY <1>0, <1>3 DEF Step, Shrink
<1>6. q \in Charges
  BY <1>0, <1>4 DEF Charges, PC
<1>7. q.pc = "unshare" /\ q.back = n /\ q.n = keep /\ q.then = then
      /\ q.owner = req[r].owner /\ q.share = req[r].share
  BY <1>0 DEF Charges
<1> HIDE DEF q
<1>8. Stands(q)
  BY <1>0, <1>7 DEF Stands
<1>9. SharedOf(q) = SharedOf(req[r])
  BY <1>2, <1>4, <1>7 DEF SharedOf
<1>10. TakenOf(q, r, sem.waiters) + n = TakenOf(req[r], r, sem.waiters)
  BY <1>2, <1>4, <1>7 DEF TakenOf
<1>11. (req \in [Requests -> Charges])' /\ RequestsStand'
  BY <1>5, <1>6, <1>8, StepStands
<1>12. Semaphore'
  <2>1. sem' = SemRelease(n)
    BY <1>1, <1>3
  <2> QED BY <1>0, <1>4, <1>5, <1>6, <1>10, <2>1, SemReleased
<1>13. Shares'
  BY <1>0, <1>1, <1>5, <1>6, <1>7, <1>9, SharesUnmoved
<1> QED BY <1>11, <1>12, <1>13 DEF BudgetInv

LEMMA UnshareKeeps ==
    ASSUME BudgetInv, NEW r \in Requests, Unshare(r)
    PROVE  BudgetInv'
<1>0. req \in [Requests -> Charges] /\ req[r] \in Charges /\ Stands(req[r])
      /\ Semaphore /\ Shares /\ r \notin ToSet(sem.waiters)
      /\ req[r].pc = "unshare" /\ sem' = sem
      /\ held' = LessHeld(req[r].owner, req[r].back)
  BY InvOf DEF Unshare
<1>1. req[r].owner \in Owners /\ req[r].back \in Nat /\ req[r].n \in Nat
      /\ req[r].then \in {"idle", "serve"}
      /\ (req[r].then = "idle" => req[r].n = 0)
  BY <1>0 DEF Stands, Charges
<1>2. ASSUME NEW q \in Charges, Step(r, q), Stands(q),
             TakenOf(q, r, sem.waiters) = TakenOf(req[r], r, sem.waiters),
             SharedOf(q) + req[r].back = SharedOf(req[r]),
             \/ q.owner = req[r].owner /\ q.share = req[r].share
             \/ SharedOf(q) = 0
      PROVE  BudgetInv'
  <2>1. (req \in [Requests -> Charges])' /\ RequestsStand'
    BY <1>2, StepStands
  <2>2. Semaphore'
    BY <1>0, <1>2, SemUnmoved
  <2>3. Shares'
    BY <1>0, <1>1, <1>2, SharesLess
  <2> QED BY <2>1, <2>2, <2>3 DEF BudgetInv
<1>3. CASE req[r].then = "idle"
  <2>1. Step(r, IdleReq)
    BY <1>0, <1>3 DEF Step, Unshare
  <2>2. TakenOf(req[r], r, sem.waiters) = 0 /\ SharedOf(req[r]) = req[r].back
    BY <1>0, <1>1, <1>3 DEF TakenOf, SharedOf
  <2> QED BY <1>1, <1>2, <2>1, <2>2, IdleCharge
<1>4. CASE req[r].then = "serve"
  <2> DEFINE q == [req[r] EXCEPT !.pc = "serve", !.back = 0]
  <2>1. Step(r, q)
    BY <1>0, <1>4 DEF Step, Unshare
  <2>2. q \in Charges /\ Stands(q)
    BY <1>0 DEF Charges, Stands, PC
  <2>3. q.owner = req[r].owner /\ q.share = req[r].share
        /\ TakenOf(q, r, sem.waiters) = TakenOf(req[r], r, sem.waiters)
    BY <1>0 DEF Charges, TakenOf
  <2>4. SharedOf(q) + req[r].back = SharedOf(req[r])
    BY <1>0 DEF Charges, SharedOf
  <2> HIDE DEF q
  <2> QED BY <1>2, <2>1, <2>2, <2>3, <2>4
<1> QED BY <1>1, <1>3, <1>4

LEMMA GrowBufferKeeps ==
    ASSUME BudgetInv, NEW r \in Requests, GrowBuffer(r)
    PROVE  BudgetInv'
<1>0. req \in [Requests -> Charges] /\ req[r] \in Charges /\ Stands(req[r])
      /\ r \notin ToSet(sem.waiters) /\ req[r].pc = "read"
      /\ held' = held /\ sem' = sem /\ req[r].n < req[r].size
  BY InvOf DEF GrowBuffer
<1>1. PICK more : more = Smaller(2 * req[r].n, req[r].size) - req[r].n
  OBVIOUS
<1>2. more \in Nat
  <2>1. req[r].n \in Nat /\ req[r].size \in Nat
    BY <1>0 DEF Charges
  <2> QED BY <1>0, <1>1, <2>1 DEF Smaller
<1> DEFINE q == [req[r] EXCEPT !.pc = "grow", !.ask = more]
<1>3. Step(r, q)
  BY <1>0, <1>1 DEF Step, GrowBuffer
<1>4. q \in Charges /\ Stands(q)
  BY <1>0, <1>2 DEF Charges, Stands, PC
<1>5. TakenOf(q, r, sem.waiters) = TakenOf(req[r], r, sem.waiters)
      /\ q.owner = req[r].owner /\ q.share = req[r].share
      /\ SharedOf(q) = SharedOf(req[r])
  BY <1>0 DEF Charges, TakenOf, SharedOf
<1> HIDE DEF q
<1> QED BY <1>0, <1>3, <1>4, <1>5, QuietStep

LEMMA BodyReadKeeps ==
    ASSUME BudgetInv, NEW r \in Requests, BodyRead(r)
    PROVE  BudgetInv'
<1>0. req \in [Requests -> Charges] /\ req[r] \in Charges /\ Stands(req[r])
      /\ r \notin ToSet(sem.waiters) /\ req[r].pc = "read"
      /\ held' = held /\ sem' = sem
  BY InvOf DEF BodyRead
<1>1. ASSUME NEW q \in Charges, Step(r, q), Stands(q), q.pc \in {"grow", "serve"},
             q.n = req[r].n, q.back = req[r].back, q.owner = req[r].owner,
             q.share = req[r].share
      PROVE  BudgetInv'
  <2>1. TakenOf(q, r, sem.waiters) = TakenOf(req[r], r, sem.waiters)
        /\ SharedOf(q) = SharedOf(req[r])
    BY <1>0, <1>1 DEF TakenOf, SharedOf
  <2> QED BY <1>0, <1>1, <2>1, QuietStep
<1>2. CASE req[r].encoded
  <2> DEFINE q == [req[r] EXCEPT !.pc = "grow", !.ask = MaxJSON, !.then = "decode"]
  <2>1. Step(r, q)
    BY <1>0, <1>2 DEF Step, BodyRead
  <2>2. MaxJSON \in Nat
    BY BudgetAssumption
  <2>3. q \in Charges /\ Stands(q)
    BY <1>0, <2>2 DEF Charges, Stands, PC
  <2>4. q.pc = "grow" /\ q.n = req[r].n /\ q.back = req[r].back
        /\ q.owner = req[r].owner /\ q.share = req[r].share
    BY <1>0 DEF Charges
  <2> HIDE DEF q
  <2> QED BY <1>1, <2>1, <2>3, <2>4
<1>3. CASE ~ req[r].encoded
  <2> DEFINE q == [req[r] EXCEPT !.pc = "serve"]
  <2>1. Step(r, q)
    BY <1>0, <1>3 DEF Step, BodyRead
  <2>2. q \in Charges /\ Stands(q)
    BY <1>0 DEF Charges, Stands, PC
  <2>3. q.pc = "serve" /\ q.n = req[r].n /\ q.back = req[r].back
        /\ q.owner = req[r].owner /\ q.share = req[r].share
    BY <1>0 DEF Charges
  <2> HIDE DEF q
  <2> QED BY <1>1, <2>1, <2>2, <2>3
<1> QED BY <1>2, <1>3

\* A request that only goes on to be served or to answer an error.
LEMMA OnwardKeeps ==
    ASSUME BudgetInv, NEW r \in Requests, NEW pc \in {"serve", "failed"},
           req[r].pc \in {"read", "decode"},
           req' = [req EXCEPT ![r].pc = pc], held' = held, sem' = sem
    PROVE  BudgetInv'
<1>0. req \in [Requests -> Charges] /\ req[r] \in Charges /\ Stands(req[r])
      /\ r \notin ToSet(sem.waiters)
  BY InvOf
<1> DEFINE q == [req[r] EXCEPT !.pc = pc]
<1>1. Step(r, q)
  BY <1>0 DEF Step
<1>2. q \in Charges /\ Stands(q)
  BY <1>0 DEF Charges, Stands, PC
<1>3. TakenOf(q, r, sem.waiters) = TakenOf(req[r], r, sem.waiters)
      /\ q.owner = req[r].owner /\ q.share = req[r].share
      /\ SharedOf(q) = SharedOf(req[r])
  BY <1>0 DEF Charges, TakenOf, SharedOf
<1> HIDE DEF q
<1> QED BY <1>0, <1>1, <1>2, <1>3, QuietStep

LEMMA DecodedKeeps ==
    ASSUME BudgetInv, NEW r \in Requests, NEW keep \in 0 .. 2 * MaxJSON,
           Decoded(r, keep)
    PROVE  BudgetInv'
<1>0. keep \in Nat /\ req[r].pc = "decode"
  BY BudgetAssumption DEF Decoded
<1>1. CASE Shrink(r, keep, "serve")
  BY <1>0, <1>1, ShrinkKeeps
<1>2. CASE req' = [req EXCEPT ![r].pc = "serve"] /\ UNCHANGED <<held, sem>>
  BY <1>0, <1>2, OnwardKeeps
<1> QED BY <1>1, <1>2 DEF Decoded

LEMMA BodyFailsKeeps ==
    ASSUME BudgetInv, NEW r \in Requests, BodyFails(r)
    PROVE  BudgetInv'
  BY OnwardKeeps DEF BodyFails

LEMMA ReturnKeeps ==
    ASSUME BudgetInv, NEW r \in Requests, Return(r)
    PROVE  BudgetInv'
<1>0. req \in [Requests -> Charges] /\ req[r] \in Charges /\ Stands(req[r])
      /\ r \notin ToSet(sem.waiters) /\ req[r].pc \in {"serve", "failed"}
  BY InvOf DEF Return
<1>1. CASE Shrink(r, 0, "idle")
  BY <1>0, <1>1, ShrinkKeeps
<1>2. CASE /\ req[r].n = 0
           /\ req' = [req EXCEPT ![r] = IdleReq]
           /\ UNCHANGED <<held, sem>>
  <2>1. Step(r, IdleReq)
    BY <1>2 DEF Step
  <2>2. TakenOf(req[r], r, sem.waiters) = 0 /\ SharedOf(req[r]) = 0
    BY <1>0, <1>2 DEF Stands, TakenOf, SharedOf
  <2> QED BY <1>0, <1>2, <2>1, <2>2, IdleCharge, QuietStep
<1> QED BY <1>1, <1>2 DEF Return

LEMMA InitBudget == Init => BudgetInv
<1> SUFFICES ASSUME Init PROVE BudgetInv
  OBVIOUS
<1>0. IsFiniteSet(Requests) /\ Budget \in Nat
  BY BudgetAssumption
<1>1. \A r \in Requests : req[r] = IdleReq
  BY DEF Init
<1>2. req \in [Requests -> Charges] /\ RequestsStand
  BY <1>1, IdleCharge DEF Init, RequestsStand
<1>3. \A f : (\A r \in Requests : f[r] = 0) => SumFunctionOnSet(f, Requests) = 0
  <2> SUFFICES ASSUME NEW f, \A r \in Requests : f[r] = 0
               PROVE  SumFunctionOnSet(f, Requests) = 0
    OBVIOUS
  <2>1. Nats(f, Requests) /\ {} \in SUBSET Requests
        /\ \A x \in {} : f[x] = f[x]
    BY DEF Nats
  <2>2. SumFunctionOnSet(f, {}) = SumFunctionOnSet(f, Requests)
    BY <1>0, <2>1, SumPart
  <2> QED BY <2>2, SumEmpty
<1>4. SemTyped /\ sem.cur = 0 /\ sem.waiters = <<>>
  BY <1>0 DEF Init, SemTyped
<1>5. LineWaits
  BY <1>4 DEF LineWaits, Distinct
<1>6. TakenExact
  <2>1. \A r \in Requests : TakenBy(req, sem.waiters)[r] = 0
    BY <1>1, IdleCharge DEF TakenBy
  <2> QED BY <1>3, <1>4, <2>1, AllTakenIs DEF TakenExact
<1>7. HeldTyped /\ \A o \in Owners : HeldBy(o) = 0
  BY DEF Init, HeldTyped, HeldBy
<1>8. SharedExact
  <2>1. \A o \in Owners : \A r \in Requests : AllShared(o)[r] = 0
    BY <1>1, IdleCharge DEF AllShared, Part
  <2> QED BY <1>3, <1>7, <2>1 DEF SharedExact
<1>9. LevelsKept
  <2> SUFFICES ASSUME NEW o \in Owners, NEW level \in Nat
               PROVE  SumFunctionOnSet(SharedAt(o, level), Requests) <= level
    BY DEF LevelsKept
  <2>1. \A r \in Requests : SharedAt(o, level)[r] = 0
    BY <1>1, IdleCharge DEF SharedAt, PartAt
  <2>2. SumFunctionOnSet(SharedAt(o, level), Requests) = 0
    BY <1>3, <2>1
  <2> QED BY <2>2
<1> QED BY <1>2, <1>4, <1>5, <1>6, <1>7, <1>8, <1>9 DEF BudgetInv, Semaphore, Shares

LEMMA NextBudget == BudgetInv /\ [Next]_vars => BudgetInv'
<1> SUFFICES ASSUME BudgetInv, [Next]_vars PROVE BudgetInv'
  OBVIOUS
<1>1. CASE UNCHANGED vars
  <2>1. held' = held /\ sem' = sem /\ req' = req
    BY <1>1 DEF vars
  <2>2. Shares'
    BY <2>1 DEF BudgetInv, Shares, HeldTyped, SharedExact, HeldBy, AllShared,
                LevelsKept, SharedAt
  <2>3. Semaphore'
    BY <2>1 DEF BudgetInv, Semaphore, SemTyped, LineWaits, TakenExact, AllTaken,
                Taken, Waiting
  <2> QED BY <2>1, <2>2, <2>3 DEF BudgetInv, RequestsStand
<1>2. ASSUME NEW r \in Requests, NEW o \in Owners, NEW limit \in BodyLimits,
             NEW exact \in BOOLEAN, NEW encoded \in BOOLEAN,
             NEW size \in 0 .. limit, Receive(r, o, limit, size, exact, encoded)
      PROVE  BudgetInv'
  BY <1>2, ReceiveKeeps
<1>3. ASSUME NEW r \in Requests, GateStep(r) PROVE BudgetInv'
  <2>1. CASE GrowShare(r)
    BY <2>1, GrowShareKeeps
  <2>2. CASE Acquire(r)
    BY <2>2, AcquireKeeps
  <2>3. CASE AcquireGranted(r)
    BY <2>3, AcquireGrantedKeeps
  <2>4. CASE AcquireEnds(r)
    BY <2>4, AcquireEndsKeeps
  <2>5. CASE GrowUndone(r)
    BY <2>5, GrowUndoneKeeps
  <2>6. CASE Unshare(r)
    BY <2>6, UnshareKeeps
  <2>7. CASE GrowBuffer(r)
    BY <2>7, GrowBufferKeeps
  <2>8. CASE BodyRead(r)
    BY <2>8, BodyReadKeeps
  <2>9. ASSUME NEW keep \in 0 .. 2 * MaxJSON, Decoded(r, keep) PROVE BudgetInv'
    BY <2>9, DecodedKeeps
  <2>10. CASE BodyFails(r)
    BY <2>10, BodyFailsKeeps
  <2> QED BY <1>3, <2>1, <2>2, <2>3, <2>4, <2>5, <2>6, <2>7, <2>8, <2>9, <2>10
          DEF GateStep
<1>4. ASSUME NEW r \in Requests, Return(r) PROVE BudgetInv'
  BY <1>4, ReturnKeeps
<1> QED BY <1>1, <1>2, <1>3, <1>4 DEF Next

LEMMA InvExact == BudgetInv => ChargesExact
<1> SUFFICES ASSUME BudgetInv PROVE ChargesExact
  OBVIOUS
<1>0. IsFiniteSet(Requests) /\ Budget \in Nat
  BY BudgetAssumption
<1>1. req \in [Requests -> Charges] /\ SemTyped /\ TakenExact
      /\ SharedExact /\ LevelsKept
  BY DEF BudgetInv, Semaphore, Shares
<1>2. BudgetAccounted
  <2>1. SumFunction([r \in Requests |-> Taken(r)])
          = SumFunctionOnSet(AllTaken, Requests)
    BY Zenon DEF SumFunction, AllTaken
  <2>2. sem.cur <= Budget
    BY <1>1, LineInRequests
  <2> QED BY <1>1, <2>1, <2>2 DEF BudgetAccounted, TakenExact
<1>3. \A t \in Requests : Shared(t) = SharedOf(req[t]) /\ SharedOf(req[t]) \in Nat
  <2>1. \A t \in Requests : Shared(t) = SharedOf(req[t])
    BY Zenon DEF Shared, SharedOf
  <2> QED BY <1>1, <2>1, ChargeTypes
<1>4. ASSUME NEW f, NEW A \in SUBSET Requests, Nats(f, Requests),
             \A t \in A : f[t] = Shared(t), \A t \in Requests \ A : f[t] = 0
      PROVE  SumFunction([t \in A |-> Shared(t)]) = SumFunctionOnSet(f, Requests)
  <2> DEFINE g == [t \in A |-> Shared(t)]
  <2>1. DOMAIN g = A /\ \A t \in A : g[t] = f[t]
    BY <1>4
  <2> HIDE DEF g
  <2>2. SumFunctionOnSet(g, A) = SumFunctionOnSet(f, Requests)
    BY <1>0, <1>4, <2>1, SumPart
  <2>3. SumFunction(g) = SumFunctionOnSet(g, A)
    BY <2>1, Zenon DEF SumFunction
  <2> QED BY <2>2, <2>3 DEF g
<1>5. SharesAccounted
  <2> SUFFICES ASSUME NEW o \in Owners
               PROVE  HeldBy(o) = SumFunction([r \in Of(o) |-> Shared(r)])
    BY DEF SharesAccounted
  <2>1. Of(o) \in SUBSET Requests
        /\ \A t \in Requests : t \in Of(o) <=> req[t].owner = o
    BY DEF Of
  <2>2. \A t \in Requests :
           AllShared(o)[t] = IF req[t].owner = o THEN SharedOf(req[t]) ELSE 0
    BY DEF AllShared, Part
  <2>3. Nats(AllShared(o), Requests)
        /\ (\A t \in Of(o) : AllShared(o)[t] = Shared(t))
        /\ (\A t \in Requests \ Of(o) : AllShared(o)[t] = 0)
    BY <1>3, <2>1, <2>2 DEF Nats
  <2>4. SumFunction([t \in Of(o) |-> Shared(t)])
          = SumFunctionOnSet(AllShared(o), Requests)
    <3>1. PICK A : A = Of(o)
      OBVIOUS
    <3>2. PICK f : f = AllShared(o)
      OBVIOUS
    <3>3. SumFunction([t \in A |-> Shared(t)]) = SumFunctionOnSet(f, Requests)
      BY <1>4, <2>1, <2>3, <3>1, <3>2
    <3> QED BY <3>1, <3>2, <3>3, Zenon
  <2> QED BY <1>1, <2>4 DEF SharedExact
<1>6. ShareRespected
  <2> SUFFICES ASSUME NEW o \in Owners, NEW r \in Of(o)
               PROVE  SumFunction([s \in {s \in Of(o) : req[s].share <= req[r].share}
                                    |-> Shared(s)]) <= req[r].share
    BY Zenon DEF ShareRespected
  <2>1. PICK level : level = req[r].share
    OBVIOUS
  <2>2. level \in Nat
    BY <1>1, <2>1 DEF Of, Charges
  <2>3. PICK A : A = {s \in Of(o) : req[s].share <= level}
    OBVIOUS
  <2>4. A \in SUBSET Requests
        /\ \A t \in Requests : t \in A <=> req[t].owner = o /\ req[t].share <= level
    BY <2>3 DEF Of
  <2>5. PICK f : f = SharedAt(o, level)
    OBVIOUS
  <2>6. \A t \in Requests :
           f[t] = IF req[t].owner = o /\ req[t].share <= level
                  THEN SharedOf(req[t]) ELSE 0
    BY <2>5 DEF SharedAt, PartAt
  <2>7. Nats(f, Requests)
        /\ (\A t \in A : f[t] = Shared(t))
        /\ (\A t \in Requests \ A : f[t] = 0)
    BY <1>3, <2>4, <2>6 DEF Nats
  <2>8. SumFunction([t \in A |-> Shared(t)]) = SumFunctionOnSet(f, Requests)
    BY <1>4, <2>4, <2>7
  <2>9. SumFunctionOnSet(f, Requests) <= level
    BY <1>1, <2>2, <2>5 DEF LevelsKept
  <2>10. SumFunction([t \in A |-> Shared(t)]) <= level
    BY <2>8, <2>9
  <2> QED BY <2>1, <2>3, <2>10, Zenon
<1> QED BY <1>2, <1>5, <1>6 DEF ChargesExact

\* The types of the budget's accounts and of the requests' charges.
THEOREM BudgetTyped == Spec => []TypeOK
<1>1. BudgetInv => TypeOK
  BY DEF BudgetInv, TypeOK, Charges, Semaphore, SemTyped, Shares, HeldTyped
<1> QED BY <1>1, InitBudget, NextBudget, PTL DEF Spec

\* For any number of owners and of requests, whatever they charge, wait for,
\* give up and give back in whatever order: the semaphore holds exactly what
\* the requests hold and never passes the budget, every owner is charged
\* exactly what the owner's requests hold, and no request's allowance is
\* passed by those that may hold no more than it.
THEOREM ChargesAlwaysExact == Spec => []ChargesExact
  BY InitBudget, NextBudget, InvExact, PTL DEF Spec

(***************************************************************************)
(* The stop.                                                               *)
(***************************************************************************)

\* How far the stop has come bounds what the drain found: it goes on to stop
\* the service with no request left, or with an error to report, and leaves a
\* service that is not stopped to Run only with an error.  Until then Run has
\* returned only by itself.
StopStages ==
    /\ main = "settle" => idle = "closed"
    /\ main = "stop_service" => (idle = "closed" \/ drained = "error")
    /\ main \in {"bind", "serving", "wait_reload", "wait_idle", "settle",
                 "stop_service"} =>
           svc # "stopped" /\ (svc = "returned" => runErr # "nil")
    /\ main \in {"cancel_run", "wait_run"} =>
           (svc \in {"stopped", "returned"} \/ cause)
    /\ main \in {"cancel_run", "wait_run"} =>
           (idle = "closed" \/ cause \/ (svc = "returned" /\ runErr # "nil"))
    /\ (main = "wait_rest" \/ sink = "draining") =>
           (idle = "closed" \/ cause \/ runErr = "quit")
    /\ main \in {"wait_rest", "sink"} => svc = "returned"
    /\ sink = "draining" => main \in {"sink", "exit"}
    /\ main \in {"bind", "serving"} => cut = {}
    /\ cut # {} => cause

\* What the stop waited for before the sink, and what a listener that shut
\* down in time leaves behind.
WaitedFor ==
    /\ sink = "draining" =>
           /\ svc = "returned"
           /\ catalog = "done"
           /\ \A l \in Listeners : listener[l] \in {"down", "forced"}
    /\ \A l \in handling : listener[l] # "down"

\* The inductive invariant.
StopInv == StopTypeOK /\ IdleIsExact /\ StopStages /\ WaitedFor

LEMMA InitStop == StopInit => StopInv
<1> SUFFICES ASSUME StopInit PROVE StopInv
  OBVIOUS
<1>1. InChain = {}
  BY DEF StopInit, InChain
<1> QED
  BY <1>1, FS_EmptySet
     DEF StopInit, StopInv, StopTypeOK, IdleIsExact, StopStages,
         WaitedFor,
         ReqState, SvcState, ListenerState, MainPC, InChain

\* A step that leaves the requests and the drain as they are keeps the count.
LEMMA DrainUntouched ==
    ASSUME IdleIsExact, UNCHANGED <<proxied, inFlight, idle>>
    PROVE  IdleIsExact'
  BY DEF IdleIsExact, InChain

LEMMA StepStop ==
    StopInv /\ [StopNext]_stopVars => StopInv'
<1> SUFFICES ASSUME StopInv, [StopNext]_stopVars PROVE StopInv'
  OBVIOUS
<1> USE DEF StopInv
<1>0. IsFiniteSet(InChain)
  BY ProxiedAssumption, FS_Subset DEF InChain
<1>1. ASSUME NEW r \in Proxied, Arrive(r) PROVE StopInv'
  <2>1. InChain' = InChain
    BY <1>1 DEF Arrive, InChain, StopTypeOK
  <2>2. IdleIsExact'
    BY <1>1, <2>1 DEF Arrive, IdleIsExact
  <2> QED
    BY <1>1, <2>2 DEF Arrive, StopTypeOK, StopStages, WaitedFor,
                      ReqState, service, stages
<1>2. ASSUME NEW r \in Proxied, Enter(r) PROVE StopInv'
  <2>1. CASE idle # "nil"
    <3>1. InChain' = InChain
      BY <1>2, <2>1 DEF Enter, InChain, StopTypeOK
    <3>2. IdleIsExact'
      BY <1>2, <2>1, <3>1 DEF Enter, IdleIsExact
    <3> QED
      BY <1>2, <2>1, <3>2 DEF Enter, StopTypeOK, StopStages,
            WaitedFor, ReqState, service, stages
  <2>2. CASE idle = "nil"
    <3>1. InChain' = InChain \cup {r} /\ r \notin InChain
      BY <1>2, <2>2 DEF Enter, InChain, StopTypeOK
    <3>2. Cardinality(InChain') = Cardinality(InChain) + 1
      BY <3>1, <1>0, FS_AddElement
    <3>3. IdleIsExact'
      BY <1>2, <2>2, <3>1, <3>2 DEF Enter, IdleIsExact
    <3> QED
      BY <1>2, <2>2, <3>3 DEF Enter, StopTypeOK, StopStages,
            WaitedFor, ReqState, service, stages
  <2> QED
    BY <2>1, <2>2
<1>3. ASSUME NEW r \in Proxied, Leave(r) PROVE StopInv'
  <2>1. InChain' = InChain \ {r} /\ r \in InChain
    BY <1>3 DEF Leave, InChain, StopTypeOK
  <2>2. Cardinality(InChain') = Cardinality(InChain) - 1
        /\ Cardinality(InChain) \in Nat
    BY <2>1, <1>0, FS_RemoveElement, FS_CardinalityType
  <2>3. IsFiniteSet(InChain')
    BY <2>1, <1>0, FS_Subset
  <2>4. Cardinality(InChain') \in Nat
        /\ (Cardinality(InChain') = 0 <=> InChain' = {})
    BY <2>3, FS_CardinalityType, FS_EmptySet
  <2>5. inFlight' = Cardinality(InChain')
    BY <1>3, <2>2 DEF Leave, IdleIsExact
  <2>6. idle # "closed" /\ idle # "panic"
    BY <2>1 DEF IdleIsExact
  <2>7. IdleIsExact'
    BY <1>3, <2>4, <2>5, <2>6 DEF Leave, Closed, IdleIsExact, StopTypeOK
  <2>8. StopTypeOK'
    BY <1>3, <2>4, <2>5, <2>6
       DEF Leave, Closed, StopTypeOK, ReqState, service, stages
  <2>9. StopStages' /\ WaitedFor'
    BY <1>3, <2>6 DEF Leave, StopStages, WaitedFor,
                      service, stages
  <2> QED
    BY <2>7, <2>8, <2>9
<1>4. ASSUME NEW r \in Proxied, Written(r) PROVE StopInv'
  <2>1. InChain' = InChain
    BY <1>4 DEF Written, InChain, StopTypeOK
  <2>2. IdleIsExact'
    BY <1>4, <2>1 DEF Written, IdleIsExact
  <2> QED
    BY <1>4, <2>2 DEF Written, StopTypeOK, StopStages, WaitedFor,
                      ReqState, service, stages
<1>5. ASSUME Started PROVE StopInv'
  <2>1. StopTypeOK'
    BY <1>5 DEF Started, StopTypeOK, SvcState, requests, stages
  <2>2. (svc # "returned" /\ svc' = svc) \/ svc = "building"
    BY <1>5 DEF Started
  <2>3. StopStages'
    BY <1>5, <2>2 DEF Started, StopStages, requests, stages
  <2>4. WaitedFor'
    BY <1>5, <2>2 DEF Started, WaitedFor, stages
  <2>5. IdleIsExact'
    BY <1>5, DrainUntouched DEF Started, requests
  <2> QED
    BY <2>1, <2>3, <2>4, <2>5
<1>6. ASSUME NEW err \in {"quit", "error"}, RunFails(err) PROVE StopInv'
  <2>1. StopTypeOK'
    BY <1>6 DEF RunFails, StopTypeOK, SvcState, requests, stages
  <2>2. StopStages'
    BY <1>6 DEF RunFails, StopStages, WaitedFor, requests, stages
  <2>3. WaitedFor'
    BY <1>6 DEF RunFails, WaitedFor, stages
  <2>4. IdleIsExact'
    BY <1>6, DrainUntouched DEF RunFails, requests
  <2> QED
    BY <2>1, <2>2, <2>3, <2>4
<1>7. ASSUME Bind PROVE StopInv'
  <2>1. StopTypeOK'
    BY <1>7 DEF Bind, StopTypeOK, SvcState, MainPC, requests
  <2>2. StopStages'
    BY <1>7 DEF Bind, StopStages, requests
  <2>3. WaitedFor'
    BY <1>7 DEF Bind, StopStages, WaitedFor
  <2>4. IdleIsExact'
    BY <1>7, DrainUntouched DEF Bind, requests
  <2> QED
    BY <2>1, <2>2, <2>3, <2>4
<1>8. ASSUME NEW l \in Listeners, ListenerFails(l) PROVE StopInv'
  BY <1>8, DrainUntouched
     DEF ListenerFails, StopTypeOK, ListenerState, StopStages, WaitedFor,
         requests, service
<1>9. ASSUME NEW returned \in BOOLEAN, Stop(returned) PROVE StopInv'
  <2>1. main' \in {"wait_reload", "wait_rest"}
        /\ (main' = "wait_rest" => svc = "returned")
    BY <1>9 DEF Stop
  <2>2. cause' \in BOOLEAN
    BY <1>9, Zenon DEF Stop
  <2>3. cut = {} /\ cut' = cut
    BY <1>9 DEF Stop, StopStages, requests
  <2>4. StopTypeOK'
    BY <1>9, <2>1, <2>2, <2>3
       DEF Stop, StopTypeOK, ListenerState, MainPC, requests, service
  <2>5. main' = "wait_rest" => cause'
    BY <1>9 DEF Stop
  <2>6. sink # "draining" /\ svc # "stopped"
        /\ (svc = "returned" => runErr # "nil")
    BY <1>9 DEF Stop, StopStages
  <2>7. StopStages'
    BY <1>9, <2>1, <2>3, <2>5, <2>6 DEF Stop, StopStages, requests, service
  <2>8. WaitedFor'
    BY <1>9, <2>6 DEF Stop, WaitedFor, StopTypeOK
  <2>9. IdleIsExact'
    BY <1>9, DrainUntouched DEF Stop, requests
  <2> QED
    BY <2>4, <2>7, <2>8, <2>9
<1>10. ASSUME GraceEnds PROVE StopInv'
  BY <1>10, DrainUntouched
     DEF GraceEnds, StopTypeOK, StopStages, WaitedFor,
         requests,
         service
<1>11. ASSUME WaitReload PROVE StopInv'
  <2>1. InChain' = InChain
    BY <1>11 DEF WaitReload, InChain
  <2>2. Cardinality(InChain) = 0 <=> InChain = {}
    BY <1>0, FS_EmptySet
  <2>3. IdleIsExact'
    BY <1>11, <2>1, <2>2 DEF WaitReload, IdleIsExact, StopTypeOK
  <2> QED
    BY <1>11, <2>3 DEF WaitReload, StopTypeOK, StopStages,
                       WaitedFor,
                       MainPC, service, others
<1>12. ASSUME WaitIdle PROVE StopInv'
  BY <1>12, DrainUntouched
     DEF WaitIdle, StopTypeOK, StopStages, WaitedFor, MainPC,
         requests, service
<1>13. ASSUME Settle PROVE StopInv'
  BY <1>13, DrainUntouched
     DEF Settle, StopTypeOK, StopStages, WaitedFor, MainPC,
         requests,
         service
<1>14. ASSUME ShutdownService PROVE StopInv'
  <2>1. svc' \in {"stopped", "returned"} /\ cut' \subseteq Proxied
        /\ (svc = "returned" => svc' = "returned")
    BY <1>14 DEF ShutdownService, StopService, StopTypeOK, InChain
  <2>2. cut' # {} => cut # {} \/ InChain # {}
    BY <1>14 DEF ShutdownService, StopService
  <2>3. cut' # {} => cause'
    BY <1>14, <2>2 DEF ShutdownService, StopStages, IdleIsExact
  <2>4. cause' \in BOOLEAN
    BY <1>14 DEF ShutdownService, StopTypeOK
  <2> QED
    BY <1>14, <2>1, <2>3, <2>4, DrainUntouched
       DEF ShutdownService, StopTypeOK, StopStages, WaitedFor,
           MainPC, SvcState, others
<1>15. ASSUME CancelRun PROVE StopInv'
  BY <1>15, DrainUntouched
     DEF CancelRun, StopTypeOK, StopStages, WaitedFor, MainPC,
         requests, service, others
<1>16. ASSUME RunCancelled PROVE StopInv'
  <2>1. svc' = "stopped" /\ cut' \subseteq Proxied /\ cause /\ cause' = cause
    BY <1>16 DEF RunCancelled, StopService, StopTypeOK, InChain,
                 StopStages, stages
  <2> QED
    BY <1>16, <2>1, DrainUntouched
       DEF RunCancelled, StopTypeOK, StopStages, WaitedFor,
           SvcState,
           stages
<1>17. ASSUME WaitRun PROVE StopInv'
  BY <1>17, DrainUntouched
     DEF WaitRun, StopTypeOK, StopStages, WaitedFor, MainPC,
         requests, service, others
<1>18. ASSUME NEW l \in Listeners, ListenerDown(l) \/ ListenerForced(l)
       PROVE  StopInv'
  BY <1>18, DrainUntouched
     DEF ListenerDown, ListenerForced, StopTypeOK, ListenerState, StopStages,
         WaitedFor, requests, service
<1>24. ASSUME NEW l \in Listeners, Begin(l) \/ End(l) PROVE StopInv'
  BY <1>24, DrainUntouched
     DEF Begin, End, StopTypeOK, StopStages, WaitedFor, requests, service
<1>19. ASSUME CatalogDone PROVE StopInv'
  BY <1>19, DrainUntouched
     DEF CatalogDone, StopTypeOK, StopStages, WaitedFor,
         requests,
         service
<1>20. ASSUME WaitRest PROVE StopInv'
  BY <1>20, DrainUntouched
     DEF WaitRest, StopTypeOK, StopStages, WaitedFor, MainPC,
         requests, service
<1>21. ASSUME Exit PROVE StopInv'
  BY <1>21, DrainUntouched
     DEF Exit, StopTypeOK, StopStages, WaitedFor, MainPC,
         requests,
         service, others
<1>22. ASSUME RunReturns PROVE StopInv'
  BY <1>22, DrainUntouched
     DEF RunReturns, StopTypeOK, StopStages, WaitedFor,
         SvcState,
         requests, stages
<1>23. CASE UNCHANGED stopVars
  BY <1>23, DrainUntouched
     DEF stopVars, StopTypeOK, StopStages, WaitedFor
<1> QED
  BY <1>1, <1>2, <1>3, <1>4, <1>5, <1>6, <1>7, <1>8, <1>9, <1>10, <1>11,
     <1>12, <1>13, <1>14, <1>15, <1>16, <1>17, <1>18, <1>19, <1>20, <1>21,
     <1>22, <1>23, <1>24
     DEF StopNext, RequestStep, StopStep

\* In every behaviour of the stop the drain's channel is closed exactly when
\* the drain has started and no request is in the handler chain.
THEOREM DrainIsExact == StopSpec => []IdleIsExact
<1>1. StopInv => IdleIsExact
  BY DEF StopInv
<1> QED
  BY InitStop, StepStop, <1>1, PTL DEF StopSpec

\* No stop cuts a request in the handler chain without an error from serve.
THEOREM CutsAreReported == StopSpec => []CutIsReported
<1>1. StopInv => CutIsReported
  BY DEF StopInv, StopStages, CutIsReported
<1> QED
  BY InitStop, StepStop, <1>1, PTL DEF StopSpec

\* Whatever deadline passes first and however late a handler returns: when the
\* sink drains and the pool closes, no price check runs, a web or metrics
\* handler runs only where listenerGrace ran out, and a proxied one only if
\* serve reports it or Run had ended by itself.
THEOREM PoolClosesLast == StopSpec => []NothingOutlivesThePool
<1>1. StopInv => NothingOutlivesThePool
  BY DEF StopInv, StopTypeOK, IdleIsExact, StopStages, WaitedFor,
         NothingOutlivesThePool
<1> QED
  BY InitStop, StepStop, <1>1, PTL DEF StopSpec

(***************************************************************************)
(* Vendor sign-ins.                                                        *)
(***************************************************************************)

\* How far a login has come: nothing owns one before its timer is armed.
LoginStages ==
    \A i \in Ids :
        /\ start[i] = "new" => i \notin sessions
        /\ start[i] # "done" => timer[i] = "off"
        /\ timer[i] = "off" => ~ claimed[i]
        /\ timer[i] \in {"ending", "expired"} => claimed[i]

\* Each call in progress claimed its session, no two of them the same, and not
\* one the expiry took, or it holds mu and nobody has claimed it yet; a session
\* that is claimed and in progress has its call.
CallsOwn ==
    /\ \A c \in Completers :
          /\ complete[c].pc = "idle" <=> complete[c].id = NoId
          /\ complete[c].id # NoId =>
                /\ claimed[complete[c].id] <=> complete[c].pc # "claiming"
                /\ timer[complete[c].id] \notin {"off", "ending", "expired"}
          /\ complete[c].pc = "claiming" => complete[c].id \in sessions
          /\ complete[c].pc = "ending" => complete[c].id \notin sessions
    /\ \A c, d \in Completers :
          complete[c].pc = "claiming" /\ complete[d].pc = "claiming" => c = d
    /\ \A c, d \in Completers :
          complete[c].id = complete[d].id /\ complete[c].id # NoId => c = d
    /\ \A i \in Ids : i \in sessions /\ claimed[i] =>
          \E c \in Completers : complete[c].id = i

\* Each call in progress was in time, and adds its account in its last step
\* before it ends.
CallsInTime ==
    /\ \A c \in Completers :
          complete[c].id # NoId => complete[c].id \in inTime
    /\ \A i \in Ids : added[i] # 0 =>
          /\ added[i] = 1 /\ i \in inTime /\ claimed[i]
          /\ timer[i] \notin {"off", "ending", "expired"}
          /\ \A c \in Completers :
                complete[c].id = i => complete[c].pc \in {"gaveup", "ending"}

\* Only its waiter ends a session upstream before the gateway does.
EndedByWaiter(i) == registry[i] # "pending" => waiter[i] = "stopped"

\* From the request for its URL until its owner lets it go, a session that is
\* no longer pending upstream has no waiter left to deliver a record.
WaitersKnow ==
    /\ \A i \in Ids :
          /\ start[i] = "arm" => EndedByWaiter(i)
          /\ timer[i] # "off" /\ ~ claimed[i] => EndedByWaiter(i)
    /\ \A c \in Completers :
          /\ complete[c].pc \notin {"idle", "ending"} =>
                EndedByWaiter(complete[c].id)
          /\ complete[c].pc \in {"recheck", "refused"} =>
                registry[complete[c].id] # "pending"

LoginInv ==
    /\ LoginTypeOK
    /\ LoginStages
    /\ CallsOwn
    /\ CallsInTime
    /\ WaitersKnow
    /\ NoRecordDropped

LEMMA LoginsBegin == LoginInit => LoginInv
<1> SUFFICES ASSUME LoginInit PROVE LoginInv
  OBVIOUS
<1>1. LoginTypeOK
  BY DEF LoginInit, LoginTypeOK, IdleComplete
<1> QED BY <1>1 DEF LoginInit, IdleComplete, LoginInv, LoginStages, CallsOwn,
           CallsInTime, WaitersKnow, NoRecordDropped, At

LEMMA StartsLogin ==
    ASSUME LoginInv, NEW i \in Ids,
           StartLogin(i) \/ StartStep(i) \/ TimeUp(i)
    PROVE  LoginInv'
<1> USE DEF LoginInv
<1>0. timer[i] = "off" =>
          added[i] = 0 /\ \A c \in Completers : complete[c].id # i
  BY VendorLoginAssumption DEF CallsOwn, CallsInTime
<1>1. CASE StartLogin(i)
  <2>1. ~ claimed[i] /\ timer[i] = "off"
    BY <1>1 DEF StartLogin, LoginStages
  <2>2. LoginTypeOK' /\ LoginStages'
    BY <1>1 DEF StartLogin, LoginTypeOK, LoginStages
  <2>3. CallsOwn'
    BY <1>0, <1>1, <2>1 DEF StartLogin, LoginTypeOK, CallsOwn
  <2>4. CallsInTime'
    BY <1>1 DEF StartLogin, CallsInTime
  <2>5. WaitersKnow' /\ NoRecordDropped'
    BY <1>1 DEF StartLogin, LoginTypeOK, WaitersKnow, EndedByWaiter,
       NoRecordDropped, At
  <2> QED BY <2>2, <2>3, <2>4, <2>5
<1>2. CASE RequestLogin(i)
  <2>1. ~ claimed[i] /\ timer[i] = "off"
    BY <1>2 DEF RequestLogin, LoginStages
  <2>2. LoginTypeOK' /\ LoginStages'
    BY <1>2 DEF RequestLogin, LoginTypeOK, LoginStages
  <2>3. CallsOwn' /\ CallsInTime'
    BY <1>2 DEF RequestLogin, CallsOwn, CallsInTime
  <2>4. /\ \A j \in Ids : j # i => /\ registry'[j] = registry[j]
                                   /\ waiter'[j] = waiter[j]
                                   /\ start'[j] = start[j]
        /\ start'[i] = "arm" => registry'[i] = "pending"
        /\ UNCHANGED <<timer, claimed, complete, result>>
    BY <1>2 DEF RequestLogin, LoginTypeOK
  <2>5. \A c \in Completers : complete[c].pc # "idle" =>
            complete[c].id \in Ids /\ complete[c].id # i
    BY <1>0, <2>1 DEF CallsOwn, LoginTypeOK
  <2>6. WaitersKnow'
    BY <2>1, <2>4, <2>5 DEF WaitersKnow, EndedByWaiter
  <2>7. NoRecordDropped'
    BY <2>4 DEF NoRecordDropped, At
  <2> QED BY <2>2, <2>3, <2>6, <2>7
<1>3. CASE StartFailed(i)
  <2>1. ~ claimed[i] /\ timer[i] = "off"
    BY <1>3 DEF StartFailed, LoginStages
  <2>2. LoginTypeOK' /\ LoginStages'
    BY <1>3 DEF StartFailed, LoginTypeOK, LoginStages
  <2>3. CallsOwn'
    BY <1>0, <1>3, <2>1 DEF StartFailed, CallsOwn
  <2>4. CallsInTime'
    BY <1>3 DEF StartFailed, CallsInTime
  <2>5. WaitersKnow' /\ NoRecordDropped'
    BY <1>3 DEF StartFailed, LoginTypeOK, WaitersKnow, EndedByWaiter,
       NoRecordDropped, At
  <2> QED BY <2>2, <2>3, <2>4, <2>5
<1>4. CASE Arm(i)
  <2>1. ~ claimed[i] /\ timer[i] = "off" /\ EndedByWaiter(i)
    BY <1>4 DEF Arm, LoginStages, WaitersKnow
  <2>2. LoginTypeOK' /\ LoginStages'
    BY <1>4, <2>1 DEF Arm, LoginTypeOK, LoginStages
  <2>3. /\ timer'[i] = "armed"
        /\ \A j \in Ids : j # i => timer'[j] = timer[j]
        /\ UNCHANGED <<sessions, claimed, complete, added, inTime>>
    BY <1>4 DEF Arm, LoginTypeOK
  <2>4. CallsOwn'
    BY <1>0, <2>1, <2>3 DEF LoginTypeOK, CallsOwn
  <2>5. CallsInTime'
    BY <1>0, <2>1, <2>3 DEF CallsInTime
  <2>6. WaitersKnow' /\ NoRecordDropped'
    BY <1>4, <2>1 DEF Arm, LoginTypeOK, WaitersKnow, EndedByWaiter,
       NoRecordDropped, At
  <2> QED BY <2>2, <2>4, <2>5, <2>6
<1>5. CASE TimeUp(i)
  BY <1>5 DEF TimeUp, LoginTypeOK, LoginStages, CallsOwn, CallsInTime,
     WaitersKnow, EndedByWaiter, NoRecordDropped, At
<1> QED BY <1>1, <1>2, <1>3, <1>4, <1>5 DEF StartStep

\* While a call holds mu no other session's owner changes; the timer may fire
\* under it, but its function then waits.
LEMMA TimerSteps ==
    ASSUME LoginInv, NEW i \in Ids, TimerStep(i)
    PROVE  LoginInv'
<1> USE DEF LoginInv
<1>0. timer[i] \in {"off", "ending", "expired"} =>
          added[i] = 0 /\ \A c \in Completers : complete[c].id # i
  BY VendorLoginAssumption DEF CallsOwn, CallsInTime
<1>1. CASE Fire(i)
  <2>1. LoginTypeOK' /\ LoginStages'
    BY <1>1 DEF Fire, LoginTypeOK, LoginStages
  <2>2. /\ timer'[i] = "fired"
        /\ \A j \in Ids : j # i => timer'[j] = timer[j]
        /\ UNCHANGED <<sessions, claimed, complete, added, inTime>>
    BY <1>1 DEF Fire, LoginTypeOK
  <2>3. CallsOwn' /\ CallsInTime'
    BY <2>2 DEF LoginTypeOK, CallsOwn, CallsInTime
  <2>4. WaitersKnow' /\ NoRecordDropped'
    BY <1>1 DEF Fire, LoginTypeOK, WaitersKnow, EndedByWaiter,
       NoRecordDropped, At
  <2> QED BY <2>1, <2>3, <2>4
<1>2. CASE Expire(i)
  <2>1. LoginTypeOK'
    BY <1>2 DEF Expire, LoginTypeOK
  <2>2. LoginStages'
    BY <1>2 DEF Expire, LoginTypeOK, LoginStages
  <2>3. CallsOwn' /\ CallsInTime'
    <3>1. CASE i \in sessions /\ ~ claimed[i]
      <4>1. /\ \A c \in Completers : complete[c].id # i
            /\ added[i] = 0
        BY <1>2, <3>1, VendorLoginAssumption
           DEF Expire, MuFree, CallsOwn, CallsInTime
      <4>2. /\ claimed' = [claimed EXCEPT ![i] = TRUE]
            /\ sessions' = sessions \ {i}
            /\ UNCHANGED <<complete, added, inTime>>
            /\ timer' = [timer EXCEPT ![i] = "ending"]
        BY <1>2, <3>1 DEF Expire
      <4>3. CallsOwn'
        BY <4>1, <4>2 DEF LoginTypeOK, CallsOwn
      <4>4. CallsInTime'
        BY <4>1, <4>2 DEF LoginTypeOK, CallsInTime
      <4> QED BY <4>3, <4>4
    <3>2. CASE ~ (i \in sessions /\ ~ claimed[i])
      <4>2. /\ UNCHANGED <<claimed, sessions, complete, added, inTime>>
            /\ timer' = [timer EXCEPT ![i] = "done"]
        BY <1>2, <3>2 DEF Expire
      <4> QED BY <4>2 DEF LoginTypeOK, CallsOwn, CallsInTime
    <3> QED BY <3>1, <3>2
  <2>4. WaitersKnow' /\ NoRecordDropped'
    BY <1>2 DEF Expire, LoginTypeOK, WaitersKnow, EndedByWaiter,
       NoRecordDropped, At
  <2> QED BY <2>1, <2>2, <2>3, <2>4
<1>3. CASE ExpireUpstream(i)
  <2>1. LoginTypeOK'
    BY <1>3 DEF ExpireUpstream, Completed, LoginTypeOK
  <2>2. claimed[i] /\ added[i] = 0 /\ \A c \in Completers : complete[c].id # i
    BY <1>0, <1>3 DEF ExpireUpstream, LoginStages
  <2>3. LoginStages' /\ CallsOwn' /\ CallsInTime'
    BY <1>3, <2>2
       DEF ExpireUpstream, LoginTypeOK, LoginStages, CallsOwn, CallsInTime
  <2>4. /\ \A j \in Ids : j # i => registry'[j] = registry[j] /\ timer'[j] = timer[j]
        /\ start[i] # "arm"
        /\ UNCHANGED <<waiter, claimed, complete, start, result>>
    BY <1>3, <2>2 DEF ExpireUpstream, Completed, LoginTypeOK, LoginStages
  <2>5. \A c \in Completers : complete[c].pc # "idle" => complete[c].id \in Ids
    BY DEF CallsOwn, LoginTypeOK
  <2>6. WaitersKnow' /\ NoRecordDropped'
    BY <2>2, <2>4, <2>5 DEF WaitersKnow, EndedByWaiter, NoRecordDropped, At
  <2> QED BY <2>1, <2>3, <2>6
<1> QED BY <1>1, <1>2, <1>3 DEF TimerStep

LEMMA WaiterSteps ==
    ASSUME LoginInv, NEW i \in Ids, WaiterStep(i)
    PROVE  LoginInv'
<1> USE DEF LoginInv
<1>1. LoginTypeOK'
  BY DEF WaiterStep, Poll, Exchange, Deliver, MarkFailed, Stopped,
     Failed, LoginTypeOK
<1>2. UNCHANGED <<sessions, claimed, start, late, timer, complete, added,
                  inTime>>
  BY DEF WaiterStep, Poll, Exchange, Deliver, MarkFailed
<1>3. LoginStages' /\ CallsOwn' /\ CallsInTime'
  BY <1>2 DEF LoginStages, CallsOwn, CallsInTime
<1>4. \A j \in Ids : registry[j] # "pending" => registry'[j] # "pending"
  BY DEF WaiterStep, Poll, Exchange, Deliver, MarkFailed, Stopped,
     Failed, LoginTypeOK
<1>5. \A j \in Ids : EndedByWaiter(j) => EndedByWaiter(j)'
  BY DEF WaiterStep, Poll, Exchange, Deliver, MarkFailed, Stopped,
     Failed, LoginTypeOK, EndedByWaiter
<1>6. \A c \in Completers : complete[c].pc # "idle" => complete[c].id \in Ids
  BY DEF CallsOwn, LoginTypeOK
<1>7. WaitersKnow'
  BY <1>2, <1>4, <1>5, <1>6 DEF WaitersKnow
<1>8. NoRecordDropped'
  <2> SUFFICES ASSUME NEW c \in Completers, complete[c].pc = "refused"
               PROVE  ~ result'[complete[c].id]
    BY <1>2 DEF NoRecordDropped, At
  <2>1. /\ complete[c].id \in Ids /\ ~ result[complete[c].id]
        /\ waiter[complete[c].id] = "stopped"
    BY <1>6 DEF WaitersKnow, EndedByWaiter, NoRecordDropped, At
  <2> QED BY <2>1 DEF WaiterStep, Poll, Exchange, Deliver, MarkFailed,
             LoginTypeOK
<1> QED BY <1>1, <1>3, <1>7, <1>8

\* A call takes mu with a session nobody has claimed.
LEMMA LocksLogin ==
    ASSUME LoginInv, NEW c \in Completers, NEW i \in Ids, LockLogin(c, i)
    PROVE  LoginInv'
<1> USE DEF LoginInv
<1>0. /\ ~ claimed[i] /\ timer[i] \notin {"off", "ending", "expired"} /\ i # NoId
      /\ \A d \in Completers : complete[d].id # i
      /\ \A d \in Completers : complete[d].pc # "claiming"
      /\ EndedByWaiter(i) /\ complete[c].id = NoId /\ i \in sessions
      /\ added[i] = 0
  BY VendorLoginAssumption
     DEF LockLogin, MuFree, At, CallsOwn, CallsInTime, LoginStages, WaitersKnow
<1>1. /\ complete' = [complete EXCEPT ![c] = [pc |-> "claiming", id |-> i]]
      /\ inTime' = inTime \cup {i}
      /\ UNCHANGED <<sessions, claimed, start, late, timer, result, file,
                     registry, waiter, added>>
  BY DEF LockLogin
<1>2. /\ complete'[c].pc = "claiming" /\ complete'[c].id = i
      /\ \A d \in Completers : d # c => complete'[d] = complete[d]
  BY <1>1 DEF LoginTypeOK
<1>3. LoginTypeOK' /\ LoginStages'
  BY <1>1 DEF LoginTypeOK, LoginStages
<1>4. CallsOwn'
  <2>1. \A d \in Completers :
            /\ complete'[d].pc = "idle" <=> complete'[d].id = NoId
            /\ complete'[d].id # NoId =>
                  /\ claimed[complete'[d].id] <=> complete'[d].pc # "claiming"
                  /\ timer[complete'[d].id] \notin {"off", "ending", "expired"}
            /\ complete'[d].pc = "claiming" => complete'[d].id \in sessions
            /\ complete'[d].pc = "ending" => complete'[d].id \notin sessions
    <3> SUFFICES ASSUME NEW d \in Completers
                 PROVE  /\ complete'[d].pc = "idle" <=> complete'[d].id = NoId
                        /\ complete'[d].id # NoId =>
                              /\ claimed[complete'[d].id]
                                    <=> complete'[d].pc # "claiming"
                              /\ timer[complete'[d].id]
                                    \notin {"off", "ending", "expired"}
                        /\ complete'[d].pc = "claiming" =>
                              complete'[d].id \in sessions
                        /\ complete'[d].pc = "ending" =>
                              complete'[d].id \notin sessions
      OBVIOUS
    <3>1. CASE d = c
      BY <1>0, <1>2, <3>1
    <3>2. CASE d # c
      BY <1>2, <3>2 DEF CallsOwn
    <3> QED BY <3>1, <3>2
  <2>2. \A d, e \in Completers :
            /\ complete'[d].pc = "claiming" /\ complete'[e].pc = "claiming" =>
                  d = e
            /\ complete'[d].id = complete'[e].id /\ complete'[d].id # NoId =>
                  d = e
    BY <1>0, <1>2 DEF CallsOwn
  <2>3. \A j \in Ids : j \in sessions /\ claimed[j] =>
            \E d \in Completers : complete'[d].id = j
    <3> SUFFICES ASSUME NEW j \in Ids, j \in sessions, claimed[j]
                 PROVE  \E d \in Completers : complete'[d].id = j
      OBVIOUS
    <3>1. PICK d \in Completers : complete[d].id = j
      BY DEF CallsOwn
    <3>2. d # c
      BY <1>0, <3>1, VendorLoginAssumption
    <3> QED BY <1>2, <3>1, <3>2
  <2> QED BY <1>1, <2>1, <2>2, <2>3 DEF CallsOwn
<1>5. CallsInTime'
  BY <1>0, <1>1, <1>2 DEF CallsInTime
<1>6. WaitersKnow' /\ NoRecordDropped'
  BY <1>0, <1>1, <1>2 DEF WaitersKnow, EndedByWaiter, NoRecordDropped, At
<1> QED BY <1>3, <1>4, <1>5, <1>6

\* Still under mu it claims it, whatever the timer did meanwhile.
LEMMA ClaimsLogin ==
    ASSUME LoginInv, NEW c \in Completers, NEW refused \in BOOLEAN,
           Claim(c, refused)
    PROVE  LoginInv'
<1> USE DEF LoginInv
<1>0. PICK i \in Ids : i = complete[c].id /\ complete[c].pc = "claiming"
  BY DEF Claim, At, CallsOwn, LoginTypeOK
<1>1. /\ ~ claimed[i] /\ timer[i] \notin {"off", "ending", "expired"} /\ i # NoId
      /\ \A d \in Completers : d # c => complete[d].id # i
                                       /\ complete[d].pc # "claiming"
      /\ EndedByWaiter(i) /\ i \in sessions /\ i \in inTime /\ added[i] = 0
  BY <1>0, VendorLoginAssumption DEF CallsOwn, CallsInTime, WaitersKnow
<1>2. PICK pc \in {"gaveup", "hand"} :
          complete' = [complete EXCEPT ![c].pc = pc]
  BY DEF Claim, Go
<1>3. /\ claimed' = [claimed EXCEPT ![i] = TRUE]
      /\ timer' = [timer EXCEPT ![i] = IF @ = "armed" THEN "done" ELSE @]
      /\ UNCHANGED <<sessions, start, late, result, file, registry, waiter,
                     added, inTime>>
  BY <1>0 DEF Claim
<1>4. /\ complete'[c].pc = pc /\ complete'[c].id = i
      /\ \A d \in Completers : d # c => complete'[d] = complete[d]
      /\ claimed'[i] /\ timer'[i] \notin {"off", "ending", "expired"}
      /\ \A j \in Ids : j # i => claimed'[j] = claimed[j] /\ timer'[j] = timer[j]
  BY <1>0, <1>1, <1>2, <1>3 DEF LoginTypeOK
<1>5. LoginTypeOK'
  BY <1>2, <1>3 DEF LoginTypeOK
<1>6. LoginStages'
  BY <1>1, <1>3, <1>4 DEF LoginStages
<1>7. \A d \in Completers : /\ complete'[d].id = complete[d].id
                            /\ complete[d].id \in Ids \cup {NoId}
  BY <1>0, <1>4 DEF LoginTypeOK
<1>8. CallsOwn'
  <2>1. \A d \in Completers :
            /\ complete'[d].pc = "idle" <=> complete'[d].id = NoId
            /\ complete'[d].id # NoId =>
                  /\ claimed'[complete'[d].id] <=> complete'[d].pc # "claiming"
                  /\ timer'[complete'[d].id] \notin {"off", "ending", "expired"}
            /\ complete'[d].pc = "claiming" => complete'[d].id \in sessions
            /\ complete'[d].pc = "ending" => complete'[d].id \notin sessions
    <3> SUFFICES ASSUME NEW d \in Completers
                 PROVE  /\ complete'[d].pc = "idle" <=> complete'[d].id = NoId
                        /\ complete'[d].id # NoId =>
                              /\ claimed'[complete'[d].id]
                                    <=> complete'[d].pc # "claiming"
                              /\ timer'[complete'[d].id]
                                    \notin {"off", "ending", "expired"}
                        /\ complete'[d].pc = "claiming" =>
                              complete'[d].id \in sessions
                        /\ complete'[d].pc = "ending" =>
                              complete'[d].id \notin sessions
      OBVIOUS
    <3>1. CASE d = c
      BY <1>1, <1>2, <1>4, <3>1
    <3>2. CASE d # c
      BY <1>1, <1>4, <1>7, <3>2 DEF CallsOwn
    <3> QED BY <3>1, <3>2
  <2>2. \A d, e \in Completers :
            /\ complete'[d].pc = "claiming" /\ complete'[e].pc = "claiming" =>
                  d = e
            /\ complete'[d].id = complete'[e].id /\ complete'[d].id # NoId =>
                  d = e
    BY <1>1, <1>2, <1>4, <1>7 DEF CallsOwn
  <2>3. \A j \in Ids : j \in sessions /\ claimed'[j] =>
            \E d \in Completers : complete'[d].id = j
    BY <1>0, <1>4, <1>7 DEF CallsOwn
  <2> QED BY <1>3, <2>1, <2>2, <2>3 DEF CallsOwn
<1>9. CallsInTime'
  BY <1>1, <1>3, <1>4, <1>7 DEF CallsInTime
<1>10. WaitersKnow' /\ NoRecordDropped'
  BY <1>1, <1>2, <1>3, <1>4 DEF WaitersKnow, EndedByWaiter, NoRecordDropped, At
<1> QED BY <1>5, <1>6, <1>8, <1>9, <1>10

\* A call that goes on with its session.
LEMMA CallGoesOn ==
    ASSUME LoginInv, NEW c \in Completers,
           NEW pc \in {"hand", "await", "recheck", "add", "refused", "gaveup"},
           Go(c, pc), complete[c].pc \notin {"idle", "claiming", "ending"},
           pc \in {"recheck", "refused"} =>
               registry[complete[c].id] # "pending",
           pc = "refused" => ~ result'[complete[c].id],
           \A j \in Ids : result'[j] => result[j],
           result' \in [Ids -> BOOLEAN], file' \in [Ids -> BOOLEAN],
           \/ UNCHANGED added /\ complete[c].pc # "gaveup"
           \/ /\ complete[c].pc = "add" /\ pc = "gaveup"
              /\ added' = [added EXCEPT ![complete[c].id] = @ + 1],
           UNCHANGED <<sessions, claimed, start, late, timer, registry, waiter,
                       inTime>>
    PROVE  LoginInv'
<1> USE DEF LoginInv
<1>1. /\ complete'[c].pc = pc /\ complete'[c].id = complete[c].id
      /\ \A d \in Completers : d # c => complete'[d] = complete[d]
  BY DEF Go, LoginTypeOK
<1>0. /\ complete[c].id \in Ids /\ complete[c].id # NoId
      /\ \A d \in Completers : d # c => complete[d].id # complete[c].id
      /\ claimed[complete[c].id] /\ complete[c].id \in inTime
      /\ timer[complete[c].id] \notin {"off", "ending", "expired"}
  BY DEF CallsOwn, CallsInTime, LoginTypeOK
<1>2. LoginTypeOK'
  <2>1. added' \in [Ids -> Nat]
    BY <1>0 DEF LoginTypeOK
  <2> QED BY <2>1 DEF Go, LoginTypeOK
<1>3. LoginStages'
  BY DEF LoginStages
<1>7. CallsInTime'
  <2>1. CASE UNCHANGED added /\ complete[c].pc # "gaveup"
    BY <1>0, <1>1, <2>1 DEF CallsInTime
  <2>2. CASE /\ complete[c].pc = "add" /\ pc = "gaveup"
             /\ added' = [added EXCEPT ![complete[c].id] = @ + 1]
    <3>1. added[complete[c].id] = 0
      BY <1>0, <2>2 DEF CallsInTime
    <3>2. /\ added'[complete[c].id] = 1
          /\ \A j \in Ids : j # complete[c].id => added'[j] = added[j]
      BY <1>0, <2>2, <3>1 DEF LoginTypeOK
    <3> QED BY <1>0, <1>1, <2>2, <3>2 DEF CallsInTime
  <2> QED BY <2>1, <2>2
<1>4. CallsOwn'
  BY <1>1 DEF CallsOwn
<1>5. WaitersKnow'
  BY <1>1 DEF WaitersKnow, EndedByWaiter
<1>6. NoRecordDropped'
  <2>1. \A d \in Completers : complete[d].pc # "idle" => complete[d].id \in Ids
    BY DEF CallsOwn, LoginTypeOK
  <2> QED BY <1>1, <2>1 DEF NoRecordDropped, At
<1> QED BY <1>2, <1>3, <1>4, <1>5, <1>6, <1>7

LEMMA CallSteps ==
    ASSUME LoginInv, NEW c \in Completers,
           CompleteStep(c)
    PROVE  LoginInv'
<1>0. /\ result \in [Ids -> BOOLEAN] /\ file \in [Ids -> BOOLEAN]
      /\ complete[c].pc # "idle" => complete[c].id \in Ids
  BY DEF LoginInv, LoginTypeOK, CallsOwn
<1>1. CASE HandOver(c)
  <2>1. /\ complete[c].pc = "hand" /\ (Go(c, "await") \/ Go(c, "gaveup"))
        /\ file' \in [Ids -> BOOLEAN]
        /\ UNCHANGED <<sessions, claimed, start, late, timer, result, registry,
                       waiter, added, inTime>>
    BY <1>0, <1>1 DEF HandOver, At
  <2> QED BY <1>0, <2>1, CallGoesOn
<1>2. ASSUME Take(c, complete[c].id), complete[c].pc \in {"await", "recheck"},
             UNCHANGED <<sessions, claimed, start, late, timer, file, registry,
                         waiter, added, inTime>>
      PROVE  LoginInv'
  <2>1. /\ Go(c, "add") /\ result' \in [Ids -> BOOLEAN]
        /\ \A j \in Ids : result'[j] => result[j]
    BY <1>0, <1>2 DEF Take
  <2> QED BY <1>0, <1>2, <2>1, CallGoesOn
<1>3. CASE AwaitRecord(c)
  BY <1>2, <1>3 DEF AwaitRecord, At
<1>4. CASE AwaitStatus(c)
  <2>1. /\ complete[c].pc = "await" /\ Go(c, "recheck")
        /\ registry[complete[c].id] # "pending"
        /\ UNCHANGED <<sessions, claimed, start, late, timer, result, file,
                       registry, waiter, added, inTime>>
    BY <1>4 DEF AwaitStatus, At
  <2> QED BY <1>0, <2>1, CallGoesOn
<1>5. CASE Recheck(c)
  <2>1. CASE result[complete[c].id]
    BY <1>2, <1>5, <2>1 DEF Recheck, At
  <2>2. CASE ~ result[complete[c].id]
    <3>1. /\ complete[c].pc = "recheck" /\ Go(c, "refused")
          /\ UNCHANGED <<sessions, claimed, start, late, timer, result, file,
                         registry, waiter, added, inTime>>
      BY <1>5, <2>2 DEF Recheck, At
    <3>2. registry[complete[c].id] # "pending"
      BY <3>1 DEF LoginInv, WaitersKnow
    <3> QED BY <1>0, <2>2, <3>1, <3>2, CallGoesOn
  <2> QED BY <2>1, <2>2
<1>6. CASE GiveUp(c) \/ Add(c)
  <2>1. /\ complete[c].pc \in {"await", "add"} /\ Go(c, "gaveup")
        /\ \/ UNCHANGED added
           \/ /\ complete[c].pc = "add"
              /\ added' = [added EXCEPT ![complete[c].id] = @ + 1]
        /\ UNCHANGED <<sessions, claimed, start, late, timer, result, file,
                       registry, waiter, inTime>>
    BY <1>0, <1>6 DEF GiveUp, Add, At
  <2> QED BY <1>0, <2>1, CallGoesOn
<1>7. CASE Finish(c)
  <2> USE DEF LoginInv
  <2>1. PICK i \in Ids : i = complete[c].id
    BY <1>0, <1>7 DEF Finish
  <2>2. /\ complete[c].pc \in {"refused", "gaveup"} /\ Go(c, "ending")
        /\ sessions' = sessions \ {i}
        /\ timer' = [timer EXCEPT ![i] = IF @ = "armed" THEN "done" ELSE @]
        /\ UNCHANGED <<claimed, start, late, result, file, registry, waiter, added, inTime>>
    BY <1>7, <2>1 DEF Finish
  <2>3. /\ complete'[c].pc = "ending" /\ complete'[c].id = i
        /\ \A d \in Completers : d # c => complete'[d] = complete[d]
    BY <2>1, <2>2 DEF Go, LoginTypeOK
  <2>4. LoginTypeOK'
    BY <2>2 DEF Go, LoginTypeOK
  <2>5. \A j \in Ids : \A x \in {"off", "ending", "expired"} :
            timer'[j] = x <=> timer[j] = x
    BY <2>2 DEF LoginTypeOK
  <2>6. LoginStages'
    BY <2>2, <2>5 DEF LoginStages
  <2>7. \A d \in Completers : complete[d].id \in Ids \cup {NoId}
    BY DEF LoginTypeOK
  <2>8. CallsOwn'
    <3>1. i # NoId
      BY VendorLoginAssumption
    <3>2. \A d \in Completers : complete'[d].id = complete[d].id
      BY <2>1, <2>3
    <3>3. \A d \in Completers :
              /\ complete'[d].pc = "idle" <=> complete'[d].id = NoId
              /\ complete'[d].id # NoId =>
                    /\ claimed'[complete'[d].id] <=> complete'[d].pc # "claiming"
                    /\ timer'[complete'[d].id] \notin {"off", "ending", "expired"}
              /\ complete'[d].pc = "ending" => complete'[d].id \notin sessions'
      BY <2>1, <2>2, <2>3, <2>5, <2>7, <3>1, <3>2 DEF CallsOwn
    <3>5. \A d \in Completers : complete'[d].pc # "claiming"
      BY <1>7, <2>3 DEF Finish, MuFree
    <3>4. \A j \in Ids : j \in sessions' /\ claimed'[j] =>
              \E d \in Completers : complete'[d].id = j
      BY <2>2, <3>2 DEF CallsOwn
    <3> QED BY <3>2, <3>3, <3>4, <3>5 DEF CallsOwn
  <2>9. WaitersKnow' /\ NoRecordDropped'
    BY <2>2, <2>3, <2>5 DEF WaitersKnow, EndedByWaiter, NoRecordDropped, At
  <2>10. CallsInTime'
    BY <2>1, <2>2, <2>3, <2>5 DEF CallsInTime
  <2> QED BY <2>4, <2>6, <2>8, <2>9, <2>10
<1>8. CASE FinishUpstream(c)
  <2> USE DEF LoginInv
  <2>1. PICK i \in Ids : i = complete[c].id /\ complete[c].pc = "ending"
    BY <1>0, <1>8 DEF FinishUpstream, At
  <2>2. /\ Completed(i)
        /\ complete' = [complete EXCEPT ![c] = IdleComplete]
        /\ UNCHANGED <<sessions, claimed, start, late, timer, result, file,
                       waiter, added, inTime>>
    BY <1>8, <2>1 DEF FinishUpstream
  <2>3. /\ complete'[c].pc = "idle" /\ complete'[c].id = NoId
        /\ \A d \in Completers : d # c => complete'[d] = complete[d]
    BY <2>1, <2>2 DEF LoginTypeOK, IdleComplete
  <2>4. LoginTypeOK'
    BY <2>2 DEF Completed, LoginTypeOK, IdleComplete
  <2>5. LoginStages'
    BY <2>2 DEF LoginStages
  <2>6. /\ claimed[i] /\ i \notin sessions /\ i # NoId
        /\ \A d \in Completers : d # c => complete[d].id # i
        /\ start[i] # "arm"
    BY <2>1, VendorLoginAssumption DEF CallsOwn, LoginStages
  <2>7. CallsOwn'
    BY <2>1, <2>2, <2>3, <2>6 DEF CallsOwn
  <2>11. CallsInTime'
    BY <2>2, <2>3, <2>6, VendorLoginAssumption DEF CallsInTime
  <2>8. \A j \in Ids : j # i => registry'[j] = registry[j]
    BY <2>2 DEF Completed, LoginTypeOK
  <2>9. \A d \in Completers : complete[d].pc # "idle" => complete[d].id \in Ids
    BY DEF CallsOwn, LoginTypeOK
  <2>10. WaitersKnow' /\ NoRecordDropped'
    BY <2>2, <2>3, <2>6, <2>8, <2>9
       DEF WaitersKnow, EndedByWaiter, NoRecordDropped, At
  <2> QED BY <2>4, <2>5, <2>7, <2>10, <2>11
<1> QED BY <1>1, <1>3, <1>4, <1>5, <1>6, <1>7, <1>8, ClaimsLogin
    DEF CompleteStep

LEMMA LoginsStay ==
    LoginInv /\ [LoginNext]_loginVars => LoginInv'
<1> SUFFICES ASSUME LoginInv, [LoginNext]_loginVars PROVE LoginInv'
  OBVIOUS
<1>1. CASE UNCHANGED loginVars
  BY <1>1 DEF loginVars, LoginInv, LoginTypeOK, LoginStages, CallsOwn,
     CallsInTime, WaitersKnow, EndedByWaiter, NoRecordDropped, At
<1> QED BY <1>1, StartsLogin, TimerSteps, WaiterSteps, LocksLogin, CallSteps
    DEF LoginNext

LEMMA AtMostOne ==
    ASSUME NEW T, \A x, y \in T : x = y PROVE Cardinality(T) <= 1
<1>1. CASE T = {}
  BY <1>1, FS_EmptySet
<1>2. CASE T # {}
  <2>1. PICK x : x \in T
    BY <1>2
  <2>2. T = {x}
    BY <2>1
  <2>3. Cardinality({x}) = 1
    BY FS_Singleton, Zenon
  <2> QED BY <2>2, <2>3
<1> QED BY <1>1, <1>2

\* A login is settled by one owner, a single CompleteLogin that claimed it in
\* time or the expiry, who adds its account once and loses no record of it, for
\* any number of sessions and calls and wherever the timer fires.
THEOREM LoginsSettledOnce == LoginSpec => []SettledOnce
<1>1. LoginSpec => LoginInit /\ [][LoginNext]_loginVars
  BY DEF LoginSpec
<1>2. LoginInv => SettledOnce
  <2> SUFFICES ASSUME LoginInv PROVE SettledOnce
    OBVIOUS
  <2>1. CallsOwn /\ NoRecordDropped /\ CallsInTime /\ LoginTypeOK
    BY DEF LoginInv
  <2>2. ASSUME NEW i \in Ids, NEW owners,
               owners = {c \in Completers :
                            complete[c].id = i /\ ~ At(c, "claiming")}
        PROVE  /\ Cardinality(owners) <= 1
               /\ timer[i] = "ending" => owners = {}
               /\ owners # {} => claimed[i]
               /\ i \in sessions /\ claimed[i] => owners # {}
    <3>0. i # NoId
      BY VendorLoginAssumption
    <3>1. \A c, d \in owners : c = d
      BY <2>1, <2>2, <3>0 DEF CallsOwn
    <3>2. Cardinality(owners) <= 1
      BY <3>1, AtMostOne
    <3> QED BY <2>1, <2>2, <3>0, <3>2 DEF CallsOwn, At
  <2>3. OneOwner
    BY <2>2 DEF OneOwner
  <2>4. AddedInTime
    BY <2>1 DEF AddedInTime, CallsInTime, LoginTypeOK
  <2> QED BY <2>1, <2>3, <2>4 DEF SettledOnce
<1> QED BY <1>1, <1>2, LoginsBegin, LoginsStay, PTL

=============================================================================
