-------------------------- MODULE Planning_proofs ---------------------------
(***************************************************************************)
(* The planner and the start rule, for every schema.  The proofs follow    *)
(* the planner: the depth-first search finds the circles of a graph, their *)
(* merging gives its strongly connected components, the groups made of     *)
(* these do not wait for each other in a circle, the rounds of the order   *)
(* check rank the configs, and so some config can always start.            *)
(*                                                                         *)
(* Recursive definitions are reasoned about in three steps: a function     *)
(* that satisfies the equation exists, so the one the definition chooses   *)
(* does, and what follows from the equation is shown for a least           *)
(* counterexample.                                                         *)
(***************************************************************************)
EXTENDS Planning, FiniteSetTheorems, SequenceTheorems, WellFoundedInduction, TLAPS

(* A set of numbers has a least element.                                   *)
LEMMA LeastNumber ==
  ASSUME NEW T \in SUBSET Nat, T # {}
  PROVE  \E i \in T : \A j \in T : i <= j
<1> DEFINE R == {ss \in Nat \X Nat : ss[1] < ss[2]}
<1>1. R = OpToRel(<, Nat)
  BY DEF OpToRel
<1>2. IsWellFoundedOn(R, Nat)
  BY <1>1, NatLessThanWellFounded
<1>3. PICK i \in T : \A j \in T : <<j, i>> \notin R
  BY <1>2, WFMin
<1>4. ASSUME NEW j \in T PROVE i <= j
  <2>1. i \in Nat /\ j \in Nat /\ <<j, i>> \in Nat \X Nat
    OBVIOUS
  <2>2. ~(j < i)
    BY <1>3, <2>1
  <2> QED
    BY <2>1, <2>2
<1> QED
  BY <1>4

(* A proper subset of a finite set is smaller.                             *)
LEMMA SmallerSubset ==
  ASSUME NEW S, IsFiniteSet(S), NEW T \in SUBSET S, T # S
  PROVE  /\ IsFiniteSet(T) /\ Cardinality(T) \in Nat /\ Cardinality(S) \in Nat
         /\ Cardinality(T) < Cardinality(S)
<1>1. IsFiniteSet(T) /\ Cardinality(T) <= Cardinality(S) /\ Cardinality(T) # Cardinality(S)
  BY FS_Subset
<1>2. Cardinality(T) \in Nat /\ Cardinality(S) \in Nat
  BY <1>1, FS_CardinalityType
<1> QED
  BY <1>1, <1>2

(* A strict order on a finite set has a maximal element.                   *)
LEMMA MaximalElement ==
  ASSUME NEW S, IsFiniteSet(S), S # {}, NEW R,
         \A x \in S : <<x, x>> \notin R,
         \A x, y, z \in S : <<x, y>> \in R /\ <<y, z>> \in R => <<x, z>> \in R
  PROVE  \E x \in S : \A y \in S : <<x, y>> \notin R
<1> DEFINE Above(x) == {y \in S : <<x, y>> \in R}
           Sizes == {Cardinality(Above(x)) : x \in S}
<1>1. ASSUME NEW x \in S PROVE IsFiniteSet(Above(x)) /\ Cardinality(Above(x)) \in Nat
  <2>1. Above(x) \subseteq S
    OBVIOUS
  <2> HIDE DEF Above
  <2>2. IsFiniteSet(Above(x))
    BY <2>1, FS_Subset
  <2> QED
    BY <2>2, FS_CardinalityType
<1>0. \A x, y : y \in Above(x) <=> y \in S /\ <<x, y>> \in R
  OBVIOUS
<1> HIDE DEF Above
<1>2. Sizes \in SUBSET Nat /\ Sizes # {}
  BY <1>1
<1>3. PICK n \in Sizes : \A m \in Sizes : n <= m
  BY <1>2, LeastNumber
<1>4. PICK x \in S : n = Cardinality(Above(x))
  BY <1>3
<1>5. ASSUME NEW y \in S, <<x, y>> \in R PROVE FALSE
  <2>1. Above(y) \subseteq Above(x)
    BY <1>0, <1>5
  <2>2. y \in Above(x) /\ y \notin Above(y)
    BY <1>0, <1>5
  <2>3. n <= Cardinality(Above(y))
    BY <1>3
  <2>4. IsFiniteSet(Above(x))
    BY <1>1
  <2>5. Above(y) # Above(x) /\ Above(y) \in SUBSET Above(x)
    BY <2>1, <2>2
  <2>6. /\ Cardinality(Above(y)) \in Nat /\ Cardinality(Above(x)) \in Nat
        /\ Cardinality(Above(y)) < Cardinality(Above(x))
    BY <2>4, <2>5, SmallerSubset
  <2> QED
    BY <1>4, <2>3, <2>6
<1> QED
  BY <1>0, <1>5

-----------------------------------------------------------------------------
(***************************************************************************)
(* Reachability.                                                           *)
(***************************************************************************)
(* A graph: a set of edges between tables.                                 *)
Graph(edges, tables) == edges \subseteq tables \X tables /\ IsFiniteSet(tables)

(* Table u reaches v over one or more edges.                               *)
Path(edges, u, v) == <<u, v>> \in Reaches(edges)

(* The ends of an edge are nodes, and neighbours.                          *)
LEMMA EdgeEnds ==
  ASSUME NEW tables, NEW edges, Graph(edges, tables)
  PROVE  /\ Nodes(edges) \subseteq tables /\ IsFiniteSet(Nodes(edges))
         /\ \A u, v : <<u, v>> \in edges =>
               u \in Nodes(edges) /\ v \in Nodes(edges) /\ v \in Neighbors(edges, u)
         /\ \A u : \A v \in Neighbors(edges, u) : <<u, v>> \in edges /\ v \in Nodes(edges)
         /\ \A e \in edges : e = <<e[1], e[2]>>
<1>1. \A e \in edges : e = <<e[1], e[2]>> /\ e[1] \in tables /\ e[2] \in tables
  BY DEF Graph
<1>2. Nodes(edges) \subseteq tables
  BY <1>1 DEF Nodes
<1>3. IsFiniteSet(Nodes(edges))
  BY <1>2, FS_Subset DEF Graph
<1>4. ASSUME NEW u, NEW v, <<u, v>> \in edges
      PROVE  u \in Nodes(edges) /\ v \in Nodes(edges) /\ v \in Neighbors(edges, u)
  BY <1>4 DEF Nodes, Neighbors
<1>5. ASSUME NEW u, NEW v \in Neighbors(edges, u)
      PROVE  <<u, v>> \in edges /\ v \in Nodes(edges)
  BY <1>1 DEF Nodes, Neighbors
<1> QED
  BY <1>1, <1>2, <1>3, <1>4, <1>5

(* What no edge leaves and has the neighbours of u has all u reaches.      *)
LEMMA PathStays ==
  ASSUME NEW tables, NEW edges, Graph(edges, tables), NEW S, NEW u, NEW v,
         \A w \in Neighbors(edges, u) : w \in S,
         \A w \in Nodes(edges) \cap S : \A x \in Neighbors(edges, w) : x \in S,
         Path(edges, u, v)
  PROVE  v \in S
<1> DEFINE Z == Nodes(edges) \cap S
<1>1. Z \in ClosedSets(edges)
  BY EdgeEnds DEF ClosedSets
<1>2. Neighbors(edges, u) \subseteq Z
  BY EdgeEnds
<1> QED
  BY <1>1, <1>2 DEF Path, Reaches

(* The ends of a path are nodes.                                           *)
LEMMA PathEnds ==
  ASSUME NEW edges, NEW u, NEW v, Path(edges, u, v)
  PROVE  u \in Nodes(edges) /\ v \in Nodes(edges)
BY DEF Path, Reaches

(* An edge is a path.                                                      *)
LEMMA EdgeIsPath ==
  ASSUME NEW tables, NEW edges, Graph(edges, tables), NEW u, NEW v, <<u, v>> \in edges
  PROVE  Path(edges, u, v)
BY EdgeEnds DEF Path, Reaches

(* Paths compose.                                                          *)
LEMMA PathsCompose ==
  ASSUME NEW tables, NEW edges, Graph(edges, tables), NEW u, NEW v, NEW w,
         Path(edges, u, v), Path(edges, v, w)
  PROVE  Path(edges, u, w)
<1>1. u \in Nodes(edges) /\ v \in Nodes(edges) /\ w \in Nodes(edges)
  BY PathEnds
<1>2. ASSUME NEW S \in ClosedSets(edges), Neighbors(edges, u) \subseteq S PROVE w \in S
  <2>1. v \in S
    BY <1>2 DEF Path, Reaches
  <2>2. Neighbors(edges, v) \subseteq S
    BY <2>1 DEF ClosedSets, Neighbors
  <2> QED
    BY <2>2 DEF Path, Reaches
<1> QED
  BY <1>1, <1>2 DEF Path, Reaches

(* A path begins with an edge.                                             *)
LEMMA PathBegins ==
  ASSUME NEW tables, NEW edges, Graph(edges, tables), NEW u, NEW v, Path(edges, u, v)
  PROVE  \E w \in Neighbors(edges, u) : w = v \/ Path(edges, w, v)
<1> DEFINE S == {x \in Nodes(edges) :
                   \E w \in Neighbors(edges, u) : w = x \/ Path(edges, w, x)}
<1>1. \A w \in Neighbors(edges, u) : w \in S
  BY EdgeEnds
<1>2. ASSUME NEW x \in Nodes(edges) \cap S, NEW y \in Neighbors(edges, x) PROVE y \in S
  <2>1. PICK w \in Neighbors(edges, u) : w = x \/ Path(edges, w, x)
    OBVIOUS
  <2>2. Path(edges, x, y) /\ y \in Nodes(edges)
    BY EdgeEnds, EdgeIsPath
  <2>3. Path(edges, w, y)
    BY <2>1, <2>2, PathsCompose
  <2> QED
    BY <2>2, <2>3
<1> HIDE DEF S
<1>3. v \in S
  BY <1>1, <1>2, PathStays
<1> QED
  BY <1>3 DEF S

(* Induction over the numbers, told of a set.                              *)
LEMMA SetInduction ==
  ASSUME NEW T \in SUBSET Nat, 0 \in T, \A n \in T : n + 1 \in T
  PROVE  T = Nat
<1> SUFFICES ASSUME T # Nat PROVE FALSE
  OBVIOUS
<1> DEFINE U == Nat \ T
<1>1. PICK i \in U : \A j \in U : i <= j
  <2> U \in SUBSET Nat /\ U # {}
    OBVIOUS
  <2> HIDE DEF U
  <2> QED
    BY LeastNumber
<1>2. i \in Nat /\ i # 0 /\ i - 1 \in Nat /\ i - 1 < i
  OBVIOUS
<1>3. i - 1 \in T
  BY <1>1, <1>2
<1>4. (i - 1) + 1 = i
  BY <1>2
<1> QED
  BY <1>3, <1>4

-----------------------------------------------------------------------------
(***************************************************************************)
(* The depth-first search.                                                 *)
(***************************************************************************)
(* What the search does on a path, given what it does on longer ones.      *)
SearchBody(edges, start, f, path) ==
  UNION { IF n = start THEN {ToSet(path)}
          ELSE IF n \in ToSet(path) THEN {}
          ELSE f[Append(path, n)] : n \in Neighbors(edges, Last(path)) }

(* The nodes a path leaves out.                                            *)
Unvisited(edges, path) == Nodes(edges) \ ToSet(path)

(* A step to a new table leaves fewer tables out.                          *)
LEMMA PathGrows ==
  ASSUME NEW tables, NEW edges, Graph(edges, tables), NEW path \in Seq(Nodes(edges)),
         NEW n \in Nodes(edges)
  PROVE  /\ Append(path, n) \in Seq(Nodes(edges)) /\ Append(path, n) # <<>>
         /\ ToSet(Append(path, n)) = ToSet(path) \cup {n}
         /\ Last(Append(path, n)) = n
         /\ Cardinality(Unvisited(edges, path)) \in Nat
         /\ n \notin ToSet(path) =>
              /\ Cardinality(Unvisited(edges, Append(path, n))) \in Nat
              /\ Cardinality(Unvisited(edges, Append(path, n)))
                    < Cardinality(Unvisited(edges, path))
<1> DEFINE N == Nodes(edges)
<1>1. Append(path, n) \in Seq(N) /\ Append(path, n) # <<>> /\ Last(Append(path, n)) = n
  BY DEF Last
<1>2. ToSet(Append(path, n)) = ToSet(path) \cup {n}
  <2> HIDE DEF N
  <2>0. path \in Seq(N) /\ n \in N
    BY DEF N
  <2>1. /\ DOMAIN Append(path, n) = 1..(Len(path) + 1)
        /\ Append(path, n)[Len(path) + 1] = n
        /\ \A i \in 1..Len(path) : Append(path, n)[i] = path[i]
        /\ DOMAIN path = 1..Len(path) /\ Len(path) \in Nat
    BY <2>0
  <2> HIDE <2>0
  <2>2. ASSUME NEW x \in ToSet(Append(path, n)) PROVE x \in ToSet(path) \cup {n}
    BY <2>1 DEF ToSet
  <2>3. ASSUME NEW x \in ToSet(path) \cup {n} PROVE x \in ToSet(Append(path, n))
    BY <2>1 DEF ToSet
  <2> QED
    BY <2>2, <2>3
<1>3. IsFiniteSet(N)
  BY EdgeEnds
<1>4. IsFiniteSet(Unvisited(edges, path))
  BY <1>3, FS_Subset DEF Unvisited
<1>5. ASSUME n \notin ToSet(path)
      PROVE  /\ Cardinality(Unvisited(edges, Append(path, n))) \in Nat
             /\ Cardinality(Unvisited(edges, Append(path, n)))
                    < Cardinality(Unvisited(edges, path))
  <2>1. /\ Unvisited(edges, Append(path, n)) \in SUBSET Unvisited(edges, path)
        /\ Unvisited(edges, Append(path, n)) # Unvisited(edges, path)
    BY <1>2, <1>5 DEF Unvisited
  <2> QED
    BY <2>1, <1>4, SmallerSubset
<1>6. Cardinality(Unvisited(edges, path)) \in Nat
  BY <1>4, FS_CardinalityType
<1> QED
  BY <1>1, <1>2, <1>5, <1>6

(* The search is well-defined, and satisfies its equation.                 *)
LEMMA SearchEquation ==
  ASSUME NEW tables, NEW edges, Graph(edges, tables), NEW start \in Nodes(edges)
  PROVE  \E f : /\ CyclesFrom(edges, start) = f[<<start>>]
                /\ \A path \in Seq(Nodes(edges)) :
                      f[path] = SearchBody(edges, start, f, path)
<1> DEFINE N == Nodes(edges)
           Left(path) == Cardinality(Unvisited(edges, path))
           Right(f, path) == f[path] = SearchBody(edges, start, f, path)
           T == {k \in Nat : \E f : \A path \in Seq(N) : Left(path) < k => Right(f, path)}
<1>1. \A path \in Seq(N) : Left(path) \in Nat
  BY PathGrows
<1>2. 0 \in T
  BY <1>1
<1>3. ASSUME NEW k \in T PROVE k + 1 \in T
  <2>1. PICK f : \A path \in Seq(N) : Left(path) < k => Right(f, path)
    OBVIOUS
  <2> DEFINE g == [path \in Seq(N) |-> SearchBody(edges, start, f, path)]
  <2>2. ASSUME NEW path \in Seq(N), Left(path) < k + 1
        PROVE  SearchBody(edges, start, g, path) = SearchBody(edges, start, f, path)
    <3>1. ASSUME NEW n \in Neighbors(edges, Last(path)), n \notin ToSet(path)
          PROVE  g[Append(path, n)] = f[Append(path, n)]
      <4>1. n \in N
        BY EdgeEnds
      <4>2. Append(path, n) \in Seq(N) /\ Left(Append(path, n)) < Left(path)
            /\ Left(Append(path, n)) \in Nat /\ Left(path) \in Nat
        BY <3>1, <4>1, PathGrows
      <4>3. Left(Append(path, n)) < k
        BY <2>2, <4>2
      <4> QED
        BY <2>1, <4>2, <4>3
    <3> QED
      BY <3>1 DEF SearchBody
  <2>3. ASSUME NEW path \in Seq(N), Left(path) < k + 1 PROVE Right(g, path)
    <3>1. g[path] = SearchBody(edges, start, f, path)
      OBVIOUS
    <3> QED
      BY <2>2, <2>3, <3>1
  <2> HIDE DEF g, Right, Left, N
  <2> QED
    BY <2>3
<1>4. T = Nat
  <2> HIDE DEF T
  <2>1. T \in SUBSET Nat
    BY DEF T
  <2> QED
    BY <1>2, <1>3, <2>1, SetInduction
<1>5. IsFiniteSet(N) /\ Cardinality(N) \in Nat
  BY EdgeEnds, FS_CardinalityType
<1>6. ASSUME NEW path \in Seq(N) PROVE Left(path) < Cardinality(N) + 1
  <2>1. Unvisited(edges, path) \in SUBSET N
    BY DEF Unvisited
  <2>2. Left(path) <= Cardinality(N)
    BY <1>5, <2>1, FS_Subset
  <2> QED
    BY <1>1, <1>5, <2>2
<1>7. PICK f : \A path \in Seq(N) : Right(f, path)
  <2>1. Cardinality(N) + 1 \in T
    BY <1>4, <1>5
  <2> HIDE DEF Right, Left
  <2> QED
    BY <1>6, <2>1
<1> DEFINE g == [path \in Seq(N) |-> SearchBody(edges, start, f, path)]
<1>8. \A path \in Seq(N) : g[path] = f[path]
  BY <1>7
<1>9. ASSUME NEW path \in Seq(N)
      PROVE  SearchBody(edges, start, g, path) = SearchBody(edges, start, f, path)
  <2>1. ASSUME NEW n \in Neighbors(edges, Last(path))
        PROVE  g[Append(path, n)] = f[Append(path, n)]
    <3>1. n \in N
      BY EdgeEnds
    <3>2. Append(path, n) \in Seq(N)
      BY <3>1, PathGrows
    <3> QED
      BY <1>8, <3>2
  <2> QED
    BY <2>1 DEF SearchBody
<1>10. g = [path \in Seq(N) |-> SearchBody(edges, start, g, path)]
  BY <1>9
<1> DEFINE chosen == CHOOSE h : h = [path \in Seq(N) |-> SearchBody(edges, start, h, path)]
<1>11. chosen = [path \in Seq(N) |-> SearchBody(edges, start, chosen, path)]
  <2> HIDE DEF g
  <2> QED
    BY <1>10, Zenon
<1>12. CyclesFrom(edges, start) = chosen[<<start>>]
  BY Zenon DEF CyclesFrom, SearchBody
<1> HIDE DEF chosen
<1>13. \A path \in Seq(N) : chosen[path] = SearchBody(edges, start, chosen, path)
  BY <1>11
<1> QED
  BY <1>12, <1>13

(* A path the search is on: it starts at start, which reaches each of its  *)
(* tables, and each of these reaches the last one.                         *)
OnPath(edges, start, path) ==
  /\ path \in Seq(Nodes(edges)) /\ Last(path) \in ToSet(path) /\ path # <<>>
  /\ \A x \in ToSet(path) : x \in Nodes(edges)
                            /\ (x = start \/ Path(edges, start, x))
                            /\ (x = Last(path) \/ Path(edges, x, Last(path)))

(* Any two tables of a set reach each other.                               *)
StronglyConnected(edges, C) == \A x, y \in C : Path(edges, x, y)

(* What the search finds is a circle.                                      *)
LEMMA SearchIsSound ==
  ASSUME NEW tables, NEW edges, Graph(edges, tables), NEW start \in Nodes(edges),
         NEW f, \A path \in Seq(Nodes(edges)) : f[path] = SearchBody(edges, start, f, path),
         NEW path, OnPath(edges, start, path)
  PROVE  \A C \in f[path] : C # {} /\ C \subseteq Nodes(edges) /\ StronglyConnected(edges, C)
<1> DEFINE N == Nodes(edges)
           Left(p) == Cardinality(Unvisited(edges, p))
           Sound(p) == \A C \in f[p] : C # {} /\ C \subseteq N /\ StronglyConnected(edges, C)
           T == {k \in Nat : \A p \in Seq(N) : OnPath(edges, start, p) /\ Left(p) < k => Sound(p)}
<1>1. \A p \in Seq(N) : Left(p) \in Nat
  BY PathGrows
<1>2. 0 \in T
  BY <1>1
<1>3. ASSUME NEW k \in T PROVE k + 1 \in T
  <2>1. ASSUME NEW p \in Seq(N), OnPath(edges, start, p), Left(p) < k + 1,
               NEW C \in f[p]
        PROVE  C # {} /\ C \subseteq N /\ StronglyConnected(edges, C)
    <3>1. PICK n \in Neighbors(edges, Last(p)) :
             C \in IF n = start THEN {ToSet(p)}
                   ELSE IF n \in ToSet(p) THEN {} ELSE f[Append(p, n)]
      BY <2>1 DEF SearchBody
    <3>2. n \in N /\ Path(edges, Last(p), n)
      BY EdgeEnds, EdgeIsPath
    <3>3. CASE n = start
      <4>1. C = ToSet(p) /\ Last(p) \in ToSet(p) /\ ToSet(p) \subseteq N
        BY <2>1, <3>1, <3>3 DEF OnPath
      <4>2. ASSUME NEW x \in C PROVE Path(edges, x, start)
        <5>1. x = Last(p) \/ Path(edges, x, Last(p))
          BY <4>1, <2>1 DEF OnPath
        <5> QED
          BY <5>1, <3>2, <3>3, PathsCompose
      <4>3. ASSUME NEW x \in C, NEW y \in C PROVE Path(edges, x, y)
        <5>1. y = start \/ Path(edges, start, y)
          BY <4>1, <2>1 DEF OnPath
        <5> QED
          BY <5>1, <4>2, PathsCompose
      <4> QED
        BY <4>1, <4>3 DEF StronglyConnected
    <3>4. CASE n # start
      <4>1. n \notin ToSet(p) /\ C \in f[Append(p, n)]
        BY <3>1, <3>4
      <4> DEFINE q == Append(p, n)
      <4>2. /\ q \in Seq(N) /\ q # <<>> /\ ToSet(q) = ToSet(p) \cup {n} /\ Last(q) = n
            /\ Left(q) \in Nat /\ Left(p) \in Nat /\ Left(q) < Left(p)
        BY <3>2, <4>1, PathGrows
      <4>3. Left(q) < k
        BY <2>1, <4>2
      <4>4. OnPath(edges, start, q)
        <5>1. ASSUME NEW x \in ToSet(p)
              PROVE  x \in N /\ (x = start \/ Path(edges, start, x)) /\ Path(edges, x, n)
          <6>1. x \in N /\ (x = start \/ Path(edges, start, x))
                /\ (x = Last(p) \/ Path(edges, x, Last(p)))
            BY <2>1 DEF OnPath
          <6> QED
            BY <6>1, <3>2, PathsCompose
        <5>2. Path(edges, start, n)
          <6>1. Last(p) \in ToSet(p) /\ (Last(p) = start \/ Path(edges, start, Last(p)))
            BY <2>1 DEF OnPath
          <6> QED
            BY <6>1, <3>2, PathsCompose
        <5> QED
          BY <5>1, <5>2, <4>2, <3>2 DEF OnPath
      <4> HIDE DEF q
      <4> QED
        BY <4>1, <4>2, <4>3, <4>4 DEF q
    <3> QED
      BY <3>3, <3>4
  <2> QED
    BY <2>1
<1>4. T = Nat
  <2>1. T \in SUBSET Nat
    OBVIOUS
  <2> HIDE DEF T
  <2> QED
    BY <1>2, <1>3, <2>1, SetInduction
<1>5. path \in Seq(N) /\ Left(path) \in Nat
  BY <1>1 DEF OnPath
<1>6. Left(path) + 1 \in T /\ Left(path) < Left(path) + 1
  BY <1>4, <1>5
<1> HIDE DEF Left
<1> QED
  BY <1>5, <1>6

-----------------------------------------------------------------------------
(* From y there is a way back to start that keeps out of A: y is in every  *)
(* set of nodes outside A that holds the neighbours of start, backwards,   *)
(* and all that leads to it.                                               *)
ClosedBack(edges, start, A) ==
  {S \in SUBSET (Nodes(edges) \ A) :
      \A z \in Nodes(edges) \ A :
        (start \in Neighbors(edges, z) \/ \E y \in Neighbors(edges, z) : y \in S) => z \in S}

WayBack(edges, start, A) ==
  {y \in Nodes(edges) \ A : \A S \in ClosedBack(edges, start, A) : y \in S}

(* The nodes with a way back are closed themselves.                        *)
LEMMA WayBackCloses ==
  ASSUME NEW edges, NEW start, NEW A
  PROVE  WayBack(edges, start, A) \in ClosedBack(edges, start, A)
<1> DEFINE W == WayBack(edges, start, A)
<1>1. ASSUME NEW z \in Nodes(edges) \ A,
             start \in Neighbors(edges, z) \/ \E y \in Neighbors(edges, z) : y \in W,
             NEW S \in ClosedBack(edges, start, A)
      PROVE  z \in S
  <2>1. \A y \in W : y \in S
    BY DEF WayBack
  <2> QED
    BY <1>1, <2>1 DEF ClosedBack
<1>2. ASSUME NEW z \in Nodes(edges) \ A,
             start \in Neighbors(edges, z) \/ \E y \in Neighbors(edges, z) : y \in W
      PROVE  z \in W
  <2> HIDE <1>2
  <2>1. \A S \in ClosedBack(edges, start, A) : z \in S
    BY <1>1, <1>2
  <2> QED
    BY <2>1 DEF WayBack
<1>3. W \in SUBSET (Nodes(edges) \ A)
  BY DEF WayBack
<1> HIDE DEF W
<1>4. W \in ClosedBack(edges, start, A)
  BY <1>2, <1>3 DEF ClosedBack
<1> QED
  BY <1>4 DEF W

(* A way back goes on without the table it begins with.                    *)
LEMMA WayBackGoesOn ==
  ASSUME NEW edges, NEW start, NEW A, NEW n \in WayBack(edges, start, A)
  PROVE  \/ start \in Neighbors(edges, n)
         \/ \E z \in Neighbors(edges, n) : z \in WayBack(edges, start, A \cup {n})
<1> DEFINE S == WayBack(edges, start, A \cup {n})
<1> SUFFICES ASSUME start \notin Neighbors(edges, n), \A z \in Neighbors(edges, n) : z \notin S
             PROVE  FALSE
  OBVIOUS
<1>1. S \in ClosedBack(edges, start, A \cup {n})
  BY WayBackCloses
<1>2. S \subseteq Nodes(edges) \ (A \cup {n})
  BY DEF WayBack
<1> HIDE DEF S
<1>3. S \in ClosedBack(edges, start, A)
  <2>1. S \in SUBSET (Nodes(edges) \ A)
    BY <1>2
  <2>2. ASSUME NEW z \in Nodes(edges) \ A,
               start \in Neighbors(edges, z) \/ \E y \in Neighbors(edges, z) : y \in S
        PROVE  z \in S
    <3>1. z # n
      BY <2>2
    <3>2. z \in Nodes(edges) \ (A \cup {n})
      BY <3>1
    <3> QED
      BY <3>2, <2>2, <1>1 DEF ClosedBack
  <2> QED
    BY <2>1, <2>2 DEF ClosedBack
<1>4. n \in S
  BY <1>3 DEF WayBack
<1> QED
  BY <1>2, <1>4

(* What reaches a table has a way back to it.                              *)
LEMMA PathIsWayBack ==
  ASSUME NEW tables, NEW edges, Graph(edges, tables), NEW a, NEW b, a # b, Path(edges, b, a)
  PROVE  b \in WayBack(edges, a, {a})
<1>1. a \in Nodes(edges) /\ b \in Nodes(edges)
  BY PathEnds
<1>2. ASSUME NEW S \in ClosedBack(edges, a, {a}), b \notin S PROVE FALSE
  <2> DEFINE V == {x \in Nodes(edges) : x \notin S /\ x # a}
  <2>1. ASSUME NEW x \in V, NEW y \in Neighbors(edges, x) PROVE y \in V
    <3>1. y \in Nodes(edges)
      BY EdgeEnds
    <3>2. x \in Nodes(edges) \ {a} /\ x \notin S
      OBVIOUS
    <3>3. y # a /\ y \notin S
      BY <3>2 DEF ClosedBack
    <3> QED
      BY <3>1, <3>3
  <2>2. b \in V /\ a \notin V
    BY <1>1, <1>2
  <2> HIDE DEF V
  <2>3. \A w \in Neighbors(edges, b) : w \in V
    BY <2>1, <2>2
  <2>4. \A w \in Nodes(edges) \cap V : \A x \in Neighbors(edges, w) : x \in V
    BY <2>1
  <2>5. a \in V
    BY <2>3, <2>4, PathStays
  <2> QED
    BY <2>2, <2>5
<1> QED
  BY <1>1, <1>2 DEF WayBack

(* Where a path has a way back, the search finds a circle through it.      *)
LEMMA SearchIsComplete ==
  ASSUME NEW tables, NEW edges, Graph(edges, tables), NEW start \in Nodes(edges),
         NEW f, \A path \in Seq(Nodes(edges)) : f[path] = SearchBody(edges, start, f, path),
         NEW path \in Seq(Nodes(edges)), NEW n \in Neighbors(edges, Last(path)),
         n = start \/ n \in WayBack(edges, start, ToSet(path))
  PROVE  \E C \in f[path] : ToSet(path) \subseteq C /\ (n # start => n \in C)
<1> DEFINE N == Nodes(edges)
           Left(p) == Cardinality(Unvisited(edges, p))
           Home(p, m) == m = start \/ m \in WayBack(edges, start, ToSet(p))
           Found(p, m) == \E C \in f[p] : ToSet(p) \subseteq C /\ (m # start => m \in C)
           T == {k \in Nat : \A p \in Seq(N) : \A m \in Neighbors(edges, Last(p)) :
                                Left(p) < k /\ Home(p, m) => Found(p, m)}
<1>1. \A p \in Seq(N) : Left(p) \in Nat
  BY PathGrows
<1>2. 0 \in T
  BY <1>1
<1>3. ASSUME NEW k \in T PROVE k + 1 \in T
  <2>1. ASSUME NEW p \in Seq(N), NEW m \in Neighbors(edges, Last(p)), Left(p) < k + 1,
               Home(p, m)
        PROVE  Found(p, m)
    <3>1. m \in N
      BY EdgeEnds
    <3>2. CASE m = start
      <4>1. ToSet(p) \in f[p]
        BY <3>2 DEF SearchBody
      <4> QED
        BY <3>2, <4>1
    <3>3. CASE m # start
      <4>1. m \in WayBack(edges, start, ToSet(p)) /\ m \notin ToSet(p)
        BY <2>1, <3>3 DEF WayBack
      <4> DEFINE q == Append(p, m)
      <4>2. /\ q \in Seq(N) /\ ToSet(q) = ToSet(p) \cup {m} /\ Last(q) = m
            /\ Left(q) \in Nat /\ Left(p) \in Nat /\ Left(q) < Left(p)
        BY <3>1, <4>1, PathGrows
      <4>3. Left(q) < k
        BY <2>1, <4>2
      <4>4. PICK z \in Neighbors(edges, m) :
               z = start \/ z \in WayBack(edges, start, ToSet(p) \cup {m})
        BY <4>1, WayBackGoesOn
      <4>5. f[q] \subseteq f[p]
        BY <3>3, <4>1 DEF SearchBody
      <4> HIDE DEF q, Left
      <4>6. Found(q, z)
        BY <4>2, <4>3, <4>4
      <4>7. PICK C \in f[q] : ToSet(q) \subseteq C
        BY <4>6
      <4>8. C \in f[p] /\ ToSet(p) \subseteq C /\ m \in C
        BY <4>2, <4>5, <4>7
      <4> QED
        BY <4>8
    <3> QED
      BY <3>2, <3>3
  <2> HIDE DEF Left, Home, Found
  <2> QED
    BY <2>1
<1>4. T = Nat
  <2>1. T \in SUBSET Nat
    OBVIOUS
  <2> HIDE DEF T
  <2> QED
    BY <1>2, <1>3, <2>1, SetInduction
<1>5. Left(path) \in Nat
  BY <1>1
<1>6. Left(path) + 1 \in T /\ Left(path) < Left(path) + 1
  <2> HIDE DEF T, Left
  <2> QED
    BY <1>4, <1>5
<1> HIDE DEF Left
<1> QED
  BY <1>6

(* dfsCycles is sound and complete: every set of tables it finds is on a    *)
(* circle, and the ends of every edge that is on a circle are on one it    *)
(* finds.                                                                  *)
THEOREM CirclesFound ==
  ASSUME NEW tables, NEW edges, Graph(edges, tables)
  PROVE  /\ \A C \in FindCircularDependencies(edges) :
               C # {} /\ C \subseteq Nodes(edges) /\ StronglyConnected(edges, C)
         /\ \A a, b : <<a, b>> \in edges /\ (a = b \/ Path(edges, b, a)) =>
               \E C \in FindCircularDependencies(edges) : a \in C /\ b \in C
<1>1. ASSUME NEW C \in FindCircularDependencies(edges)
      PROVE  C # {} /\ C \subseteq Nodes(edges) /\ StronglyConnected(edges, C)
  <2>1. PICK start \in {e[1] : e \in edges} : C \in CyclesFrom(edges, start)
    BY DEF FindCircularDependencies
  <2>2. start \in Nodes(edges)
    BY DEF Nodes
  <2>3. PICK f : /\ CyclesFrom(edges, start) = f[<<start>>]
                 /\ \A path \in Seq(Nodes(edges)) : f[path] = SearchBody(edges, start, f, path)
    BY <2>2, SearchEquation
  <2>4. OnPath(edges, start, <<start>>)
    BY <2>2 DEF OnPath, ToSet, Last
  <2> QED
    BY <2>1, <2>2, <2>3, <2>4, SearchIsSound
<1>2. ASSUME NEW a, NEW b, <<a, b>> \in edges, a = b \/ Path(edges, b, a)
      PROVE  \E C \in FindCircularDependencies(edges) : a \in C /\ b \in C
  <2>1. a \in Nodes(edges) /\ b \in Neighbors(edges, a) /\ a \in {e[1] : e \in edges}
    BY <1>2, EdgeEnds
  <2>2. PICK f : /\ CyclesFrom(edges, a) = f[<<a>>]
                 /\ \A path \in Seq(Nodes(edges)) : f[path] = SearchBody(edges, a, f, path)
    BY <2>1, SearchEquation
  <2>3. <<a>> \in Seq(Nodes(edges)) /\ ToSet(<<a>>) = {a} /\ Last(<<a>>) = a
    BY <2>1 DEF ToSet, Last
  <2>4. b = a \/ b \in WayBack(edges, a, {a})
    BY <1>2, PathIsWayBack
  <2>5. PICK C \in f[<<a>>] : a \in C /\ b \in C
    <3>1. /\ <<a>> \in Seq(Nodes(edges)) /\ b \in Neighbors(edges, Last(<<a>>))
          /\ b = a \/ b \in WayBack(edges, a, ToSet(<<a>>))
      BY <2>1, <2>3, <2>4
    <3>2. \A path \in Seq(Nodes(edges)) : b \in Neighbors(edges, Last(path))
             /\ (b = a \/ b \in WayBack(edges, a, ToSet(path)))
             => \E C \in f[path] : ToSet(path) \subseteq C /\ (b # a => b \in C)
      BY <2>1, <2>2, SearchIsComplete
    <3>3. \E C \in f[<<a>>] : ToSet(<<a>>) \subseteq C /\ (b # a => b \in C)
      BY <3>1, <3>2, Zenon
    <3> QED
      BY <2>3, <3>3
  <2> QED
    BY <2>1, <2>2, <2>5 DEF FindCircularDependencies
<1> QED
  BY <1>1, <1>2

-----------------------------------------------------------------------------
(***************************************************************************)
(* Sequences of a set, and iteration.                                      *)
(***************************************************************************)
(* The sequences of a finite set, one of which SetToSeq is, have each      *)
(* element once.                                                           *)
LEMMA OrdersOfASet ==
  ASSUME NEW S, IsFiniteSet(S)
  PROVE  /\ SetToSeq(S) \in SetToSeqs(S)
         /\ \A s \in SetToSeqs(S) :
              /\ s \in Seq(S) /\ Len(s) = Cardinality(S) /\ Cardinality(S) \in Nat
              /\ DOMAIN s = 1..Cardinality(S) /\ ToSet(s) = S
              /\ \A i, j \in DOMAIN s : s[i] = s[j] => i = j
<1> DEFINE n == Cardinality(S)
<1>1. n \in Nat /\ ExistsBijection(1..n, S)
  BY FS_CardinalityType
<1> HIDE DEF n
<1>2. \E f : f \in [1..n -> S] /\ IsInjective(f)
  BY <1>1 DEF ExistsBijection, Bijection, Injection
<1>3. SetToSeq(S) = CHOOSE f : f \in [1..n -> S] /\ IsInjective(f)
  BY Zenon DEF SetToSeq, n
<1>4. SetToSeq(S) \in [1..n -> S] /\ IsInjective(SetToSeq(S))
  BY <1>2, <1>3, Zenon
<1>5. SetToSeq(S) \in SetToSeqs(S)
  <2>1. \A s : s \in [1..n -> S] /\ IsInjective(s) => s \in SetToSeqs(S)
    BY DEF SetToSeqs, IsInjective, n
  <2> QED
    BY <1>4, <2>1
<1>6. ASSUME NEW s \in SetToSeqs(S)
      PROVE  /\ s \in Seq(S) /\ Len(s) = n
             /\ DOMAIN s = 1..n /\ ToSet(s) = S
             /\ \A i, j \in DOMAIN s : s[i] = s[j] => i = j
  <2>1. s \in [1..n -> S] /\ \A i, j \in 1..n : s[i] = s[j] => i = j
    BY DEF SetToSeqs, n
  <2>2. s \in Seq(S) /\ Len(s) = n /\ DOMAIN s = 1..n
    BY <2>1, <1>1
  <2>3. s \in Injection(1..n, S)
    BY <2>1 DEF Injection, IsInjective
  <2>4. Cardinality(1..n) = Cardinality(S)
    BY <1>1, FS_Interval DEF n
  <2>5. s \in Surjection(1..n, S)
    BY <2>3, <2>4, FS_Injection
  <2>6. \A x \in S : \E i \in 1..n : s[i] = x
    BY <2>5 DEF Surjection
  <2>7. ToSet(s) = S
    BY <2>1, <2>2, <2>6 DEF ToSet
  <2> QED
    BY <2>1, <2>2, <2>7
<1> QED
  BY <1>1, <1>5, <1>6 DEF n

(* f repeats a step on values of V, from v0 on.                            *)
Iterates(f, L, V, v0, step) ==
  /\ f \in [0..L -> V] /\ f[0] = v0
  /\ \A n \in 1..L : f[n] = step[<<n, f[n-1]>>]

(* A step that does not leave V can be repeated.                           *)
LEMMA Iteration ==
  ASSUME NEW L \in Nat, NEW V, NEW v0 \in V, NEW step,
         \A n \in 1..L : \A v \in V : step[<<n, v>>] \in V
  PROVE  \E f : Iterates(f, L, V, v0, step)
<1> DEFINE Good(k, f) == f[0] = v0 /\ f[0] \in V
                         /\ \A n \in 1..L : n <= k => f[n] = step[<<n, f[n-1]>>] /\ f[n] \in V
           T == {k \in Nat : \E f : Good(k, f)}
<1>1. 0 \in T
  <2>1. Good(0, [n \in {0} |-> v0])
    OBVIOUS
  <2> QED
    BY <2>1
<1>2. ASSUME NEW k \in T PROVE k + 1 \in T
  <2>1. PICK f : Good(k, f)
    OBVIOUS
  <2>2. k \in Nat
    OBVIOUS
  <2> DEFINE g == [n \in 0..L |-> IF n = k + 1 THEN step[<<n, f[n-1]>>] ELSE f[n]]
  <2>3. g[0] = v0 /\ g[0] \in V
    BY <2>1, <2>2
  <2>4. ASSUME NEW n \in 1..L, n <= k + 1 PROVE g[n] = step[<<n, g[n-1]>>] /\ g[n] \in V
    <3>1. n - 1 \in 0..L /\ n - 1 # k + 1 /\ g[n-1] = f[n-1] /\ n \in 0..L
      BY <2>2, <2>4
    <3>2. CASE n = k + 1
      <4>1. g[n] = step[<<n, g[n-1]>>]
        BY <3>1, <3>2
      <4>2. f[n-1] \in V
        <5>1. CASE n - 1 = 0
          BY <2>1, <5>1
        <5>2. CASE n - 1 # 0
          <6>1. n - 1 \in 1..L /\ n - 1 <= k
            BY <5>2, <3>2, <2>2
          <6> QED
            BY <2>1, <6>1
        <5> QED
          BY <5>1, <5>2
      <4> HIDE DEF g
      <4> QED
        BY <3>1, <4>1, <4>2
    <3>3. CASE n # k + 1
      <4>1. n <= k
        BY <2>2, <2>4, <3>3
      <4>2. f[n] = step[<<n, f[n-1]>>] /\ f[n] \in V
        BY <2>1, <4>1
      <4>3. g[n] = f[n]
        BY <3>1, <3>3
      <4> HIDE DEF g
      <4> QED
        BY <3>1, <4>2, <4>3
    <3> QED
      BY <3>2, <3>3
  <2> HIDE DEF g
  <2>5. Good(k + 1, g)
    BY <2>3, <2>4
  <2> QED
    BY <2>2, <2>5
<1>3. L \in T
  <2>1. T \in SUBSET Nat
    OBVIOUS
  <2> HIDE DEF T
  <2> QED
    BY <1>1, <1>2, <2>1, SetInduction
<1>4. PICK f : Good(L, f)
  BY <1>3
<1> DEFINE g == [n \in 0..L |-> f[n]]
<1>5. \A n \in 0..L : g[n] = f[n] /\ (n # 0 => n \in 1..L /\ n <= L /\ n - 1 \in 0..L)
  OBVIOUS
<1>6. \A n \in 0..L : g[n] \in V
  <2> HIDE DEF g
  <2> QED
    BY <1>4, <1>5
<1>7. g \in [0..L -> V]
  <2> g = [n \in 0..L |-> g[n]]
    OBVIOUS
  <2> HIDE DEF g
  <2> QED
    BY <1>6
<1> HIDE DEF g
<1>8. g[0] = v0 /\ \A n \in 1..L : g[n] = step[<<n, g[n-1]>>]
  BY <1>4, <1>5
<1> QED
  BY <1>7, <1>8 DEF Iterates

-----------------------------------------------------------------------------
(***************************************************************************)
(* Merging circles that share tables.                                      *)
(***************************************************************************)
(* M is what circles have been merged to: it covers each of them and holds *)
(* strongly connected sets only.                                           *)
Merges(edges, cycles, M) ==
  /\ \A C \in cycles : \E D \in M : C \subseteq D
  /\ \A D \in M : D # {} /\ D \subseteq UNION cycles /\ StronglyConnected(edges, D)

AtMostOne(M, x) == \A C, D \in M : x \in C /\ x \in D => C = D

(* Merging at a table leaves one set that has it.                          *)
LEMMA MergeAtKeeps ==
  ASSUME NEW tables, NEW edges, Graph(edges, tables), NEW cycles, NEW M,
         Merges(edges, cycles, M), NEW t
  PROVE  /\ Merges(edges, cycles, MergeAt(M, t))
         /\ AtMostOne(MergeAt(M, t), t)
         /\ \A x : AtMostOne(M, x) => AtMostOne(MergeAt(M, t), x)
<1> DEFINE shared == {C \in M : t \in C}
           U == UNION shared
           N == MergeAt(M, t)
<1>1. CASE shared = {}
  <2>1. N = M /\ \A C \in M : t \notin C
    BY <1>1 DEF MergeAt
  <2> QED
    BY <2>1 DEF AtMostOne
<1>2. CASE shared # {}
  <2>1. N = (M \ shared) \cup {U}
    BY <1>2 DEF MergeAt
  <2>2. PICK C0 \in M : t \in C0
    BY <1>2
  <2>3. \A C \in M : t \in C => C \subseteq U
    OBVIOUS
  <2>4. \A x \in U : \E C \in M : x \in C /\ t \in C
    OBVIOUS
  <2>5. \A D \in N : D = U \/ (D \in M /\ t \notin D)
    BY <2>1
  <2>6. U \in N /\ \A D \in M : t \notin D => D \in N
    BY <2>1
  <2> HIDE DEF N, U
  <2>7. \A C \in cycles : \E D \in N : C \subseteq D
    <3> SUFFICES ASSUME NEW C \in cycles PROVE \E D \in N : C \subseteq D
      OBVIOUS
    <3>1. PICK D \in M : C \subseteq D
      BY DEF Merges
    <3> QED
      BY <3>1, <2>3, <2>6
  <2>8. U # {} /\ U \subseteq UNION cycles
    BY <2>2, <2>3, <2>4 DEF Merges
  <2>9. ASSUME NEW x \in U, NEW y \in U PROVE Path(edges, x, y)
    <3>1. Path(edges, x, t) /\ Path(edges, t, y)
      BY <2>4 DEF Merges, StronglyConnected
    <3> QED
      BY <3>1, PathsCompose
  <2>10. Merges(edges, cycles, N)
    BY <2>5, <2>7, <2>8, <2>9 DEF Merges, StronglyConnected
  <2>11. AtMostOne(N, t)
    BY <2>5 DEF AtMostOne
  <2>12. ASSUME NEW x, AtMostOne(M, x) PROVE AtMostOne(N, x)
    <3>1. ASSUME NEW D \in M, x \in D, x \in U, t \notin D PROVE FALSE
      BY <2>4, <3>1, <2>12 DEF AtMostOne
    <3> QED
      BY <2>5, <3>1, <2>12 DEF AtMostOne
  <2> QED
    BY <2>10, <2>11, <2>12 DEF N
<1> QED
  BY <1>1, <1>2

(* Merging table after table.                                              *)
LEMMA MergeInOrderKeeps ==
  ASSUME NEW tables, NEW edges, Graph(edges, tables), NEW cycles,
         Merges(edges, cycles, cycles), NEW order, Len(order) \in Nat
  PROVE  /\ Merges(edges, cycles, MergeInOrder(cycles, order))
         /\ \A i \in 1..Len(order) : AtMostOne(MergeInOrder(cycles, order), order[i])
<1> DEFINE L == Len(order)
           V == SUBSET SUBSET UNION cycles
           step == [p \in (1..L) \X V |-> MergeAt(p[2], order[p[1]])]
           Eq(f) == f = [n \in 0..L |-> IF n = 0 THEN cycles ELSE MergeAt(f[n-1], order[n])]
           chosen == CHOOSE f : Eq(f)
<1>1. \A n \in 1..L : \A v \in V : step[<<n, v>>] = MergeAt(v, order[n])
  OBVIOUS
<1>2. ASSUME NEW n \in 1..L, NEW v \in V PROVE MergeAt(v, order[n]) \in V
  BY DEF MergeAt
<1>3. cycles \in V
  OBVIOUS
<1>4. PICK f : Iterates(f, L, V, cycles, step)
  <2> HIDE DEF V, step
  <2>1. \A n \in 1..L : \A v \in V : step[<<n, v>>] \in V
    BY <1>1, <1>2
  <2> QED
    BY <1>3, <2>1, Iteration
<1>5. \E h : Eq(h)
  <2>1. \A n \in 0..L : n # 0 => n \in 1..L /\ n - 1 \in 0..L
    OBVIOUS
  <2> HIDE DEF V, step
  <2>2. \A n \in 0..L : f[n] = IF n = 0 THEN cycles ELSE MergeAt(f[n-1], order[n])
    BY <1>1, <1>4, <2>1 DEF Iterates
  <2>3. f = [n \in 0..L |-> f[n]]
    BY <1>4 DEF Iterates
  <2>4. Eq(f)
    BY <2>2, <2>3
  <2> QED
    BY <2>4
<1>6. Eq(chosen)
  <2> HIDE DEF Eq
  <2> QED
    BY <1>5, Zenon
<1>7. MergeInOrder(cycles, order) = chosen[L]
  BY Zenon DEF MergeInOrder
<1> HIDE DEF chosen
<1>8. chosen[0] = cycles /\ \A n \in 1..L : chosen[n] = MergeAt(chosen[n-1], order[n])
  BY <1>6
<1> DEFINE Good(n) == /\ Merges(edges, cycles, chosen[n])
                      /\ \A i \in 1..L : i <= n => AtMostOne(chosen[n], order[i])
           T == {n \in Nat : n <= L => Good(n)}
<1>9. 0 \in T
  BY <1>8
<1>10. ASSUME NEW n \in T PROVE n + 1 \in T
  <2> SUFFICES ASSUME n + 1 <= L PROVE Good(n + 1)
    OBVIOUS
  <2>1. n \in Nat /\ n <= L /\ n + 1 \in 1..L /\ (n + 1) - 1 = n
    OBVIOUS
  <2>2. Good(n) /\ chosen[n + 1] = MergeAt(chosen[n], order[n + 1])
    <3>1. chosen[n + 1] = MergeAt(chosen[(n + 1) - 1], order[n + 1])
      BY <1>8, <2>1
    <3> QED
      BY <2>1, <3>1
  <2>3. /\ Merges(edges, cycles, chosen[n + 1]) /\ AtMostOne(chosen[n + 1], order[n + 1])
        /\ \A x : AtMostOne(chosen[n], x) => AtMostOne(chosen[n + 1], x)
    BY <2>2, MergeAtKeeps
  <2>4. \A i \in 1..L : i <= n + 1 => i = n + 1 \/ i <= n
    BY <2>1
  <2> QED
    BY <2>2, <2>3, <2>4
<1>11. T = Nat
  <2>1. T \in SUBSET Nat
    OBVIOUS
  <2> HIDE DEF T
  <2> QED
    BY <1>9, <1>10, <2>1, SetInduction
<1>12. Good(L) /\ \A i \in 1..L : i <= L
  BY <1>11
<1> QED
  BY <1>7, <1>12

(* mergeCyclesWithSharedTables gives the strongly connected components of a *)
(* graph without loops, in whatever order it goes through the tables.      *)
THEOREM MergedAreComponents ==
  ASSUME NEW tables, NEW edges, Graph(edges, tables), \A t : <<t, t>> \notin edges,
         NEW order \in SetToSeqs(UNION FindCircularDependencies(edges))
  PROVE  MergeInOrder(FindCircularDependencies(edges), order) = Components(edges)
<1> DEFINE cycles == FindCircularDependencies(edges)
           M == MergeInOrder(cycles, order)
           ComponentOf(t) == {u \in Nodes(edges) : Path(edges, t, u) /\ Path(edges, u, t)}
<1>1. IsFiniteSet(UNION cycles)
  <2>1. UNION cycles \subseteq Nodes(edges)
    BY CirclesFound
  <2> QED
    BY <2>1, EdgeEnds, FS_Subset
<1>2. Merges(edges, cycles, cycles)
  BY CirclesFound DEF Merges
<1> HIDE DEF cycles
<1>3. order \in SetToSeqs(UNION cycles)
  BY DEF cycles
<1>4. Len(order) \in Nat /\ ToSet(order) = UNION cycles /\ DOMAIN order = 1..Len(order)
  BY <1>1, <1>3, OrdersOfASet
<1>5. Merges(edges, cycles, M) /\ \A i \in 1..Len(order) : AtMostOne(M, order[i])
  BY <1>2, <1>4, MergeInOrderKeeps
<1> HIDE DEF M
<1>6. \A x \in UNION cycles : AtMostOne(M, x)
  BY <1>4, <1>5 DEF ToSet
<1>7. \A D \in M : D # {} /\ D \subseteq UNION cycles /\ StronglyConnected(edges, D)
  BY <1>5 DEF Merges
<1>8. ASSUME NEW a, NEW b, <<a, b>> \in edges, Path(edges, b, a)
      PROVE  \E D \in M : a \in D /\ b \in D
  <2>1. PICK C \in cycles : a \in C /\ b \in C
    BY <1>8, CirclesFound DEF cycles
  <2> QED
    BY <2>1, <1>5 DEF Merges
<1>9. ASSUME NEW D \in M, NEW x \in D PROVE D = ComponentOf(x)
  <2>1. x \in Nodes(edges) /\ D \subseteq ComponentOf(x)
    BY <1>7, PathEnds DEF StronglyConnected
  <2>2. ASSUME NEW u \in ComponentOf(x) PROVE u \in D
    <3> DEFINE S == {y \in Nodes(edges) : y \in D \/ ~Path(edges, y, x)}
    <3>1. ASSUME NEW y \in S, NEW z \in Neighbors(edges, y) PROVE z \in S
      <4>1. <<y, z>> \in edges /\ z \in Nodes(edges) /\ Path(edges, y, z)
        BY EdgeEnds, EdgeIsPath
      <4>2. CASE ~Path(edges, z, x)
        BY <4>1, <4>2
      <4>3. CASE Path(edges, z, x)
        <5>1. Path(edges, y, x)
          BY <4>1, <4>3, PathsCompose
        <5>2. y \in D
          BY <5>1
        <5>3. Path(edges, x, y)
          BY <5>2, <1>7 DEF StronglyConnected
        <5>4. Path(edges, z, y)
          BY <5>3, <4>3, PathsCompose
        <5>5. PICK E \in M : y \in E /\ z \in E
          BY <5>4, <4>1, <1>8
        <5>6. E = D
          BY <5>2, <5>5, <1>6, <1>7 DEF AtMostOne
        <5> QED
          BY <5>5, <5>6, <4>1
      <4> QED
        BY <4>2, <4>3
    <3>2. x \in S
      BY <2>1
    <3>3. Path(edges, x, u) /\ Path(edges, u, x)
      OBVIOUS
    <3>4. u \in S => u \in D
      BY <3>3
    <3> HIDE DEF S
    <3>5. /\ \A w \in Neighbors(edges, x) : w \in S
          /\ \A w \in Nodes(edges) \cap S : \A y \in Neighbors(edges, w) : y \in S
      BY <3>1, <3>2
    <3>6. u \in S
      BY <3>3, <3>5, PathStays
    <3> QED
      BY <3>4, <3>6
  <2> HIDE DEF ComponentOf
  <2> QED
    BY <2>1, <2>2
<1>10. ASSUME NEW x, Path(edges, x, x)
       PROVE  \E w : w # x /\ Path(edges, x, w) /\ Path(edges, w, x) /\ <<x, w>> \in edges
  <2>1. PICK w \in Neighbors(edges, x) : w = x \/ Path(edges, w, x)
    BY <1>10, PathBegins
  <2>2. <<x, w>> \in edges /\ Path(edges, x, w)
    BY EdgeEnds, EdgeIsPath
  <2>3. w # x
    BY <2>2
  <2> QED
    BY <2>1, <2>2, <2>3
<1>11. Components(edges) = {S \in {ComponentOf(t) : t \in Nodes(edges)} : \E t, u \in S : t # u}
  BY DEF Components, Path
<1>12. ASSUME NEW D \in M
       PROVE  (\E t \in Nodes(edges) : D = ComponentOf(t)) /\ \E t, u \in D : t # u
  <2>1. PICK x \in D : TRUE
    BY <1>7
  <2>2. D = ComponentOf(x)
    BY <1>9
  <2>3. Path(edges, x, x)
    BY <1>7 DEF StronglyConnected
  <2>4. PICK w : w # x /\ Path(edges, x, w) /\ Path(edges, w, x)
    BY <2>3, <1>10
  <2>5. x \in Nodes(edges) /\ w \in Nodes(edges)
    BY <2>3, <2>4, PathEnds
  <2>6. w \in ComponentOf(x)
    BY <2>4, <2>5
  <2> QED
    BY <2>2, <2>4, <2>5, <2>6
<1>13. ASSUME NEW t \in Nodes(edges), NEW a \in ComponentOf(t), NEW b \in ComponentOf(t), a # b
       PROVE  ComponentOf(t) \in M
  <2>1. Path(edges, t, t)
    BY PathsCompose
  <2>2. PICK w : Path(edges, w, t) /\ <<t, w>> \in edges
    BY <2>1, <1>10
  <2>3. PICK D \in M : t \in D
    BY <2>2, <1>8
  <2>4. D = ComponentOf(t)
    BY <2>3, <1>9
  <2> QED
    BY <2>4
<1> HIDE DEF ComponentOf
<1>14. M = Components(edges)
  BY <1>11, <1>12, <1>13
<1> QED
  BY <1>14 DEF M, cycles

-----------------------------------------------------------------------------
(***************************************************************************)
(* Sorting the keys of a table, and putting the tables' configs together.  *)
(***************************************************************************)
(* Keys can be sorted, so what the sort yields has each of them once.      *)
LEMMA SortedKeys ==
  ASSUME NEW fks, IsFiniteSet(fks), \A fk \in fks : fk.parent \in Nat /\ fk.first \in Nat
  PROVE  SortForeignConstraints(fks) \in SetToSeqs(fks)
<1> DEFINE Sorted(s) == \A i, j \in DOMAIN s : i < j => ~Before(s[j], s[i])
           Sortable(S) == \E s \in SetToSeqs(S) : Sorted(s)
           T == {n \in Nat : \A S \in SUBSET fks : Cardinality(S) = n => Sortable(S)}
           R == {e \in fks \X fks : Before(e[1], e[2])}
<1>1. 0 \in T
  <2> SUFFICES ASSUME NEW S \in SUBSET fks, Cardinality(S) = 0 PROVE Sortable(S)
    OBVIOUS
  <2>1. S = {} /\ IsFiniteSet(S)
    BY FS_Subset, FS_EmptySet
  <2>2. PICK s \in SetToSeqs(S) : DOMAIN s = 1..0
    BY <2>1, OrdersOfASet, FS_EmptySet
  <2>3. Sorted(s)
    BY <2>2
  <2> HIDE DEF Sorted
  <2> QED
    BY <2>3
<1>2. ASSUME NEW n \in T PROVE n + 1 \in T
  <2> SUFFICES ASSUME NEW S \in SUBSET fks, Cardinality(S) = n + 1 PROVE Sortable(S)
    OBVIOUS
  <2>0. n \in Nat
    OBVIOUS
  <2>1. IsFiniteSet(S) /\ S # {}
    BY <2>0, FS_Subset, FS_EmptySet
  <2>2. PICK x \in S : \A y \in S : <<x, y>> \notin R
    <3>1. \A y \in S : <<y, y>> \notin R
      BY DEF Before
    <3>2. \A x, y, z \in S : <<x, y>> \in R /\ <<y, z>> \in R => <<x, z>> \in R
      BY DEF Before
    <3> HIDE DEF R
    <3> QED
      BY <2>1, <3>1, <3>2, MaximalElement
  <2>3. \A y \in S : ~Before(x, y)
    BY <2>2
  <2> DEFINE S2 == S \ {x}
  <2>4. IsFiniteSet(S2) /\ Cardinality(S2) = n /\ S2 \in SUBSET fks
    <3>1. IsFiniteSet(S2) /\ Cardinality(S2) = Cardinality(S) - 1
      BY <2>1, FS_RemoveElement
    <3> QED
      BY <2>0, <3>1
  <2>5. PICK r \in SetToSeqs(S2) : Sorted(r)
    BY <2>4
  <2>6. /\ DOMAIN r = 1..n /\ ToSet(r) = S2 /\ r \in [1..n -> S2]
        /\ \A i, j \in 1..n : i # j => r[i] # r[j]
    BY <2>4, OrdersOfASet DEF SetToSeqs
  <2> DEFINE s == [i \in 1..(n + 1) |-> IF i = n + 1 THEN x ELSE r[i]]
  <2>7. \A i \in 1..(n + 1) : i = n + 1 \/ i \in 1..n
    BY <2>0
  <2>8. \A i \in 1..n : i \in 1..(n + 1) /\ i # n + 1 /\ s[i] = r[i] /\ s[i] \in S /\ s[i] # x
    BY <2>0, <2>6
  <2>9. s[n + 1] = x /\ DOMAIN s = 1..(n + 1) /\ n + 1 \in 1..(n + 1)
    BY <2>0
  <2>10. s = [i \in 1..(n + 1) |-> s[i]]
    OBVIOUS
  <2> HIDE DEF s, S2
  <2>11. s \in SetToSeqs(S)
    <3>1. s \in [1..(n + 1) -> S]
      BY <2>7, <2>8, <2>9, <2>10
    <3>2. \A i, j \in 1..(n + 1) : i # j => s[i] # s[j]
      BY <2>6, <2>7, <2>8, <2>9
    <3> QED
      BY <3>1, <3>2 DEF SetToSeqs
  <2>12. ASSUME NEW i \in DOMAIN s, NEW j \in DOMAIN s, i < j PROVE ~Before(s[j], s[i])
    <3>1. i \in 1..n
      BY <2>0, <2>9, <2>12
    <3>2. CASE j = n + 1
      BY <2>3, <2>8, <2>9, <3>1, <3>2
    <3>3. CASE j \in 1..n
      BY <2>5, <2>6, <2>8, <2>12, <3>1, <3>3
    <3> QED
      BY <2>7, <2>9, <3>2, <3>3
  <2> QED
    BY <2>11, <2>12
<1>3. T = Nat
  <2>1. T \in SUBSET Nat
    OBVIOUS
  <2> HIDE DEF T
  <2> QED
    BY <1>1, <1>2, <2>1, SetInduction
<1>4. Sortable(fks)
  <2>1. Cardinality(fks) \in T
    <3> HIDE DEF T
    <3> QED
      BY <1>3, FS_CardinalityType
  <2> HIDE DEF Sortable
  <2> QED
    BY <2>1
<1> DEFINE Is(s) == s \in SetToSeqs(fks) /\ \A i, j \in DOMAIN s : i < j => ~Before(s[j], s[i])
<1>5. \E s : Is(s)
  BY <1>4
<1>6. SortForeignConstraints(fks) = CHOOSE s : Is(s)
  BY Zenon DEF SortForeignConstraints
<1>7. Is(SortForeignConstraints(fks))
  <2> HIDE DEF Is
  <2> QED
    BY <1>5, <1>6, Zenon
<1> QED
  BY <1>7

(* Putting two sequences together keeps what they hold.                    *)
LEMMA ConcatKeeps ==
  ASSUME NEW X, NEW a \in Seq(X), NEW b \in Seq(X)
  PROVE  a \o b \in Seq(X) /\ \A x : x \in ToSet(a \o b) <=> x \in ToSet(a) \/ x \in ToSet(b)
<1> DEFINE c == a \o b
           La == Len(a)
           Lb == Len(b)
<1>1. /\ c \in Seq(X) /\ Len(c) = La + Lb
      /\ \A i \in 1..(La + Lb) : c[i] = IF i <= La THEN a[i] ELSE b[i - La]
  BY ConcatProperties
<1> HIDE DEF c
<1>2. DOMAIN c = 1..(La + Lb) /\ DOMAIN a = 1..La /\ DOMAIN b = 1..Lb /\ La \in Nat /\ Lb \in Nat
  BY <1>1
<1> HIDE DEF La, Lb
<1>3. ASSUME NEW i \in 1..(La + Lb) PROVE c[i] \in ToSet(a) \/ c[i] \in ToSet(b)
  <2>1. i <= La => i \in 1..La
    BY <1>2
  <2>2. ~(i <= La) => i - La \in 1..Lb
    BY <1>2
  <2> QED
    BY <1>1, <1>2, <2>1, <2>2 DEF ToSet
<1>4. ASSUME NEW i \in 1..La PROVE a[i] \in ToSet(c)
  <2>1. i \in 1..(La + Lb) /\ i <= La
    BY <1>2
  <2> QED
    BY <1>1, <1>2, <2>1 DEF ToSet
<1>5. ASSUME NEW i \in 1..Lb PROVE b[i] \in ToSet(c)
  <2>1. La + i \in 1..(La + Lb) /\ ~(La + i <= La) /\ (La + i) - La = i
    BY <1>2
  <2>2. c[La + i] = b[i]
    BY <1>1, <2>1
  <2> QED
    BY <1>2, <2>1, <2>2 DEF ToSet
<1>6. \A x : x \in ToSet(c) <=> x \in ToSet(a) \/ x \in ToSet(b)
  BY <1>2, <1>3, <1>4, <1>5 DEF ToSet
<1> QED
  BY <1>1, <1>6 DEF c

(* A sequence without repetition, and sequences that have nothing twice.   *)
Distinct(ss) == \A i, j \in DOMAIN ss : ss[i] = ss[j] => i = j
Apart(ss) == /\ \A i \in DOMAIN ss : Distinct(ss[i])
             /\ \A i, j \in DOMAIN ss : \A x : x \in ToSet(ss[i]) /\ x \in ToSet(ss[j]) => i = j

LEMMA ConcatDistinct ==
  ASSUME NEW X, NEW a \in Seq(X), NEW b \in Seq(X), Distinct(a), Distinct(b),
         \A x \in ToSet(a) : x \notin ToSet(b)
  PROVE  Distinct(a \o b)
<1> DEFINE c == a \o b
           La == Len(a)
           Lb == Len(b)
<1>1. /\ c \in Seq(X) /\ Len(c) = La + Lb
      /\ \A i \in 1..(La + Lb) : c[i] = IF i <= La THEN a[i] ELSE b[i - La]
  BY ConcatProperties
<1> HIDE DEF c
<1>2. DOMAIN c = 1..(La + Lb) /\ DOMAIN a = 1..La /\ DOMAIN b = 1..Lb /\ La \in Nat /\ Lb \in Nat
  BY <1>1
<1> HIDE DEF La, Lb
<1>3. ASSUME NEW i \in 1..(La + Lb)
      PROVE  \/ i <= La /\ i \in 1..La /\ c[i] = a[i] /\ c[i] \in ToSet(a)
             \/ ~(i <= La) /\ i - La \in 1..Lb /\ c[i] = b[i - La] /\ c[i] \in ToSet(b)
  <2>1. CASE i <= La
    <3>1. i \in 1..La /\ c[i] = a[i]
      BY <1>1, <1>2, <2>1
    <3> QED
      BY <1>2, <2>1, <3>1 DEF ToSet
  <2>2. CASE ~(i <= La)
    <3>1. i - La \in 1..Lb /\ c[i] = b[i - La]
      BY <1>1, <1>2, <2>2
    <3> QED
      BY <1>2, <2>2, <3>1 DEF ToSet
  <2> QED
    BY <2>1, <2>2
<1>4. ASSUME NEW i \in 1..(La + Lb), NEW j \in 1..(La + Lb), c[i] = c[j] PROVE i = j
  <2>1. CASE i <= La /\ j <= La
    BY <1>2, <1>3, <1>4, <2>1 DEF Distinct
  <2>2. CASE ~(i <= La) /\ ~(j <= La)
    <3>1. i - La = j - La
      BY <1>2, <1>3, <1>4, <2>2 DEF Distinct
    <3> QED
      BY <1>2, <3>1
  <2>3. CASE (i <= La) # (j <= La)
    BY <1>3, <1>4, <2>3
  <2> QED
    BY <2>1, <2>2, <2>3
<1> QED
  BY <1>2, <1>4 DEF Distinct, c

(* Flattening keeps what the sequences hold, and nothing else.             *)
LEMMA FlattenKeeps ==
  ASSUME NEW X, NEW ss \in Seq(Seq(X))
  PROVE  /\ ToSet(FlattenSeq(ss)) = UNION {ToSet(ss[i]) : i \in DOMAIN ss}
         /\ FlattenSeq(ss) \in Seq(X)
         /\ Apart(ss) => Distinct(FlattenSeq(ss))
<1> DEFINE L == Len(ss)
           V == Seq(X)
           step == [p \in (1..L) \X V |-> p[2] \o ss[p[1]]]
           Eq(f) == f = [i \in 1..L |-> IF i = 1 THEN ss[i] ELSE f[i-1] \o ss[i]]
           chosen == CHOOSE f : Eq(f)
<1>1. L \in Nat /\ DOMAIN ss = 1..L /\ \A i \in 1..L : ss[i] \in V
  OBVIOUS
<1>2. CASE L = 0
  <2>1. FlattenSeq(ss) = ss
    BY <1>2 DEF FlattenSeq
  <2>2. DOMAIN ss = {}
    BY <1>1, <1>2
  <2> QED
    BY <1>1, <1>2, <2>1, <2>2 DEF ToSet, Distinct
<1>3. CASE L # 0
  <2>1. \A n \in 1..L : \A v \in V : step[<<n, v>>] = v \o ss[n]
    BY <1>1
  <2>2. \A n \in 1..L : \A v \in V : v \o ss[n] \in V
    BY <1>1
  <2>3. PICK f : Iterates(f, L, V, <<>>, step)
    <3>1. <<>> \in V
      OBVIOUS
    <3> HIDE DEF V, step
    <3>2. \A n \in 1..L : \A v \in V : step[<<n, v>>] \in V
      BY <2>1, <2>2
    <3> QED
      BY <1>1, <3>1, <3>2, Iteration
  <2>4. f \in [0..L -> V] /\ f[0] = <<>> /\ \A n \in 1..L : f[n] = f[n-1] \o ss[n]
    <3> HIDE DEF V, step
    <3>1. \A n \in 1..L : n - 1 \in 0..L
      BY <1>1
    <3> QED
      BY <2>1, <2>3, <3>1 DEF Iterates
  <2>5. f[1] = ss[1]
    <3>1. 1 \in 1..L /\ 1 - 1 = 0 /\ ss[1] \in Seq(X)
      BY <1>1, <1>3
    <3>2. f[1] = <<>> \o ss[1]
      BY <2>4, <3>1
    <3> QED
      BY <3>1, <3>2, ConcatEmptySeq
  <2>6. \E h : Eq(h)
    <3> DEFINE h == [i \in 1..L |-> f[i]]
    <3>1. \A i \in 1..L : h[i] = f[i] /\ (i # 1 => i - 1 \in 1..L)
      BY <1>1
    <3>2. h = [i \in 1..L |-> h[i]]
      OBVIOUS
    <3> HIDE DEF h
    <3>3. \A i \in 1..L : h[i] = IF i = 1 THEN ss[i] ELSE h[i-1] \o ss[i]
      BY <2>4, <2>5, <3>1
    <3>4. Eq(h)
      BY <3>2, <3>3
    <3> QED
      BY <3>4
  <2>7. Eq(chosen)
    <3> HIDE DEF Eq
    <3> QED
      BY <2>6, Zenon
  <2>8. FlattenSeq(ss) = chosen[L]
    <3>1. FlattenSeq(ss) = IF L = 0 THEN ss ELSE chosen[L]
      BY Zenon DEF FlattenSeq
    <3> QED
      BY <1>3, <3>1
  <2> HIDE DEF chosen
  <2>9. \A i \in 1..L : chosen[i] = IF i = 1 THEN ss[i] ELSE chosen[i-1] \o ss[i]
    BY <2>7
  <2> DEFINE Good(n) == /\ chosen[n] \in Seq(X)
                        /\ \A x : x \in ToSet(chosen[n]) <=> \E i \in 1..n : x \in ToSet(ss[i])
                        /\ Apart(ss) => Distinct(chosen[n])
             T == {n \in Nat : n + 1 <= L => Good(n + 1)}
  <2>10. 0 \in T
    <3>1. chosen[1] = ss[1] /\ ss[1] \in Seq(X)
      BY <1>1, <1>3, <2>9
    <3>2. \A i : i \in 1..1 <=> i = 1
      OBVIOUS
    <3>4. Apart(ss) => Distinct(ss[1])
      BY <1>1, <1>3 DEF Apart
    <3>3. Good(1)
      BY <3>1, <3>2, <3>4
    <3> HIDE DEF Good
    <3> QED
      BY <3>3
  <2>11. ASSUME NEW n \in T PROVE n + 1 \in T
    <3>0. n \in Nat /\ (n + 1) + 1 = n + 2 /\ (n + 1 <= L => Good(n + 1))
      OBVIOUS
    <3> HIDE DEF Good
    <3> SUFFICES ASSUME n + 2 <= L PROVE Good(n + 2)
      BY <3>0
    <3> USE DEF Good
    <3>1. n + 1 <= L /\ n + 2 \in 1..L /\ n + 2 # 1 /\ (n + 2) - 1 = n + 1
      BY <1>1, <3>0
    <3>2. chosen[n + 2] = chosen[n + 1] \o ss[n + 2]
      BY <2>9, <3>1
    <3>3. Good(n + 1)
      BY <3>0, <3>1
    <3>4. chosen[n + 1] \in Seq(X) /\ ss[n + 2] \in Seq(X)
      BY <1>1, <3>1, <3>3
    <3>5. /\ chosen[n + 2] \in Seq(X)
          /\ \A x : x \in ToSet(chosen[n + 2])
                <=> x \in ToSet(chosen[n + 1]) \/ x \in ToSet(ss[n + 2])
      BY <3>2, <3>4, ConcatKeeps
    <3>6. \A i : i \in 1..(n + 2) <=> i \in 1..(n + 1) \/ i = n + 2
      BY <3>1
    <3>7. ASSUME Apart(ss) PROVE Distinct(chosen[n + 2])
      <4>1. \A x \in ToSet(chosen[n + 1]) : x \notin ToSet(ss[n + 2])
        <5>1. \A i \in 1..(n + 1) : i \in DOMAIN ss /\ i # n + 2
          BY <1>1, <3>0, <3>1
        <5>2. n + 2 \in DOMAIN ss
          BY <1>1, <3>1
        <5> QED
          BY <3>3, <3>7, <5>1, <5>2 DEF Apart
      <4>2. Distinct(ss[n + 2])
        BY <1>1, <3>1, <3>7 DEF Apart
      <4> QED
        BY <3>2, <3>3, <3>4, <3>7, <4>1, <4>2, ConcatDistinct
    <3> QED
      BY <3>3, <3>5, <3>6, <3>7
  <2>12. T = Nat
    <3>1. T \in SUBSET Nat
      OBVIOUS
    <3> HIDE DEF T
    <3> QED
      BY <2>10, <2>11, <3>1, SetInduction
  <2>13. L - 1 \in T /\ (L - 1) + 1 = L /\ L <= L
    <3> HIDE DEF T
    <3> QED
      BY <1>1, <1>3, <2>12
  <2>14. Good(L)
    <3> HIDE DEF Good, L
    <3> QED
      BY <2>13
  <2>15. /\ \A x : x \in ToSet(FlattenSeq(ss)) <=> \E i \in DOMAIN ss : x \in ToSet(ss[i])
         /\ FlattenSeq(ss) \in Seq(X) /\ (Apart(ss) => Distinct(FlattenSeq(ss)))
    BY <1>1, <2>8, <2>14
  <2> QED
    BY <2>15
<1> QED
  BY <1>2, <1>3

-----------------------------------------------------------------------------
(***************************************************************************)
(* The rounds of the order check.                                          *)
(***************************************************************************)
Satisfied(c, done) == AreConfigDependenciesSatisfied(c.dependsOn, done)
Ready(configs, done) == {c \in configs : Satisfied(c, done)}

(* More completed configs satisfy no less.                                 *)
LEMMA SatisfiedGrows ==
  ASSUME NEW c, NEW done, NEW more, done \subseteq more, Satisfied(c, done)
  PROVE  Satisfied(c, more)
<1> SUFFICES ASSUME NEW d \in c.dependsOn
             PROVE  /\ \E x \in more : x.table = d.table
                    /\ d.columns \subseteq UNION {x.columns : x \in {y \in more : y.table = d.table}}
  BY DEF Satisfied, AreConfigDependenciesSatisfied
<1>1. /\ \E x \in done : x.table = d.table
      /\ d.columns \subseteq UNION {x.columns : x \in {y \in done : y.table = d.table}}
  BY DEF Satisfied, AreConfigDependenciesSatisfied
<1> QED
  BY <1>1

(* The rounds exist, and satisfy their equation.                           *)
LEMMA RoundsEquation ==
  ASSUME NEW configs, IsFiniteSet(configs)
  PROVE  \E round : /\ IsValidRunOrder(configs) <=> round[Cardinality(configs)] = configs
                    /\ Cardinality(configs) \in Nat /\ round[0] = {}
                    /\ \A n \in 0..Cardinality(configs) : round[n] \subseteq configs
                    /\ \A n \in 1..Cardinality(configs) :
                          round[n] = round[n-1] \cup Ready(configs, round[n-1])
<1> DEFINE L == Cardinality(configs)
           V == SUBSET configs
           step == [p \in (1..L) \X V |-> p[2] \cup Ready(configs, p[2])]
           Eq(f) == f = [n \in 0..L |-> IF n = 0 THEN {}
                           ELSE LET done == f[n-1]
                                IN  done \cup {c \in configs :
                                       AreConfigDependenciesSatisfied(c.dependsOn, done)}]
           chosen == CHOOSE f : Eq(f)
<1>1. L \in Nat
  BY FS_CardinalityType
<1>2. IsValidRunOrder(configs) <=> chosen[L] = configs
  BY Zenon DEF IsValidRunOrder
<1> HIDE DEF L
<1>3. \A n \in 1..L : \A v \in V : step[<<n, v>>] = v \cup Ready(configs, v)
  OBVIOUS
<1>4. \A v \in V : v \cup Ready(configs, v) \in V
  BY DEF Ready
<1>5. PICK f : Iterates(f, L, V, {}, step)
  <2>1. {} \in V
    OBVIOUS
  <2> HIDE DEF V, step
  <2>2. \A n \in 1..L : \A v \in V : step[<<n, v>>] \in V
    BY <1>3, <1>4
  <2> QED
    BY <1>1, <2>1, <2>2, Iteration
<1>6. /\ f \in [0..L -> V] /\ f[0] = {}
      /\ \A n \in 1..L : f[n] = f[n-1] \cup Ready(configs, f[n-1])
  <2> HIDE DEF V, step
  <2>1. \A n \in 1..L : n - 1 \in 0..L
    BY <1>1
  <2> QED
    BY <1>3, <1>5, <2>1 DEF Iterates
<1>7. Eq(f)
  <2>1. f = [n \in 0..L |-> f[n]]
    BY <1>6
  <2>2. \A n \in 0..L : n # 0 => n \in 1..L
    BY <1>1
  <2>3. \A n \in 0..L : f[n] = IF n = 0 THEN {} ELSE f[n-1] \cup Ready(configs, f[n-1])
    BY <1>6, <2>2
  <2>4. f = [n \in 0..L |-> IF n = 0 THEN {} ELSE f[n-1] \cup Ready(configs, f[n-1])]
    BY <2>1, <2>3
  <2> QED
    BY <2>4, Zenon DEF Ready, Satisfied
<1>8. Eq(chosen)
  <2> HIDE DEF Eq
  <2> QED
    BY <1>7, Zenon
<1> HIDE DEF chosen
<1>9. \A n \in 0..L : chosen[n] = IF n = 0 THEN {} ELSE chosen[n-1] \cup Ready(configs, chosen[n-1])
  <2>1. chosen = [n \in 0..L |-> IF n = 0 THEN {} ELSE chosen[n-1] \cup Ready(configs, chosen[n-1])]
    BY <1>8, Zenon DEF Ready, Satisfied
  <2> QED
    BY <2>1
<1>10. chosen[0] = {} /\ \A n \in 1..L : chosen[n] = chosen[n-1] \cup Ready(configs, chosen[n-1])
  <2>1. \A n \in 1..L : n \in 0..L /\ n # 0
    BY <1>1
  <2>2. 0 \in 0..L
    BY <1>1
  <2> QED
    BY <1>9, <2>1, <2>2
<1> DEFINE T == {n \in Nat : n <= L => chosen[n] \subseteq configs}
<1>11. 0 \in T
  BY <1>10
<1>12. ASSUME NEW n \in T PROVE n + 1 \in T
  <2> SUFFICES ASSUME n + 1 <= L PROVE chosen[n + 1] \subseteq configs
    OBVIOUS
  <2>1. n \in Nat /\ n + 1 \in 1..L /\ (n + 1) - 1 = n /\ chosen[n] \subseteq configs
    BY <1>1
  <2>2. chosen[n + 1] = chosen[n] \cup Ready(configs, chosen[n])
    BY <1>10, <2>1
  <2> QED
    BY <2>1, <2>2 DEF Ready
<1>13. T = Nat
  <2>1. T \in SUBSET Nat
    OBVIOUS
  <2> HIDE DEF T
  <2> QED
    BY <1>11, <1>12, <2>1, SetInduction
<1>14. \A n \in 0..L : chosen[n] \subseteq configs
  <2>1. \A n \in 0..L : n \in T /\ n <= L
    <3> HIDE DEF T
    <3> QED
      BY <1>1, <1>13
  <2> QED
    BY <2>1
<1> QED
  BY <1>1, <1>2, <1>10, <1>14 DEF L

(* The configs of an accepted plan have ranks such that each needs only    *)
(* what configs of lower rank write.                                       *)
LEMMA AcceptedAreRanked ==
  ASSUME NEW configs, IsFiniteSet(configs), IsValidRunOrder(configs)
  PROVE  \E rank : /\ \A c \in configs : rank[c] \in Nat
                   /\ \A c \in configs : Satisfied(c, {x \in configs : rank[x] < rank[c]})
<1> DEFINE L == Cardinality(configs)
<1>1. PICK round : /\ round[L] = configs /\ L \in Nat /\ round[0] = {}
                   /\ \A n \in 0..L : round[n] \subseteq configs
                   /\ \A n \in 1..L : round[n] = round[n-1] \cup Ready(configs, round[n-1])
  BY RoundsEquation
<1> HIDE DEF L
<1> DEFINE In(c) == {n \in 0..L : c \in round[n]}
           Least(c, n) == n \in In(c) /\ \A m \in In(c) : n <= m
           rank == [c \in configs |-> CHOOSE n : Least(c, n)]
<1>2. ASSUME NEW c \in configs PROVE Least(c, rank[c])
  <2>1. L \in In(c)
    BY <1>1
  <2>2. In(c) \in SUBSET Nat
    OBVIOUS
  <2>3. \E n : Least(c, n)
    <3> HIDE DEF In
    <3> QED
      BY <2>1, <2>2, LeastNumber
  <2>4. rank[c] = CHOOSE n : Least(c, n)
    OBVIOUS
  <2> HIDE DEF Least, rank
  <2> QED
    BY <2>3, <2>4, Zenon
<1> HIDE DEF rank
<1>3. ASSUME NEW c \in configs
      PROVE  rank[c] \in Nat /\ Satisfied(c, {x \in configs : rank[x] < rank[c]})
  <2>1. /\ rank[c] \in 0..L /\ c \in round[rank[c]]
        /\ \A m \in 0..L : c \in round[m] => rank[c] <= m
    BY <1>2
  <2>2. rank[c] \in 1..L /\ rank[c] - 1 \in 0..L /\ ~(rank[c] <= rank[c] - 1)
    BY <1>1, <2>1
  <2> DEFINE done == round[rank[c] - 1]
  <2>3. c \notin done /\ c \in Ready(configs, done) /\ done \subseteq configs
    BY <1>1, <2>1, <2>2
  <2>4. ASSUME NEW x \in done PROVE rank[x] < rank[c]
    <3>1. x \in configs
      BY <2>3
    <3>2. rank[x] \in 0..L /\ rank[x] <= rank[c] - 1
      BY <1>2, <2>2, <3>1
    <3> QED
      BY <2>1, <3>2, <1>1
  <2> HIDE DEF done
  <2>5. Satisfied(c, done)
    BY <2>3 DEF Ready
  <2> QED
    BY <2>1, <2>3, <2>4, <2>5, SatisfiedGrows
<1> QED
  BY <1>3

(* Where some config can always be completed next, the plan is accepted.   *)
LEMMA NoStuckSetIsAccepted ==
  ASSUME NEW configs, IsFiniteSet(configs),
         \A done \in SUBSET configs : done # configs =>
            \E c \in configs \ done : Satisfied(c, done)
  PROVE  IsValidRunOrder(configs)
<1> DEFINE L == Cardinality(configs)
<1>1. PICK round : /\ IsValidRunOrder(configs) <=> round[L] = configs
                   /\ L \in Nat /\ round[0] = {}
                   /\ \A n \in 0..L : round[n] \subseteq configs
                   /\ \A n \in 1..L : round[n] = round[n-1] \cup Ready(configs, round[n-1])
  BY RoundsEquation
<1> DEFINE T == {n \in Nat : n <= L => n <= Cardinality(round[n])}
<1>2. 0 \in T
  <2>1. Cardinality(round[0]) = 0
    BY <1>1, FS_EmptySet
  <2> QED
    BY <2>1
<1>3. ASSUME NEW n \in T PROVE n + 1 \in T
  <2> SUFFICES ASSUME n + 1 <= L PROVE n + 1 <= Cardinality(round[n + 1])
    OBVIOUS
  <2>1. /\ n \in Nat /\ n \in 0..L /\ n + 1 \in 1..L /\ n + 1 \in 0..L /\ (n + 1) - 1 = n
        /\ n <= Cardinality(round[n])
    BY <1>1
  <2>2. /\ round[n + 1] = round[n] \cup Ready(configs, round[n])
        /\ round[n] \in SUBSET configs /\ round[n + 1] \in SUBSET configs
    BY <1>1, <2>1
  <2>3. CASE round[n] = configs
    <3>1. round[n + 1] = configs
      BY <2>2, <2>3
    <3> QED
      BY <3>1
  <2>4. CASE round[n] # configs
    <3>1. PICK c \in configs \ round[n] : Satisfied(c, round[n])
      BY <2>2, <2>4
    <3>2. round[n] # round[n + 1] /\ round[n] \in SUBSET round[n + 1]
      BY <2>2, <3>1 DEF Ready
    <3>3. IsFiniteSet(round[n + 1])
      BY <2>2, FS_Subset
    <3>4. /\ Cardinality(round[n]) \in Nat /\ Cardinality(round[n + 1]) \in Nat
          /\ Cardinality(round[n]) < Cardinality(round[n + 1])
      BY <3>2, <3>3, SmallerSubset
    <3> QED
      BY <2>1, <3>4
  <2> QED
    BY <2>3, <2>4
<1>4. T = Nat
  <2>1. T \in SUBSET Nat
    OBVIOUS
  <2> HIDE DEF T
  <2> QED
    BY <1>2, <1>3, <2>1, SetInduction
<1>5. L <= Cardinality(round[L])
  <2>1. L \in T
    <3> HIDE DEF T
    <3> QED
      BY <1>1, <1>4
  <2> QED
    BY <1>1, <2>1
<1>6. round[L] \in SUBSET configs
  BY <1>1
<1>7. Cardinality(round[L]) <= L /\ Cardinality(round[L]) \in Nat
      /\ (L = Cardinality(round[L]) => configs = round[L])
  BY <1>6, FS_Subset, FS_CardinalityType
<1> QED
  BY <1>1, <1>5, <1>7

-----------------------------------------------------------------------------
(***************************************************************************)
(* The plan of a schema.                                                   *)
(***************************************************************************)
(* The keys of a table the planner sees, whether it splits the table, and  *)
(* the configs it makes of it.                                             *)
Keys(s, t) == FilterDependencies(s)[t]
IsSplit(s, t) == t \in ConstrainedTables(s, FilterDependencies(s))
Updates(s, t) == SplitUpdateConfigs(Keys(s, t), t)
InsertOf(s, t) == IF IsSplit(s, t) THEN SplitInsertConfig(s, Keys(s, t), t)
                  ELSE InsertConfig(s, FilterDependencies(s), t)
ConfigsOf(s, t) ==
  {InsertOf(s, t)} \cup
  (IF IsSplit(s, t) THEN {Updates(s, t)[n] : n \in DOMAIN Updates(s, t)} ELSE {})
PlanOf(s) == UNION {ConfigsOf(s, t) : t \in s.tables}

(* The keys of a table, and those that get an UPDATE, one by one.          *)
LEMMA KeysOfTable ==
  ASSUME NEW s, IsSchema(s), NEW t \in s.tables
  PROVE  /\ IsFiniteSet(Keys(s, t)) /\ Keys(s, t) \subseteq s.foreignKeys[t]
         /\ \A fk \in Keys(s, t) : fk.parent \in s.tables /\ fk.notNullable \subseteq fk.columns
         /\ \A fk \in s.foreignKeys[t] : fk.parent \in s.tables => fk \in Keys(s, t)
         /\ Len(NullableKeys(Keys(s, t))) \in Nat
         /\ DOMAIN NullableKeys(Keys(s, t)) = 1..Len(NullableKeys(Keys(s, t)))
         /\ ToSet(NullableKeys(Keys(s, t))) = {fk \in Keys(s, t) : fk.columns # fk.notNullable}
         /\ \A i, j \in 1..Len(NullableKeys(Keys(s, t))) :
               NullableKeys(Keys(s, t))[i] = NullableKeys(Keys(s, t))[j] => i = j
<1>1. Keys(s, t) = {fk \in s.foreignKeys[t] : fk.parent \in s.tables}
  BY DEF Keys, FilterDependencies
<1>2. IsFiniteSet(Keys(s, t))
  BY <1>1, FS_Subset DEF IsSchema
<1>3. \A fk \in Keys(s, t) : fk.parent \in Nat /\ fk.first \in Nat /\ fk.notNullable \subseteq fk.columns
  BY <1>1 DEF IsSchema
<1> DEFINE K == {fk \in Keys(s, t) : fk.columns # fk.notNullable}
<1>4. IsFiniteSet(K) /\ \A fk \in K : fk.parent \in Nat /\ fk.first \in Nat
  BY <1>2, <1>3, FS_Subset
<1>5. NullableKeys(Keys(s, t)) \in SetToSeqs(K)
  BY <1>4, SortedKeys DEF NullableKeys
<1> HIDE DEF K
<1>6. LET ks == NullableKeys(Keys(s, t))
      IN  /\ Len(ks) = Cardinality(K) /\ Cardinality(K) \in Nat /\ DOMAIN ks = 1..Cardinality(K)
          /\ ToSet(ks) = K /\ \A i, j \in DOMAIN ks : ks[i] = ks[j] => i = j
  BY <1>4, <1>5, OrdersOfASet
<1> QED
  BY <1>1, <1>2, <1>3, <1>6 DEF K

(* The UPDATEs of a table: one for each nullable key.                      *)
LEMMA UpdatesOfTable ==
  ASSUME NEW s, IsSchema(s), NEW t \in s.tables
  PROVE  /\ DOMAIN Updates(s, t) = 1..Len(NullableKeys(Keys(s, t)))
         /\ Len(Updates(s, t)) = Len(NullableKeys(Keys(s, t)))
         /\ Len(NullableKeys(Keys(s, t))) \in Nat
         /\ \A n \in DOMAIN Updates(s, t) :
              LET k == NullableKeys(Keys(s, t))[n]
                  u == Updates(s, t)[n]
              IN  /\ k \in Keys(s, t) /\ k.columns # k.notNullable
                  /\ u = UpdateConfig(t, k, n, IF n = 1 THEN {}
                            ELSE UpdateColumns(NullableKeys(Keys(s, t))[n-1]))
<1>1. /\ Len(NullableKeys(Keys(s, t))) \in Nat
      /\ DOMAIN NullableKeys(Keys(s, t)) = 1..Len(NullableKeys(Keys(s, t)))
      /\ ToSet(NullableKeys(Keys(s, t))) = {fk \in Keys(s, t) : fk.columns # fk.notNullable}
  BY KeysOfTable
<1>2. Updates(s, t) = [n \in 1..Len(NullableKeys(Keys(s, t))) |->
            UpdateConfig(t, NullableKeys(Keys(s, t))[n], n,
                IF n = 1 THEN {} ELSE UpdateColumns(NullableKeys(Keys(s, t))[n-1]))]
  BY DEF Updates, SplitUpdateConfigs
<1>3. \A n \in 1..Len(NullableKeys(Keys(s, t))) :
         NullableKeys(Keys(s, t))[n] \in ToSet(NullableKeys(Keys(s, t)))
  BY <1>1 DEF ToSet
<1> QED
  BY <1>1, <1>2, <1>3

(* The columns that columns of a key reference.                            *)
Referenced(fk, columns) == {fk.references[c] : c \in columns}

(* The INSERT of a table.                                                  *)
LEMMA InsertFacts ==
  ASSUME NEW s, NEW t
  PROVE  /\ InsertOf(s, t).table = t /\ InsertOf(s, t).runType = Insert
         /\ InsertOf(s, t).count = 0
         /\ IsSplit(s, t) =>
              /\ \A d : d \in InsertOf(s, t).dependsOn <=>
                    \E fk \in Keys(s, t) : fk.notNullable # {}
                       /\ d = Dependency(fk.parent, Referenced(fk, fk.notNullable))
              /\ InsertOf(s, t).columns =
                   PrimaryKeys \cup (Columns(s, t) \ UNION {fk.columns : fk \in Keys(s, t)})
                               \cup UNION {fk.notNullable : fk \in Keys(s, t)}
         /\ ~IsSplit(s, t) =>
              /\ \A d : d \in InsertOf(s, t).dependsOn <=>
                    \E fk \in Keys(s, t) : d = Dependency(fk.parent, Referenced(fk, fk.columns))
              /\ InsertOf(s, t).columns = Columns(s, t)
<1>1. CASE IsSplit(s, t)
  <2>1. InsertOf(s, t) = SplitInsertConfig(s, Keys(s, t), t)
    BY <1>1 DEF InsertOf
  <2> QED
    BY <1>1, <2>1 DEF SplitInsertConfig, RunConfig, RunTypeInsert, Insert, Referenced
<1>2. CASE ~IsSplit(s, t)
  <2>1. InsertOf(s, t) = InsertConfig(s, FilterDependencies(s), t)
    BY <1>2 DEF InsertOf
  <2> QED
    BY <1>2, <2>1 DEF InsertConfig, RunConfig, RunTypeInsert, Insert, Keys, Referenced
<1> QED
  BY <1>1, <1>2

(* The key the n-th UPDATE of a table is for, and what the UPDATE before   *)
(* it writes.                                                              *)
KeyNo(s, t, n) == NullableKeys(Keys(s, t))[n]
Previous(s, t, n) == IF n = 1 THEN {} ELSE UpdateColumns(KeyNo(s, t, n - 1))

(* An UPDATE of a table.                                                   *)
LEMMA UpdateFacts ==
  ASSUME NEW s, IsSchema(s), NEW t \in s.tables, NEW n \in DOMAIN Updates(s, t)
  PROVE  /\ n \in 1..Len(NullableKeys(Keys(s, t))) /\ Len(NullableKeys(Keys(s, t))) \in Nat
         /\ Updates(s, t)[n].table = t /\ Updates(s, t)[n].runType = Update
         /\ Updates(s, t)[n].count = n
         /\ Updates(s, t)[n].columns = KeyNo(s, t, n).columns \ KeyNo(s, t, n).notNullable
         /\ KeyNo(s, t, n) \in Keys(s, t)
         /\ KeyNo(s, t, n).columns # KeyNo(s, t, n).notNullable
         /\ \A d : d \in Updates(s, t)[n].dependsOn <=>
               \/ d = Dependency(KeyNo(s, t, n).parent,
                                 Referenced(KeyNo(s, t, n), UpdateColumns(KeyNo(s, t, n))))
               \/ KeyNo(s, t, n).parent # t /\ d = Dependency(t, PrimaryKeys)
               \/ Previous(s, t, n) # {} /\ d = Dependency(t, Previous(s, t, n))
<1> DEFINE k == KeyNo(s, t, n)
           u == Updates(s, t)[n]
           prev == Previous(s, t, n)
<1>1. /\ n \in 1..Len(NullableKeys(Keys(s, t))) /\ Len(NullableKeys(Keys(s, t))) \in Nat
      /\ k \in Keys(s, t) /\ k.columns # k.notNullable /\ u = UpdateConfig(t, k, n, prev)
  BY UpdatesOfTable DEF KeyNo, Previous
<1> HIDE DEF k, u, prev
<1>2. /\ u.table = t /\ u.runType = Update /\ u.count = n
      /\ u.columns = k.columns \ k.notNullable
      /\ \A d : d \in u.dependsOn <=>
            \/ d = Dependency(k.parent, Referenced(k, UpdateColumns(k)))
            \/ k.parent # t /\ d = Dependency(t, PrimaryKeys)
            \/ prev # {} /\ d = Dependency(t, prev)
  BY <1>1 DEF UpdateConfig, RunConfig, RunTypeUpdate, Update, UpdateColumns, Referenced
<1> QED
  BY <1>1, <1>2 DEF k, u, prev

(* The configs of a table, as the builder makes them.                      *)
LEMMA BuildTableConfigs ==
  ASSUME NEW s, IsSchema(s), NEW t \in s.tables
  PROVE  LET built == BuildTable(s, FilterDependencies(s),
                                 ConstrainedTables(s, FilterDependencies(s)), t)
         IN  /\ built \in Seq(ConfigsOf(s, t)) /\ ToSet(built) = ConfigsOf(s, t)
             /\ Distinct(built)
<1> DEFINE built == BuildTable(s, FilterDependencies(s),
                               ConstrainedTables(s, FilterDependencies(s)), t)
           X == ConfigsOf(s, t)
<1>1. CASE ~IsSplit(s, t)
  <2>1. built = <<InsertOf(s, t)>> /\ X = {InsertOf(s, t)}
    BY <1>1 DEF BuildTable, IsSplit, InsertOf, ConfigsOf
  <2> QED
    BY <2>1 DEF ToSet, Distinct
<1>2. CASE IsSplit(s, t)
  <2> DEFINE first == <<InsertOf(s, t)>>
             rest == Updates(s, t)
  <2>1. built = first \o rest
    BY <1>2 DEF BuildTable, IsSplit, InsertOf, ConstraintHandlingConfigs, Updates, Keys
  <2>2. X = {InsertOf(s, t)} \cup {rest[n] : n \in DOMAIN rest}
    BY <1>2 DEF ConfigsOf
  <2>3. ToSet(rest) = {rest[n] : n \in DOMAIN rest} /\ rest \in Seq(X)
    <3>1. rest \in [1..Len(NullableKeys(Keys(s, t))) -> X] /\ Len(NullableKeys(Keys(s, t))) \in Nat
      <4>1. rest = [n \in DOMAIN rest |-> rest[n]]
        BY DEF Updates, SplitUpdateConfigs
      <4> QED
        BY <2>2, <4>1, UpdatesOfTable
    <3>2. rest \in Seq(X)
      BY <3>1
    <3> QED
      BY <3>2 DEF ToSet
  <2>4. first \in Seq(X) /\ ToSet(first) = {InsertOf(s, t)}
    BY <2>2 DEF ToSet
  <2>7. Distinct(first) /\ Distinct(rest) /\ \A x \in ToSet(first) : x \notin ToSet(rest)
    <3>1. \A n \in DOMAIN rest : rest[n].count = n /\ rest[n].runType = Update
      BY UpdateFacts
    <3>2. Distinct(rest)
      <4> HIDE DEF rest
      <4> QED
        BY <3>1 DEF Distinct
    <3>3. Distinct(first)
      BY DEF Distinct
    <3>4. InsertOf(s, t).runType = Insert
      BY InsertFacts
    <3> HIDE DEF first, rest
    <3> QED
      BY <2>3, <2>4, <3>1, <3>2, <3>3, <3>4 DEF Insert, Update
  <2> HIDE DEF first, rest, X, built
  <2>8. Distinct(first \o rest)
    BY <2>3, <2>4, <2>7, ConcatDistinct
  <2>5. first \o rest \in Seq(X)
        /\ \A x : x \in ToSet(first \o rest) <=> x \in ToSet(first) \/ x \in ToSet(rest)
    BY <2>3, <2>4, ConcatKeeps
  <2>6. ToSet(built) = X
    BY <2>1, <2>2, <2>3, <2>4, <2>5
  <2> QED
    BY <2>1, <2>5, <2>6, <2>8 DEF built, X
<1> QED
  BY <1>1, <1>2

(* The configs the planner builds do not depend on the order of the tables.*)
LEMMA BuildInAnyOrder ==
  ASSUME NEW s, IsSchema(s), NEW order \in SetToSeqs(s.tables)
  PROVE  /\ ToSet(BuildInOrder(s, order)) = PlanOf(s)
         /\ BuildInOrder(s, order) \in Seq(PlanOf(s)) /\ Distinct(BuildInOrder(s, order))
<1> DEFINE Built(t) == BuildTable(s, FilterDependencies(s),
                                  ConstrainedTables(s, FilterDependencies(s)), t)
           X == PlanOf(s)
           ss == [i \in 1..Len(order) |-> Built(order[i])]
<1>1. IsFiniteSet(s.tables)
  BY DEF IsSchema
<1>2. /\ Len(order) \in Nat /\ DOMAIN order = 1..Len(order) /\ ToSet(order) = s.tables
      /\ \A i \in 1..Len(order) : order[i] \in s.tables
  BY <1>1, OrdersOfASet DEF ToSet
<1>3. \A t \in s.tables : /\ Built(t) \in Seq(ConfigsOf(s, t)) /\ ToSet(Built(t)) = ConfigsOf(s, t)
                         /\ Distinct(Built(t))
  BY BuildTableConfigs
<1>12. \A i, j \in 1..Len(order) : order[i] = order[j] => i = j
  BY <1>1, OrdersOfASet
<1>13. ASSUME NEW t \in s.tables, NEW c \in ConfigsOf(s, t) PROVE c.table = t
  BY InsertFacts, UpdateFacts DEF ConfigsOf
<1>4. \A t \in s.tables : ConfigsOf(s, t) \subseteq X
  BY DEF PlanOf
<1> HIDE DEF X, Built
<1>5. \A t \in s.tables : Built(t) \in Seq(X)
  BY <1>3, <1>4, SeqMonotonic
<1>6. ss \in Seq(Seq(X)) /\ DOMAIN ss = 1..Len(order)
  BY <1>2, <1>5
<1>7. ToSet(FlattenSeq(ss)) = UNION {ToSet(ss[i]) : i \in 1..Len(order)}
  BY <1>6, FlattenKeeps
<1>8. \A t \in s.tables : \E i \in 1..Len(order) : order[i] = t
  BY <1>2 DEF ToSet
<1>9. \A i \in 1..Len(order) : ToSet(ss[i]) = ConfigsOf(s, order[i])
  BY <1>2, <1>3
<1>14. Apart(ss)
  <2>1. ASSUME NEW i \in DOMAIN ss PROVE Distinct(ss[i])
    BY <1>2, <1>3, <1>6
  <2>2. ASSUME NEW i \in DOMAIN ss, NEW j \in DOMAIN ss, NEW x, x \in ToSet(ss[i]), x \in ToSet(ss[j])
        PROVE  i = j
    <3>1. x \in ConfigsOf(s, order[i]) /\ x \in ConfigsOf(s, order[j])
          /\ order[i] \in s.tables /\ order[j] \in s.tables /\ i \in 1..Len(order) /\ j \in 1..Len(order)
      BY <1>2, <1>6, <1>9, <2>2
    <3> QED
      BY <1>12, <1>13, <3>1
  <2> QED
    BY <2>1, <2>2 DEF Apart
<1> HIDE DEF ss
<1>15. FlattenSeq(ss) \in Seq(X) /\ Distinct(FlattenSeq(ss))
  BY <1>6, <1>14, FlattenKeeps
<1>10. ToSet(FlattenSeq(ss)) = X
  BY <1>2, <1>7, <1>8, <1>9 DEF X, PlanOf
<1>11. BuildInOrder(s, order) = FlattenSeq(ss)
  BY DEF BuildInOrder, ss, Built
<1> QED
  BY <1>10, <1>11, <1>15 DEF X

(* So BuildRunConfigs makes one plan of a schema, or none, in whatever      *)
(* order its map iteration yields the tables.                              *)
THEOREM OnePlan ==
  ASSUME NEW s, IsSchema(s)
  PROVE  Plans(s) = IF IsValidRunOrder(PlanOf(s)) THEN {PlanOf(s)} ELSE {}
<1>1. SetToSeq(s.tables) \in SetToSeqs(s.tables)
  BY OrdersOfASet DEF IsSchema
<1>2. ASSUME NEW order \in SetToSeqs(s.tables)
      PROVE  {ToSet(configs) : configs \in BuildRunConfigs(s, order)}
               = IF IsValidRunOrder(PlanOf(s)) THEN {PlanOf(s)} ELSE {}
  <2>1. ToSet(BuildInOrder(s, order)) = PlanOf(s)
    BY BuildInAnyOrder
  <2>2. BuildRunConfigs(s, order)
          = IF IsValidRunOrder(PlanOf(s)) THEN {BuildInOrder(s, order)} ELSE {}
    BY <2>1 DEF BuildRunConfigs
  <2> QED
    BY <2>1, <2>2
<1> QED
  BY <1>1, <1>2 DEF Plans
(* A config of a plan is the INSERT of its table or one of its UPDATEs.    *)
LEMMA ConfigCases ==
  ASSUME NEW s, IsSchema(s), NEW c \in PlanOf(s)
  PROVE  /\ c.table \in s.tables
         /\ c.runType = Insert \/ c.runType = Update
         /\ c.runType = Insert => c = InsertOf(s, c.table)
         /\ c.runType # Insert => /\ IsSplit(s, c.table)
                                  /\ \E n \in DOMAIN Updates(s, c.table) :
                                        c = Updates(s, c.table)[n]
<1>1. PICK t \in s.tables : c \in ConfigsOf(s, t)
  BY DEF PlanOf
<1>2. CASE c = InsertOf(s, t)
  BY <1>2, InsertFacts
<1>3. CASE IsSplit(s, t) /\ \E n \in DOMAIN Updates(s, t) : c = Updates(s, t)[n]
  <2>1. PICK n \in DOMAIN Updates(s, t) : c = Updates(s, t)[n]
    BY <1>3
  <2>2. c.table = t /\ c.runType = Update
    BY <2>1, UpdateFacts
  <2> QED
    BY <1>3, <2>1, <2>2 DEF Insert, Update
<1> QED
  BY <1>1, <1>2, <1>3 DEF ConfigsOf

(* Every mapped table has its INSERT, and, when split, its UPDATEs.        *)
LEMMA TableConfigs ==
  ASSUME NEW s, NEW t \in s.tables
  PROVE  /\ InsertOf(s, t) \in PlanOf(s)
         /\ IsSplit(s, t) => \A n \in DOMAIN Updates(s, t) : Updates(s, t)[n] \in PlanOf(s)
BY DEF PlanOf, ConfigsOf

(* Configs depend on mapped tables, and every UPDATE on its own.           *)
LEMMA DependenciesOfConfigs ==
  ASSUME NEW s, IsSchema(s), NEW c \in PlanOf(s)
  PROVE  /\ \A d \in c.dependsOn : d.table \in s.tables
         /\ c.runType # Insert => \E d \in c.dependsOn : d.table = c.table
<1> DEFINE t == c.table
<1>1. /\ t \in s.tables /\ \A fk \in Keys(s, t) : fk.parent \in s.tables
  BY ConfigCases, KeysOfTable
<1>2. CASE c.runType = Insert
  <2>1. c = InsertOf(s, t)
    BY <1>2, ConfigCases
  <2>2. \A d \in c.dependsOn : \E fk \in Keys(s, t) : d.table = fk.parent
    BY <2>1, InsertFacts DEF Dependency
  <2> QED
    BY <1>1, <1>2, <2>2
<1>3. CASE c.runType # Insert
  <2>1. PICK n \in DOMAIN Updates(s, t) : c = Updates(s, t)[n]
    BY <1>3, ConfigCases
  <2> DEFINE k == KeyNo(s, t, n)
             prev == Previous(s, t, n)
  <2>2. /\ k \in Keys(s, t)
        /\ \A d : d \in c.dependsOn <=>
              \/ d = Dependency(k.parent, Referenced(k, UpdateColumns(k)))
              \/ k.parent # t /\ d = Dependency(t, PrimaryKeys)
              \/ prev # {} /\ d = Dependency(t, prev)
    BY <1>1, <2>1, UpdateFacts
  <2> HIDE DEF k, prev
  <2>3. \A x, y : Dependency(x, y).table = x
    BY DEF Dependency
  <2>4. \E d \in c.dependsOn : d.table = t
    <3>1. CASE k.parent = t
      BY <2>2, <2>3, <3>1
    <3>2. CASE k.parent # t
      BY <2>2, <2>3, <3>2
    <3> QED
      BY <3>1, <3>2
  <2> QED
    BY <1>1, <2>2, <2>3, <2>4
<1> QED
  BY <1>2, <1>3

(* A plan is finite.                                                       *)
LEMMA PlanIsFinite ==
  ASSUME NEW s, IsSchema(s)
  PROVE  IsFiniteSet(PlanOf(s))
<1>1. ASSUME NEW t \in s.tables PROVE IsFiniteSet(ConfigsOf(s, t))
  <2> DEFINE U == {Updates(s, t)[n] : n \in DOMAIN Updates(s, t)}
             L == Len(NullableKeys(Keys(s, t)))
             f == [n \in 1..L |-> Updates(s, t)[n]]
  <2>1. DOMAIN Updates(s, t) = 1..L /\ L \in Nat
    BY UpdatesOfTable
  <2>2. f \in Surjection(1..L, U)
    BY <2>1 DEF Surjection
  <2>3. IsFiniteSet(1..L)
    BY <2>1, FS_Interval
  <2> HIDE DEF f, U, L
  <2>4. IsFiniteSet(U)
    BY <2>2, <2>3, FS_Surjection
  <2>5. IsFiniteSet(U \cup {InsertOf(s, t)}) /\ IsFiniteSet({InsertOf(s, t)})
    BY <2>4, FS_AddElement, FS_Singleton
  <2>6. ConfigsOf(s, t) = U \cup {InsertOf(s, t)} \/ ConfigsOf(s, t) = {InsertOf(s, t)}
    BY DEF ConfigsOf, U
  <2> QED
    BY <2>5, <2>6
<1> DEFINE S == {ConfigsOf(s, t) : t \in s.tables}
           g == [t \in s.tables |-> ConfigsOf(s, t)]
<1>2. g \in Surjection(s.tables, S)
  BY DEF Surjection
<1>3. IsFiniteSet(s.tables)
  BY DEF IsSchema
<1> HIDE DEF g
<1>4. \A X \in S : IsFiniteSet(X)
  BY <1>1
<1> HIDE DEF S
<1>5. IsFiniteSet(S)
  BY <1>2, <1>3, FS_Surjection
<1>6. IsFiniteSet(UNION S)
  BY <1>4, <1>5, FS_UNION
<1> QED
  BY <1>6 DEF PlanOf, S

(* The configs of a table in the plan.                                     *)
LEMMA OwnConfigs ==
  ASSUME NEW s, IsSchema(s), NEW t \in s.tables, NEW c
  PROVE  c \in PlanOf(s) /\ c.table = t <=>
           \/ c = InsertOf(s, t)
           \/ IsSplit(s, t) /\ \E n \in DOMAIN Updates(s, t) : c = Updates(s, t)[n]
<1>1. ASSUME c \in PlanOf(s), c.table = t
      PROVE  \/ c = InsertOf(s, t)
             \/ IsSplit(s, t) /\ \E n \in DOMAIN Updates(s, t) : c = Updates(s, t)[n]
  BY <1>1, ConfigCases
<1>2. ASSUME c = InsertOf(s, t) PROVE c \in PlanOf(s) /\ c.table = t
  BY <1>2, TableConfigs, InsertFacts
<1>3. ASSUME IsSplit(s, t), NEW n \in DOMAIN Updates(s, t), c = Updates(s, t)[n]
      PROVE  c \in PlanOf(s) /\ c.table = t
  BY <1>3, TableConfigs, UpdateFacts
<1> QED
  BY <1>1, <1>2, <1>3

(* A column of a nullable key that is not mandatory is in an UPDATE.       *)
LEMMA NullableKeyHasUpdate ==
  ASSUME NEW s, IsSchema(s), NEW t \in s.tables, NEW fk \in Keys(s, t),
         fk.columns # fk.notNullable
  PROVE  \E n \in DOMAIN Updates(s, t) : fk = KeyNo(s, t, n)
<1>1. fk \in ToSet(NullableKeys(Keys(s, t)))
  BY KeysOfTable
<1> QED
  BY <1>1, KeysOfTable, UpdatesOfTable DEF ToSet, KeyNo

(* The configs of a table write all of its columns, and no column twice    *)
(* that is not shared.                                                     *)
LEMMA ColumnsAreWritten ==
  ASSUME NEW s, IsSchema(s), NEW t \in s.tables
  PROVE  LET own == {c \in PlanOf(s) : c.table = t}
         IN  /\ UNION {c.columns : c \in own} = Columns(s, t)
             /\ \A c, d \in own : c # d => c.columns \cap d.columns \subseteq SharedColumns(s, t)
<1> DEFINE own == {c \in PlanOf(s) : c.table = t}
           ins == InsertOf(s, t)
           N == DOMAIN Updates(s, t)
           up(n) == Updates(s, t)[n]
           key(n) == KeyNo(s, t, n)
<1>1. \A c : c \in own <=> c = ins \/ (IsSplit(s, t) /\ \E n \in N : c = up(n))
  BY OwnConfigs
<1>2. \A n \in N : /\ key(n) \in Keys(s, t)
                   /\ up(n).columns = key(n).columns \ key(n).notNullable
  BY UpdateFacts
<1>3. /\ Keys(s, t) \subseteq s.foreignKeys[t]
      /\ \A fk \in Keys(s, t) : fk.notNullable \subseteq fk.columns
  BY KeysOfTable
<1>4. \A n, m \in N : n # m => key(n) # key(m)
  BY UpdatesOfTable, KeysOfTable DEF KeyNo
<1>5. \A fk \in Keys(s, t) : fk.columns # fk.notNullable => \E n \in N : fk = key(n)
  BY NullableKeyHasUpdate
<1>6. \A fk \in s.foreignKeys[t] : fk.columns \subseteq Columns(s, t)
  BY DEF Columns
<1>7. PrimaryKeys \subseteq Columns(s, t)
  BY DEF Columns
<1> HIDE DEF own, ins, N, up, key
<1>8. CASE ~IsSplit(s, t)
  <2>1. \A c : c \in own <=> c = ins
    BY <1>1, <1>8
  <2>2. ins.columns = Columns(s, t)
    BY <1>8, InsertFacts DEF ins
  <2> QED
    BY <2>1, <2>2 DEF own
<1>9. CASE IsSplit(s, t)
  <2>1. ins.columns = PrimaryKeys \cup (Columns(s, t) \ UNION {fk.columns : fk \in Keys(s, t)})
                                  \cup UNION {fk.notNullable : fk \in Keys(s, t)}
    BY <1>9, InsertFacts DEF ins
  <2>2. \A x : x \in ins.columns <=>
           \/ x \in PrimaryKeys
           \/ x \in Columns(s, t) /\ \A fk \in Keys(s, t) : x \notin fk.columns
           \/ \E fk \in Keys(s, t) : x \in fk.notNullable
    BY <2>1
  <2>3. \A x : x \in UNION {c.columns : c \in own} <=> \E c \in own : x \in c.columns
    OBVIOUS
  <2>4. ASSUME NEW x \in Columns(s, t) PROVE \E c \in own : x \in c.columns
    <3>1. CASE x \in ins.columns
      BY <1>1, <3>1
    <3>2. CASE x \notin ins.columns
      <4>1. PICK fk \in Keys(s, t) : x \in fk.columns /\ x \notin fk.notNullable
        BY <2>2, <3>2
      <4>2. PICK n \in N : fk = key(n)
        BY <1>5, <4>1
      <4>3. x \in up(n).columns
        BY <1>2, <4>1, <4>2
      <4> QED
        BY <1>1, <1>9, <4>3
    <3> QED
      BY <3>1, <3>2
  <2>5. ASSUME NEW c \in own, NEW x \in c.columns PROVE x \in Columns(s, t)
    <3>1. CASE c = ins
      BY <1>3, <1>6, <1>7, <2>2, <3>1
    <3>2. ASSUME NEW n \in N, c = up(n) PROVE x \in Columns(s, t)
      BY <1>2, <1>3, <1>6, <3>2
    <3> QED
      BY <1>1, <3>1, <3>2
  <2>6. UNION {c.columns : c \in own} = Columns(s, t)
    BY <2>3, <2>4, <2>5
  <2>7. \A x : x \in SharedColumns(s, t) <=>
           /\ x \in Columns(s, t)
           /\ \E fk \in s.foreignKeys[t] :
                 /\ x \in fk.columns
                 /\ x \in PrimaryKeys \/ \E k \in s.foreignKeys[t] : k # fk /\ x \in k.columns
    BY DEF SharedColumns
  <2>8. ASSUME NEW n \in N, NEW x, x \in ins.columns, x \in up(n).columns
        PROVE  x \in SharedColumns(s, t)
    <3>1. /\ key(n) \in s.foreignKeys[t] /\ x \in key(n).columns /\ x \notin key(n).notNullable
          /\ key(n) \in Keys(s, t)
      BY <1>2, <1>3, <2>8
    <3>2. x \in PrimaryKeys \/ \E fk \in Keys(s, t) : x \in fk.notNullable
      BY <2>2, <2>8, <3>1
    <3>3. x \in PrimaryKeys \/ \E k \in s.foreignKeys[t] : k # key(n) /\ x \in k.columns
      BY <1>3, <3>1, <3>2
    <3> QED
      BY <1>6, <2>7, <3>1, <3>3
  <2>9. ASSUME NEW n \in N, NEW m \in N, n # m, NEW x, x \in up(n).columns, x \in up(m).columns
        PROVE  x \in SharedColumns(s, t)
    <3>1. /\ key(n) \in s.foreignKeys[t] /\ x \in key(n).columns
          /\ key(m) \in s.foreignKeys[t] /\ x \in key(m).columns /\ key(m) # key(n)
      BY <1>2, <1>3, <1>4, <2>9
    <3> QED
      BY <1>6, <2>7, <3>1
  <2>10. ASSUME NEW c \in own, NEW d \in own, c # d, NEW x, x \in c.columns, x \in d.columns
         PROVE  x \in SharedColumns(s, t)
    <3>1. CASE c = ins
      <4>1. PICK n \in N : d = up(n)
        BY <1>1, <2>10, <3>1
      <4> QED
        BY <2>8, <2>10, <3>1, <4>1
    <3>2. CASE c # ins
      <4>1. PICK n \in N : c = up(n)
        BY <1>1, <3>2
      <4>2. CASE d = ins
        BY <2>8, <2>10, <4>1, <4>2
      <4>3. CASE d # ins
        <5>1. PICK m \in N : d = up(m)
          BY <1>1, <4>3
        <5>2. n # m
          BY <2>10, <4>1, <5>1
        <5> QED
          BY <2>9, <2>10, <4>1, <5>1, <5>2
      <4> QED
        BY <4>2, <4>3
    <3> QED
      BY <3>1, <3>2
  <2>11. \A c, d \in own : c # d => c.columns \cap d.columns \subseteq SharedColumns(s, t)
    BY <2>10
  <2> QED
    BY <2>6, <2>11 DEF own
<1> QED
  BY <1>8, <1>9

-----------------------------------------------------------------------------
(***************************************************************************)
(* A behaviour keeps its schema, plan and groups.                          *)
(***************************************************************************)
Static ==
  /\ schema \in Schemas /\ IsSchema(schema)
  /\ accepted \in BOOLEAN
  /\ accepted <=> IsValidRunOrder(PlanOf(schema))
  /\ plan = IF accepted THEN PlanOf(schema) ELSE {}
  /\ groups = BuildExecutionGroups(plan)

LEMMA InitStatic == Init => Static
<1> SUFFICES ASSUME Init PROVE Static
  OBVIOUS
<1>1. schema \in Schemas /\ IsSchema(schema)
  BY SchemasAssumption DEF Init
<1>2. Plans(schema) = IF IsValidRunOrder(PlanOf(schema)) THEN {PlanOf(schema)} ELSE {}
  BY <1>1, OnePlan
<1>3. accepted = (Plans(schema) # {}) /\ plan \in (IF accepted THEN Plans(schema) ELSE {{}})
  BY DEF Init
<1>4. accepted \in BOOLEAN /\ (accepted <=> IsValidRunOrder(PlanOf(schema)))
  <2>1. Plans(schema) # {} <=> IsValidRunOrder(PlanOf(schema))
    BY <1>2
  <2> QED
    BY <1>3, <2>1
<1>5. plan = IF accepted THEN PlanOf(schema) ELSE {}
  BY <1>2, <1>3, <1>4
<1> QED
  BY <1>1, <1>4, <1>5 DEF Init, Static

LEMMA NextStatic == Static /\ [Next]_vars => Static'
<1> SUFFICES ASSUME Static, [Next]_vars PROVE Static'
  OBVIOUS
<1>1. UNCHANGED <<schema, accepted, plan, groups>>
  BY DEF Next, Complete, Finished, vars
<1> QED
  BY <1>1 DEF Static

(* The schema, the plan BuildRunConfigs makes of it and its groups stay.    *)
THEOREM SpecStatic == Spec => []Static
BY InitStatic, NextStatic, PTL DEF Spec

(* A plan writes every column of every mapped table, none twice that is    *)
(* not shared: the columns buildConstraintHandlingConfigs deals out to the *)
(* INSERT and the UPDATEs.                                                 *)
THEOREM WritesColumnsOnce == Spec => []WritesEveryColumnOnce
<1>1. Static => WritesEveryColumnOnce
  BY ColumnsAreWritten DEF Static, WritesEveryColumnOnce, Planned, Configs
<1> QED
  BY <1>1, SpecStatic, PTL

-----------------------------------------------------------------------------
(***************************************************************************)
(* The execution groups of a plan.                                         *)
(***************************************************************************)
(* Strongly connected components are disjoint, and have the tables that an *)
(* edge links and that reach each other.                                   *)
LEMMA ComponentFacts ==
  ASSUME NEW tables, NEW edges, Graph(edges, tables)
  PROVE  /\ \A D \in Components(edges) :
               D # {} /\ D \subseteq tables /\ StronglyConnected(edges, D)
         /\ \A C, D \in Components(edges) : \A x : x \in C /\ x \in D => C = D
         /\ \A a, b : a # b /\ Path(edges, a, b) /\ Path(edges, b, a) =>
               \E D \in Components(edges) : a \in D /\ b \in D
<1> DEFINE ComponentOf(t) == {u \in Nodes(edges) : Path(edges, t, u) /\ Path(edges, u, t)}
<1>1. Components(edges) = {S \in {ComponentOf(t) : t \in Nodes(edges)} : \E t, u \in S : t # u}
  BY DEF Components, Path
<1>2. ASSUME NEW t, NEW x \in ComponentOf(t), NEW y \in ComponentOf(t) PROVE Path(edges, x, y)
  BY PathsCompose
<1>3. ASSUME NEW t, NEW x \in ComponentOf(t) PROVE ComponentOf(t) = ComponentOf(x)
  <2>1. \A u : Path(edges, t, u) /\ Path(edges, u, t) <=> Path(edges, x, u) /\ Path(edges, u, x)
    BY PathsCompose
  <2> QED
    BY <2>1
<1>4. Nodes(edges) \subseteq tables
  BY EdgeEnds
<1>5. ASSUME NEW a, NEW b, a # b, Path(edges, a, b), Path(edges, b, a)
      PROVE  \E D \in Components(edges) : a \in D /\ b \in D
  <2>1. a \in Nodes(edges) /\ b \in Nodes(edges) /\ Path(edges, a, a)
    BY <1>5, PathEnds, PathsCompose
  <2>2. a \in ComponentOf(a) /\ b \in ComponentOf(a)
    BY <1>5, <2>1
  <2> HIDE DEF ComponentOf
  <2> QED
    BY <1>1, <1>5, <2>1, <2>2
<1>6. \A t : ComponentOf(t) \subseteq Nodes(edges)
  OBVIOUS
<1> HIDE DEF ComponentOf
<1>7. ASSUME NEW D \in Components(edges)
      PROVE  D # {} /\ D \subseteq tables /\ StronglyConnected(edges, D)
  <2>1. PICK t \in Nodes(edges) : D = ComponentOf(t)
    BY <1>1
  <2>2. D # {}
    BY <1>1
  <2> QED
    BY <1>2, <1>4, <1>6, <2>1, <2>2 DEF StronglyConnected
<1>8. ASSUME NEW C \in Components(edges), NEW D \in Components(edges), NEW x, x \in C, x \in D
      PROVE  C = D
  <2>1. PICK t \in Nodes(edges) : C = ComponentOf(t)
    BY <1>1
  <2>2. PICK u \in Nodes(edges) : D = ComponentOf(u)
    BY <1>1
  <2> QED
    BY <1>3, <1>8, <2>1, <2>2
<1> QED
  BY <1>5, <1>7, <1>8

(* The dependencies between the tables of a plan.                          *)
PlanGraph(s) == ConfigDependencyGraph(PlanOf(s))

LEMMA GraphOfPlan ==
  ASSUME NEW s, IsSchema(s)
  PROVE  /\ Graph(PlanGraph(s), s.tables) /\ \A t : <<t, t>> \notin PlanGraph(s)
         /\ \A a, b : <<a, b>> \in PlanGraph(s) <=>
               a # b /\ \E c \in PlanOf(s) : a = c.table /\ \E d \in c.dependsOn : b = d.table
<1>1. ASSUME NEW e \in PlanGraph(s)
      PROVE  \E c \in PlanOf(s) : \E d \in c.dependsOn :
                e = <<c.table, d.table>> /\ d.table # c.table
  BY DEF PlanGraph, ConfigDependencyGraph
<1>2. ASSUME NEW c \in PlanOf(s), NEW d \in c.dependsOn, d.table # c.table
      PROVE  <<c.table, d.table>> \in PlanGraph(s)
  BY <1>2 DEF PlanGraph, ConfigDependencyGraph
<1>3. PlanGraph(s) \subseteq s.tables \X s.tables
  BY <1>1, ConfigCases, DependenciesOfConfigs
<1>4. Graph(PlanGraph(s), s.tables)
  BY <1>3 DEF Graph, IsSchema
<1>5. ASSUME NEW a, NEW b, <<a, b>> \in PlanGraph(s)
      PROVE  a # b /\ \E c \in PlanOf(s) : a = c.table /\ \E d \in c.dependsOn : b = d.table
  BY <1>1, <1>5
<1> QED
  BY <1>2, <1>4, <1>5

(* The merged cycles of a plan are the components of its graph.            *)
LEMMA MergedCyclesOfPlan ==
  ASSUME NEW s, IsSchema(s)
  PROVE  /\ MergedCycles(PlanOf(s)) = Components(PlanGraph(s))
         /\ \A order \in SetToSeqs(UNION FindCircularDependencies(PlanGraph(s))) :
               MergeInOrder(FindCircularDependencies(PlanGraph(s)), order)
                 = Components(PlanGraph(s))
<1> DEFINE cycles == FindCircularDependencies(PlanGraph(s))
<1>1. \A order \in SetToSeqs(UNION cycles) :
         MergeInOrder(cycles, order) = Components(PlanGraph(s))
  BY GraphOfPlan, MergedAreComponents
<1>2. IsFiniteSet(UNION cycles)
  <2>1. UNION cycles \subseteq Nodes(PlanGraph(s)) /\ IsFiniteSet(Nodes(PlanGraph(s)))
    BY GraphOfPlan, CirclesFound, EdgeEnds
  <2> QED
    BY <2>1, FS_Subset
<1>3. MergedCycles(PlanOf(s)) = MergeInOrder(cycles, SetToSeq(UNION cycles))
  BY DEF MergedCycles, MergeCyclesWithSharedTables, PlanGraph
<1> HIDE DEF cycles
<1>4. SetToSeq(UNION cycles) \in SetToSeqs(UNION cycles)
  BY <1>2, OrdersOfASet
<1> QED
  BY <1>1, <1>3, <1>4 DEF cycles

(* The group of a table in the plan of a schema.                           *)
Cycles(s) == Components(PlanGraph(s))
GroupOfTable(s, t) == GroupId(Cycles(s), t)

(* A table is in its group, which is the group of all of its tables, and   *)
(* these reach each other.                                                 *)
LEMMA GroupOfTableFacts ==
  ASSUME NEW s, IsSchema(s), NEW t
  PROVE  /\ t \in GroupOfTable(s, t)
         /\ GroupOfTable(s, t) \in Cycles(s) \/ GroupOfTable(s, t) = {t}
         /\ \A u \in GroupOfTable(s, t) : GroupOfTable(s, u) = GroupOfTable(s, t)
         /\ \A u, v \in GroupOfTable(s, t) : u = v \/ Path(PlanGraph(s), u, v)
         /\ \A D \in Cycles(s) : t \in D => GroupOfTable(s, t) = D
<1>1. /\ \A D \in Cycles(s) : StronglyConnected(PlanGraph(s), D)
      /\ \A C, D \in Cycles(s) : \A x : x \in C /\ x \in D => C = D
  BY GraphOfPlan, ComponentFacts DEF Cycles
<1>2. \A u : \A D \in Cycles(s) : u \in D => GroupOfTable(s, u) = D
  <2> SUFFICES ASSUME NEW u, NEW D \in Cycles(s), u \in D PROVE GroupOfTable(s, u) = D
    OBVIOUS
  <2>1. GroupOfTable(s, u) = CHOOSE cycle \in Cycles(s) : u \in cycle
    BY DEF GroupOfTable, GroupId
  <2>2. GroupOfTable(s, u) \in Cycles(s) /\ u \in GroupOfTable(s, u)
    BY <2>1
  <2> QED
    BY <1>1, <2>2
<1>3. CASE \E D \in Cycles(s) : t \in D
  <2>1. PICK D \in Cycles(s) : t \in D
    BY <1>3
  <2>2. GroupOfTable(s, t) = D /\ \A u \in D : GroupOfTable(s, u) = D
    BY <1>2, <2>1
  <2> QED
    BY <1>1, <1>2, <2>1, <2>2 DEF StronglyConnected
<1>4. CASE ~\E D \in Cycles(s) : t \in D
  <2>1. GroupOfTable(s, t) = {t}
    BY <1>4 DEF GroupOfTable, GroupId
  <2> QED
    BY <1>4, <2>1
<1> QED
  BY <1>3, <1>4

(* Two tables that reach each other are in one group.                      *)
LEMMA SameGroup ==
  ASSUME NEW s, IsSchema(s), NEW a, NEW b,
         Path(PlanGraph(s), a, b), Path(PlanGraph(s), b, a)
  PROVE  GroupOfTable(s, a) = GroupOfTable(s, b)
<1>1. CASE a # b
  <2>1. PICK D \in Cycles(s) : a \in D /\ b \in D
    BY <1>1, GraphOfPlan, ComponentFacts DEF Cycles
  <2> QED
    BY <2>1, GroupOfTableFacts
<1> QED
  BY <1>1

(* The groups of a plan, told of its tables.                               *)
PlanGroups(s) == BuildExecutionGroups(PlanOf(s))
GroupIds(s) == {GroupOfTable(s, t) : t \in s.tables}

LEMMA GroupsOfPlan ==
  ASSUME NEW s, IsSchema(s)
  PROVE  PlanGroups(s) = [id \in GroupIds(s) |->
                            ExecutionGroup(PlanOf(s), Cycles(s), GroupIds(s), id)]
<1>1. PlanGroups(s) = GroupsOver(PlanOf(s), Cycles(s))
  BY MergedCyclesOfPlan DEF PlanGroups, BuildExecutionGroups, Cycles
<1>2. {GroupId(Cycles(s), c.table) : c \in PlanOf(s)} = GroupIds(s)
  <2>1. \A c \in PlanOf(s) : c.table \in s.tables
    BY ConfigCases
  <2>2. \A t \in s.tables : \E c \in PlanOf(s) : c.table = t
    BY TableConfigs, InsertFacts
  <2> QED
    BY <2>1, <2>2 DEF GroupOfTable, GroupIds
<1> QED
  BY <1>1, <1>2 DEF GroupsOver

LEMMA GroupIdsOfPlan ==
  ASSUME NEW s, IsSchema(s)
  PROVE  /\ DOMAIN PlanGroups(s) = GroupIds(s) /\ IsFiniteSet(GroupIds(s))
         /\ \A t \in s.tables : GroupOfTable(s, t) \in GroupIds(s)
         /\ \A id \in GroupIds(s) : \A t \in id : GroupOfTable(s, t) = id
<1> DEFINE f == [t \in s.tables |-> GroupOfTable(s, t)]
<1>1. f \in Surjection(s.tables, GroupIds(s)) /\ IsFiniteSet(s.tables)
  BY DEF Surjection, IsSchema, GroupIds
<1> HIDE DEF f
<1>2. IsFiniteSet(GroupIds(s))
  BY <1>1, FS_Surjection
<1>3. ASSUME NEW id \in GroupIds(s), NEW t \in id PROVE GroupOfTable(s, t) = id
  BY GroupOfTableFacts DEF GroupIds
<1>4. \A t \in s.tables : GroupOfTable(s, t) \in GroupIds(s)
  BY DEF GroupIds
<1>5. DOMAIN PlanGroups(s) = GroupIds(s)
  BY GroupsOfPlan
<1> QED
  BY <1>2, <1>3, <1>4, <1>5

LEMMA MembersOfGroup ==
  ASSUME NEW s, IsSchema(s), NEW id \in GroupIds(s)
  PROVE  /\ \A c : c \in PlanGroups(s)[id].insertConfigs <=>
               c \in PlanOf(s) /\ GroupOfTable(s, c.table) = id /\ c.runType = Insert
         /\ \A c : c \in PlanGroups(s)[id].updateConfigs <=>
               c \in PlanOf(s) /\ GroupOfTable(s, c.table) = id /\ c.runType # Insert
         /\ \A c : c \in GroupConfigs(PlanGroups(s)[id]) <=>
               c \in PlanOf(s) /\ GroupOfTable(s, c.table) = id
         /\ PlanGroups(s)[id].isInCycle <=> id \in Cycles(s)
<1> DEFINE members == Members(PlanOf(s), Cycles(s), id)
<1>1. /\ PlanGroups(s)[id].insertConfigs = {c \in members : c.runType = Insert}
      /\ PlanGroups(s)[id].updateConfigs = {c \in members : c.runType # Insert}
      /\ PlanGroups(s)[id].isInCycle = (id \in Cycles(s))
  BY GroupsOfPlan DEF ExecutionGroup
<1>2. \A c : c \in members <=> c \in PlanOf(s) /\ GroupOfTable(s, c.table) = id
  BY DEF Members, GroupOfTable
<1> HIDE DEF members
<1> QED
  BY <1>1, <1>2 DEF GroupConfigs

(* A member of group id needs a table of group dep.                        *)
Needs(s, id, dep) ==
  /\ dep \in GroupIds(s) /\ dep # id
  /\ \E c \in PlanOf(s) : GroupOfTable(s, c.table) = id /\ \E d \in c.dependsOn : d.table \in dep

LEMMA GroupWaits ==
  ASSUME NEW s, IsSchema(s), NEW id \in GroupIds(s), NEW dep
  PROVE  dep \in PlanGroups(s)[id].dependsOnGroups <=> Needs(s, id, dep)
<1>1. dep \in PlanGroups(s)[id].dependsOnGroups <=>
        dep \in CalculateGroupDependencies(PlanOf(s), Cycles(s), GroupIds(s), id)
  BY GroupsOfPlan DEF ExecutionGroup
<1>2. \A c : c \in Members(PlanOf(s), Cycles(s), id) <=>
            c \in PlanOf(s) /\ GroupOfTable(s, c.table) = id
  BY DEF Members, GroupOfTable
<1>3. dep \in CalculateGroupDependencies(PlanOf(s), Cycles(s), GroupIds(s), id) <=>
         /\ dep \in GroupIds(s) /\ dep # id
         /\ \E c \in PlanOf(s) : GroupOfTable(s, c.table) = id /\ \E d \in c.dependsOn :
               d.table # c.table /\ ~(id \in Cycles(s) /\ d.table \in id) /\ d.table \in dep
  BY <1>2 DEF CalculateGroupDependencies
<1>4. ASSUME dep \in GroupIds(s), dep # id, NEW c, GroupOfTable(s, c.table) = id,
             NEW d, d.table \in dep
      PROVE  d.table # c.table /\ ~(id \in Cycles(s) /\ d.table \in id)
  <2>1. GroupOfTable(s, d.table) = dep
    BY <1>4, GroupIdsOfPlan
  <2>2. c.table \in id
    BY <1>4, GroupOfTableFacts
  <2> QED
    BY <1>4, <2>1, <2>2, GroupIdsOfPlan
<1> QED
  BY <1>1, <1>3, <1>4 DEF Needs

(* The groups of a plan that wait for others.                              *)
WaitsGraph(s) ==
  UNION {{<<id, dep>> : dep \in PlanGroups(s)[id].dependsOnGroups} : id \in DOMAIN PlanGroups(s)}

(* A group that waits for another has a table that needs one of its tables.*)
NeedsTable(s, id, dep) ==
  \E a, b : /\ a \in id /\ b \in dep /\ <<a, b>> \in PlanGraph(s)
            /\ GroupOfTable(s, a) = id /\ GroupOfTable(s, b) = dep

LEMMA WaitsForTable ==
  ASSUME NEW s, IsSchema(s), NEW id, NEW dep, <<id, dep>> \in WaitsGraph(s)
  PROVE  id \in GroupIds(s) /\ dep \in GroupIds(s) /\ dep # id /\ NeedsTable(s, id, dep)
<1>1. id \in GroupIds(s) /\ dep \in PlanGroups(s)[id].dependsOnGroups
  BY GroupIdsOfPlan DEF WaitsGraph
<1>2. Needs(s, id, dep)
  BY <1>1, GroupWaits
<1>3. PICK c \in PlanOf(s) : GroupOfTable(s, c.table) = id /\ \E d \in c.dependsOn : d.table \in dep
  BY <1>2 DEF Needs
<1>4. PICK d \in c.dependsOn : d.table \in dep
  BY <1>3
<1>5. dep \in GroupIds(s) /\ dep # id /\ GroupOfTable(s, d.table) = dep
  BY <1>2, <1>4, GroupIdsOfPlan DEF Needs
<1>6. c.table \in id /\ c.table # d.table
  BY <1>3, <1>5, GroupOfTableFacts
<1>7. <<c.table, d.table>> \in PlanGraph(s)
  BY <1>6, GraphOfPlan
<1> QED
  BY <1>1, <1>3, <1>4, <1>5, <1>6, <1>7 DEF NeedsTable

LEMMA WaitsGraphIsGraph ==
  ASSUME NEW s, IsSchema(s)
  PROVE  Graph(WaitsGraph(s), GroupIds(s))
<1>1. ASSUME NEW e \in WaitsGraph(s) PROVE e \in GroupIds(s) \X GroupIds(s)
  <2>1. PICK id, dep : e = <<id, dep>>
    BY DEF WaitsGraph
  <2>2. id \in GroupIds(s) /\ dep \in GroupIds(s)
    BY <2>1, WaitsForTable
  <2> QED
    BY <2>1, <2>2
<1> QED
  BY <1>1, GroupIdsOfPlan DEF Graph

(* A group that waits for another, over any number of groups, has a table  *)
(* that reaches one of its tables.                                         *)
LEMMA WaitsPathReaches ==
  ASSUME NEW s, IsSchema(s), NEW id, NEW dep, Path(WaitsGraph(s), id, dep)
  PROVE  \E a \in id : \E b \in dep : Path(PlanGraph(s), a, b)
<1> DEFINE S == {g \in GroupIds(s) : \E a \in id : \E b \in g : Path(PlanGraph(s), a, b)}
<1>1. \A a, b : <<a, b>> \in PlanGraph(s) => Path(PlanGraph(s), a, b)
  BY GraphOfPlan, EdgeIsPath
<1>2. ASSUME NEW g \in Neighbors(WaitsGraph(s), id) PROVE g \in S
  <2>1. <<id, g>> \in WaitsGraph(s)
    BY WaitsGraphIsGraph, EdgeEnds
  <2>2. g \in GroupIds(s) /\ \E a, b : a \in id /\ b \in g /\ <<a, b>> \in PlanGraph(s)
    BY <2>1, WaitsForTable DEF NeedsTable
  <2> QED
    BY <1>1, <2>2
<1>3. ASSUME NEW g \in Nodes(WaitsGraph(s)) \cap S, NEW h \in Neighbors(WaitsGraph(s), g)
      PROVE  h \in S
  <2>1. <<g, h>> \in WaitsGraph(s)
    BY WaitsGraphIsGraph, EdgeEnds
  <2>2. PICK x, y : /\ x \in g /\ y \in h /\ <<x, y>> \in PlanGraph(s)
                    /\ GroupOfTable(s, x) = g
    <3>1. NeedsTable(s, g, h)
      BY <2>1, WaitsForTable
    <3> QED
      BY <3>1 DEF NeedsTable
  <2>3. h \in GroupIds(s)
    BY <2>1, WaitsForTable
  <2>4. PICK a \in id, b \in g : Path(PlanGraph(s), a, b)
    OBVIOUS
  <2>5. b = x \/ Path(PlanGraph(s), b, x)
    BY <2>2, GroupOfTableFacts
  <2>6. Path(PlanGraph(s), a, x)
    BY <2>4, <2>5, GraphOfPlan, PathsCompose
  <2>7. Path(PlanGraph(s), a, y)
    BY <1>1, <2>2, <2>6, GraphOfPlan, PathsCompose
  <2> QED
    BY <2>2, <2>3, <2>7
<1> HIDE DEF S
<1>4. dep \in S
  BY <1>2, <1>3, WaitsGraphIsGraph, PathStays
<1> QED
  BY <1>4 DEF S

(* No group waits for itself, over any number of groups.                   *)
LEMMA GroupsAreOrdered ==
  ASSUME NEW s, IsSchema(s), NEW id
  PROVE  ~Path(WaitsGraph(s), id, id)
<1> SUFFICES ASSUME Path(WaitsGraph(s), id, id) PROVE FALSE
  OBVIOUS
<1>1. PICK dep \in Neighbors(WaitsGraph(s), id) : dep = id \/ Path(WaitsGraph(s), dep, id)
  BY WaitsGraphIsGraph, PathBegins
<1>2. <<id, dep>> \in WaitsGraph(s)
  BY WaitsGraphIsGraph, EdgeEnds
<1>3. PICK a, b :
         /\ a \in id /\ b \in dep /\ <<a, b>> \in PlanGraph(s) /\ dep # id
         /\ GroupOfTable(s, a) = id /\ GroupOfTable(s, b) = dep
  <2>1. NeedsTable(s, id, dep) /\ dep # id
    BY <1>2, WaitsForTable
  <2> QED
    BY <2>1 DEF NeedsTable
<1>4. PICK x \in dep, y \in id : Path(PlanGraph(s), x, y)
  BY <1>1, <1>3, WaitsPathReaches
<1>5. (b = x \/ Path(PlanGraph(s), b, x)) /\ (y = a \/ Path(PlanGraph(s), y, a))
  BY <1>3, GroupOfTableFacts
<1>6. Path(PlanGraph(s), x, a)
  BY <1>4, <1>5, GraphOfPlan, PathsCompose
<1>7. Path(PlanGraph(s), b, a)
  BY <1>5, <1>6, GraphOfPlan, PathsCompose
<1>8. Path(PlanGraph(s), a, b)
  BY <1>3, GraphOfPlan, EdgeIsPath
<1> QED
  BY <1>3, <1>7, <1>8, SameGroup

(* The cycle groups of a plan are the strongly connected components of its *)
(* dependency graph, in whatever order mergeCyclesWithSharedTables goes    *)
(* through the tables.                                                     *)
THEOREM CycleGroupsAreComponents == Spec => []GroupsAreComponents
<1>1. ASSUME Static, Planned PROVE GroupsAreComponents
  <2> DEFINE s == schema
  <2>1. IsSchema(s) /\ plan = PlanOf(s) /\ groups = PlanGroups(s)
    BY <1>1 DEF Static, Planned, PlanGroups
  <2>2. ConfigDependencyGraph(Configs) = PlanGraph(s)
    BY <2>1 DEF Configs, PlanGraph
  <2>3. {id \in DOMAIN groups : groups[id].isInCycle} = Cycles(s)
    <3>1. ASSUME NEW id \in Cycles(s) PROVE id \in DOMAIN groups
      <4>1. PICK t \in s.tables : t \in id
        BY <2>1, GraphOfPlan, ComponentFacts DEF Cycles
      <4>2. id = GroupOfTable(s, t)
        BY <2>1, <4>1, GroupOfTableFacts
      <4> QED
        BY <2>1, <4>2, GroupIdsOfPlan
    <3>2. \A id \in DOMAIN groups : groups[id].isInCycle <=> id \in Cycles(s)
      BY <2>1, GroupIdsOfPlan, MembersOfGroup
    <3> QED
      BY <3>1, <3>2
  <2> HIDE DEF s
  <2>4. \A order \in SetToSeqs(UNION FindCircularDependencies(PlanGraph(s))) :
           MergeInOrder(FindCircularDependencies(PlanGraph(s)), order)
             = Components(PlanGraph(s))
    BY <2>1, MergedCyclesOfPlan
  <2> QED
    BY <2>2, <2>3, <2>4 DEF GroupsAreComponents, Cycles
<1>2. Static => GroupsAreComponents
  BY <1>1 DEF GroupsAreComponents
<1> QED
  BY <1>2, SpecStatic, PTL

(* The groups calculateGroupDependencies links part the configs, and none  *)
(* waits for itself through others.                                        *)
THEOREM GroupsPartTheConfigs == Spec => []GroupsArePartitionInOrder
<1>1. ASSUME Static, Planned PROVE GroupsArePartitionInOrder
  <2> DEFINE s == schema
  <2>1. IsSchema(s) /\ Configs = PlanOf(s) /\ groups = PlanGroups(s)
    BY <1>1 DEF Static, Planned, PlanGroups, Configs
  <2> HIDE DEF s
  <2>2. ASSUME NEW c \in Configs
        PROVE  \E id \in DOMAIN groups :
                  /\ c \in GroupConfigs(groups[id])
                  /\ \A other \in DOMAIN groups \ {id} : c \notin GroupConfigs(groups[other])
    <3>1. GroupOfTable(s, c.table) \in DOMAIN groups
      BY <2>1, ConfigCases, GroupIdsOfPlan
    <3>2. \A id \in DOMAIN groups :
             c \in GroupConfigs(groups[id]) <=> id = GroupOfTable(s, c.table)
      BY <2>1, GroupIdsOfPlan, MembersOfGroup
    <3> QED
      BY <3>1, <3>2
  <2>3. UNION {{<<id, dep>> : dep \in groups[id].dependsOnGroups} : id \in DOMAIN groups}
          = WaitsGraph(s)
    BY <2>1 DEF WaitsGraph
  <2>4. \A id : <<id, id>> \notin Reaches(WaitsGraph(s))
    BY <2>1, GroupsAreOrdered DEF Path
  <2> QED
    BY <2>2, <2>3, <2>4 DEF GroupsArePartitionInOrder
<1>2. Static => GroupsArePartitionInOrder
  BY <1>1 DEF GroupsArePartitionInOrder
<1> QED
  BY <1>2, SpecStatic, PTL

-----------------------------------------------------------------------------
(***************************************************************************)
(* The completion tracker over a plan.                                     *)
(***************************************************************************)
Done == tracker.completedConfigs
GroupDone(id) == tracker.completedConfigs \cap GroupConfigs(groups[id])

(* The tracker's counts and flags are those of the completed configs.      *)
TrackerInv ==
  /\ Done \subseteq Configs
  /\ accepted => \A id \in GroupIds(schema) :
       /\ tracker.completedCount[id] = Cardinality(GroupDone(id))
       /\ tracker.insertPhaseComplete[id] \in BOOLEAN
       /\ tracker.insertPhaseComplete[id] <=> groups[id].insertConfigs \subseteq Done
  /\ accepted => /\ DOMAIN tracker.completedCount = GroupIds(schema)
                 /\ DOMAIN tracker.insertPhaseComplete = GroupIds(schema)

(* What Static says of an accepted plan.                                   *)
LEMMA AcceptedPlan ==
  ASSUME Static, accepted
  PROVE  /\ IsSchema(schema) /\ Configs = PlanOf(schema) /\ groups = PlanGroups(schema)
         /\ IsFiniteSet(Configs) /\ IsValidRunOrder(Configs)
         /\ DOMAIN groups = GroupIds(schema)
<1>1. IsSchema(schema) /\ Configs = PlanOf(schema) /\ groups = PlanGroups(schema)
      /\ IsValidRunOrder(PlanOf(schema))
  BY DEF Static, Configs, PlanGroups
<1> QED
  BY <1>1, PlanIsFinite, GroupIdsOfPlan

(* The group of a config is that of its table.                             *)
LEMMA GroupOfConfig ==
  ASSUME Static, accepted, NEW c \in Configs
  PROVE  /\ GroupOf(groups, c) = GroupOfTable(schema, c.table)
         /\ GroupOf(groups, c) \in GroupIds(schema) /\ c.table \in schema.tables
<1>1. /\ IsSchema(schema) /\ Configs = PlanOf(schema) /\ groups = PlanGroups(schema)
      /\ DOMAIN groups = GroupIds(schema)
  BY AcceptedPlan
<1>2. c.table \in schema.tables
  BY <1>1, ConfigCases
<1>3. GroupOfTable(schema, c.table) \in GroupIds(schema)
  BY <1>1, <1>2, GroupIdsOfPlan
<1>4. \A id \in GroupIds(schema) :
         c \in GroupConfigs(groups[id]) <=> id = GroupOfTable(schema, c.table)
  BY <1>1, MembersOfGroup
<1>5. GroupOf(groups, c) = CHOOSE id \in GroupIds(schema) : c \in GroupConfigs(groups[id])
  BY <1>1 DEF GroupOf
<1> QED
  BY <1>2, <1>3, <1>4, <1>5

LEMMA InitTracker == Init => TrackerInv
<1> SUFFICES ASSUME Init PROVE TrackerInv
  OBVIOUS
<1>1. Static
  BY InitStatic
<1>2. tracker = NewGroupCompletionTracker(groups)
  BY DEF Init
<1>3. /\ Done = {}
      /\ tracker.completedCount = [id \in DOMAIN groups |-> 0]
      /\ tracker.insertPhaseComplete = [id \in DOMAIN groups |-> groups[id].insertConfigs = {}]
  BY <1>2 DEF NewGroupCompletionTracker, Done
<1>4. ASSUME accepted, NEW id \in GroupIds(schema)
      PROVE  /\ tracker.completedCount[id] = Cardinality(GroupDone(id))
             /\ tracker.insertPhaseComplete[id] \in BOOLEAN
             /\ tracker.insertPhaseComplete[id] <=> groups[id].insertConfigs \subseteq Done
  <2>1. DOMAIN groups = GroupIds(schema)
    BY <1>1, <1>4, AcceptedPlan
  <2>2. GroupDone(id) = {} /\ Cardinality(GroupDone(id)) = 0
    BY <1>3, FS_EmptySet DEF GroupDone, Done
  <2> QED
    BY <1>3, <2>1, <2>2
<1>5. accepted => DOMAIN groups = GroupIds(schema)
  BY <1>1, AcceptedPlan
<1> QED
  BY <1>3, <1>4, <1>5 DEF TrackerInv

LEMMA NextTracker == Static /\ TrackerInv /\ [Next]_vars => TrackerInv'
<1> SUFFICES ASSUME Static, TrackerInv, [Next]_vars PROVE TrackerInv'
  OBVIOUS
<1>1. CASE UNCHANGED vars
  BY <1>1 DEF TrackerInv, Done, GroupDone, Configs, vars
<1>2. CASE Finished
  BY <1>2 DEF Finished, TrackerInv, Done, GroupDone, Configs, vars
<1>3. ASSUME NEW c \in Configs, Complete(c) PROVE TrackerInv'
  <2>1. accepted
    BY <1>3 DEF Static, Configs
  <2>2. /\ c \notin Done /\ tracker' = MarkConfigComplete(tracker, groups, c)
        /\ UNCHANGED <<schema, accepted, plan, groups>>
    BY <1>3 DEF Complete, Done
  <2> DEFINE own == GroupOf(groups, c)
             more == Done \cup {c}
  <2>3. /\ own \in GroupIds(schema) /\ own = GroupOfTable(schema, c.table)
        /\ IsSchema(schema) /\ Configs = PlanOf(schema) /\ groups = PlanGroups(schema)
        /\ DOMAIN groups = GroupIds(schema) /\ IsFiniteSet(Configs)
    BY <2>1, AcceptedPlan, GroupOfConfig
  <2>4. /\ Done' = more
        /\ tracker'.completedCount = [tracker.completedCount EXCEPT ![own] = @ + 1]
        /\ tracker'.insertPhaseComplete =
             [tracker.insertPhaseComplete EXCEPT ![own] = @ \/ groups[own].insertConfigs \subseteq more]
    BY <2>2 DEF MarkConfigComplete, Done
  <2> HIDE DEF own
  <2>5. ASSUME NEW id \in GroupIds(schema)
        PROVE  /\ id = own => c \in GroupConfigs(groups[id])
               /\ id # own => c \notin GroupConfigs(groups[id])
                              /\ c \notin groups[id].insertConfigs
    BY <2>3, MembersOfGroup
  <2>6. ASSUME NEW id \in GroupIds(schema)
        PROVE  /\ tracker'.completedCount[id] = Cardinality(GroupDone(id)')
               /\ tracker'.insertPhaseComplete[id] \in BOOLEAN
               /\ tracker'.insertPhaseComplete[id] <=> groups[id].insertConfigs \subseteq more
    <3>1. /\ tracker.completedCount[id] = Cardinality(GroupDone(id))
          /\ tracker.insertPhaseComplete[id] \in BOOLEAN
          /\ tracker.insertPhaseComplete[id] <=> groups[id].insertConfigs \subseteq Done
          /\ id \in DOMAIN tracker.completedCount /\ id \in DOMAIN tracker.insertPhaseComplete
      BY <2>1 DEF TrackerInv
    <3>2. GroupDone(id) \in SUBSET Configs /\ IsFiniteSet(GroupDone(id)) /\ c \notin GroupDone(id)
      <4>1. GroupDone(id) \in SUBSET Configs /\ c \notin GroupDone(id)
        BY <2>2 DEF TrackerInv, GroupDone, Done
      <4> QED
        BY <2>3, <4>1, FS_Subset
    <3>3. CASE id = own
      <4>1. GroupDone(id)' = GroupDone(id) \cup {c}
        BY <2>2, <2>4, <2>5, <3>3 DEF GroupDone, Done
      <4>2. Cardinality(GroupDone(id)') = Cardinality(GroupDone(id)) + 1
        BY <3>2, <4>1, FS_AddElement
      <4>3. tracker'.completedCount[id] = tracker.completedCount[id] + 1
        BY <2>4, <3>1, <3>3
      <4>4. tracker'.insertPhaseComplete[id] =
              (tracker.insertPhaseComplete[id] \/ groups[id].insertConfigs \subseteq more)
        BY <2>4, <3>1, <3>3
      <4> QED
        BY <3>1, <4>2, <4>3, <4>4
    <3>4. CASE id # own
      <4>1. GroupDone(id)' = GroupDone(id)
        BY <2>2, <2>4, <2>5, <3>4 DEF GroupDone, Done
      <4>2. tracker'.completedCount[id] = tracker.completedCount[id]
        BY <2>4, <3>1, <3>4
      <4>3. tracker'.insertPhaseComplete[id] = tracker.insertPhaseComplete[id]
        BY <2>4, <3>1, <3>4
      <4>4. groups[id].insertConfigs \subseteq more <=> groups[id].insertConfigs \subseteq Done
        BY <2>5, <3>4
      <4> QED
        BY <3>1, <4>1, <4>2, <4>3, <4>4
    <3> QED
      BY <3>3, <3>4
  <2>7. more \subseteq Configs
    BY DEF TrackerInv
  <2>8. /\ DOMAIN tracker'.completedCount = GroupIds(schema)
        /\ DOMAIN tracker'.insertPhaseComplete = GroupIds(schema)
    BY <2>1, <2>4 DEF TrackerInv
  <2>9. schema' = schema /\ groups' = groups /\ Configs' = Configs /\ accepted' = accepted
    BY <2>2 DEF Configs
  <2>10. /\ tracker'.completedCount = tracker.completedCount'
         /\ tracker'.insertPhaseComplete = tracker.insertPhaseComplete'
    OBVIOUS
  <2> QED
    BY <2>4, <2>6, <2>7, <2>8, <2>9 DEF TrackerInv
<1> QED
  BY <1>1, <1>2, <1>3 DEF Next

(* MarkConfigComplete keeps the tracker's counts and flags those of the     *)
(* completed configs.                                                      *)
THEOREM SpecTracker == Spec => [](Static /\ TrackerInv)
<1>1. Init => Static /\ TrackerInv
  BY InitStatic, InitTracker
<1>2. (Static /\ TrackerInv) /\ [Next]_vars => (Static /\ TrackerInv)'
  BY NextStatic, NextTracker
<1> QED
  BY <1>1, <1>2, PTL DEF Spec

(* A group counts as complete when all of its configs have completed.      *)
LEMMA CompleteGroup ==
  ASSUME Static, TrackerInv, accepted, NEW id \in GroupIds(schema)
  PROVE  IsGroupComplete(tracker, groups, id) <=> GroupConfigs(groups[id]) \subseteq Done
<1> DEFINE g == groups[id]
           G == GroupConfigs(g)
<1>1. /\ IsSchema(schema) /\ Configs = PlanOf(schema) /\ groups = PlanGroups(schema)
      /\ IsFiniteSet(Configs)
  BY AcceptedPlan
<1>2. /\ g.insertConfigs \in SUBSET Configs /\ g.updateConfigs \in SUBSET Configs
      /\ g.insertConfigs \cap g.updateConfigs = {} /\ G = g.insertConfigs \cup g.updateConfigs
  BY <1>1, MembersOfGroup DEF GroupConfigs
<1>3. IsFiniteSet(g.insertConfigs) /\ IsFiniteSet(g.updateConfigs)
  BY <1>1, <1>2, FS_Subset
<1>4. IsFiniteSet(G) /\ Cardinality(G) = TotalConfigs(g)
  <2>1. /\ IsFiniteSet(G)
        /\ Cardinality(G) = Cardinality(g.insertConfigs) + Cardinality(g.updateConfigs)
                              - Cardinality(g.insertConfigs \cap g.updateConfigs)
    BY <1>2, <1>3, FS_Union
  <2>2. Cardinality(g.insertConfigs \cap g.updateConfigs) = 0
    BY <1>2, FS_EmptySet
  <2>3. Cardinality(g.insertConfigs) \in Nat /\ Cardinality(g.updateConfigs) \in Nat
    BY <1>3, FS_CardinalityType
  <2> QED
    BY <2>1, <2>2, <2>3 DEF TotalConfigs
<1>5. tracker.completedCount[id] = Cardinality(GroupDone(id)) /\ GroupDone(id) = Done \cap G
  BY DEF TrackerInv, GroupDone, Done
<1> HIDE DEF g, G
<1>6. GroupDone(id) \in SUBSET G
  BY <1>5
<1>7. Cardinality(G) = Cardinality(GroupDone(id)) <=> G = GroupDone(id)
  BY <1>4, <1>6, FS_Subset
<1>8. G = GroupDone(id) <=> G \subseteq Done
  BY <1>5
<1> QED
  BY <1>4, <1>5, <1>7, <1>8 DEF IsGroupComplete, g, G

-----------------------------------------------------------------------------
(***************************************************************************)
(* The start rule.                                                         *)
(***************************************************************************)
(* Ranks by which every config needs only what configs of lower rank write.*)
Lower(s, rank, c) == {x \in PlanOf(s) : rank[x] < rank[c]}
Ranked(s, rank) ==
  \A c \in PlanOf(s) : rank[c] \in Nat /\ Satisfied(c, Lower(s, rank, c))

LEMMA AcceptedIsRanked ==
  ASSUME NEW s, IsSchema(s), IsValidRunOrder(PlanOf(s))
  PROVE  \E rank : Ranked(s, rank)
<1>1. PICK rank : /\ \A c \in PlanOf(s) : rank[c] \in Nat
                  /\ \A c \in PlanOf(s) : Satisfied(c, {x \in PlanOf(s) : rank[x] < rank[c]})
  BY PlanIsFinite, AcceptedAreRanked
<1> QED
  BY <1>1 DEF Ranked, Lower

(* A config that depends on a table comes after one of that table.         *)
LEMMA DependencyIsLower ==
  ASSUME NEW s, NEW rank, Ranked(s, rank), NEW c \in PlanOf(s), NEW d \in c.dependsOn
  PROVE  \E x \in PlanOf(s) : x.table = d.table /\ rank[x] < rank[c]
<1>1. Satisfied(c, Lower(s, rank, c))
  BY DEF Ranked
<1>2. PICK x \in Lower(s, rank, c) : x.table = d.table
  BY <1>1 DEF Satisfied, AreConfigDependenciesSatisfied
<1> QED
  BY <1>2 DEF Lower

(* The INSERT of a table comes before its UPDATEs.                         *)
LEMMA InsertComesFirst ==
  ASSUME NEW s, IsSchema(s), NEW rank, Ranked(s, rank), NEW c \in PlanOf(s)
  PROVE  rank[InsertOf(s, c.table)] <= rank[c]
<1> DEFINE own == {x \in PlanOf(s) : x.table = c.table}
           ranks == {rank[x] : x \in own}
<1>1. \A x \in own : rank[x] \in Nat
  BY DEF Ranked
<1>2. PICK n \in ranks : \A m \in ranks : n <= m
  <2>1. ranks \in SUBSET Nat /\ ranks # {}
    BY <1>1
  <2> HIDE DEF ranks
  <2> QED
    BY <2>1, LeastNumber
<1>3. PICK x \in own : n = rank[x]
  BY <1>2
<1>4. \A y \in own : rank[x] <= rank[y]
  BY <1>2, <1>3
<1>5. x.runType = Insert
  <2> SUFFICES ASSUME x.runType # Insert PROVE FALSE
    OBVIOUS
  <2>1. PICK d \in x.dependsOn : d.table = x.table
    BY DependenciesOfConfigs
  <2>2. PICK y \in PlanOf(s) : y.table = d.table /\ rank[y] < rank[x]
    BY DependencyIsLower
  <2>3. y \in own
    BY <2>1, <2>2
  <2> QED
    BY <1>1, <1>4, <2>2, <2>3
<1>6. x = InsertOf(s, c.table)
  BY <1>5, ConfigCases
<1> QED
  BY <1>4, <1>6

(* The INSERT of a table comes before all that depends on the table.       *)
LEMMA DependencyComesFirst ==
  ASSUME NEW s, IsSchema(s), NEW rank, Ranked(s, rank), NEW c \in PlanOf(s),
         NEW d \in c.dependsOn
  PROVE  rank[InsertOf(s, d.table)] < rank[c]
<1>1. PICK x \in PlanOf(s) : x.table = d.table /\ rank[x] < rank[c]
  BY DependencyIsLower
<1>2. rank[InsertOf(s, d.table)] <= rank[x]
  BY <1>1, InsertComesFirst
<1>3. InsertOf(s, d.table) \in PlanOf(s)
  BY DependenciesOfConfigs, TableConfigs
<1> QED
  BY <1>1, <1>2, <1>3 DEF Ranked

(* findConfigByTable finds the INSERT of a table of the group.             *)
LEMMA FoundConfig ==
  ASSUME NEW s, IsSchema(s), NEW id \in GroupIds(s), NEW t \in s.tables
  PROVE  FindConfigByTable(PlanGroups(s)[id], t)
           = IF GroupOfTable(s, t) = id THEN {InsertOf(s, t)} ELSE {}
<1> DEFINE g == PlanGroups(s)[id]
           inserts == {c \in g.insertConfigs : c.table = t}
           updates == {c \in g.updateConfigs : c.table = t}
<1>1. FindConfigByTable(g, t) = IF inserts # {} THEN {CHOOSE c \in inserts : TRUE}
                                ELSE IF updates # {} THEN {CHOOSE c \in updates : TRUE} ELSE {}
  BY DEF FindConfigByTable
<1>2. \A c : c \in inserts <=>
         c \in PlanOf(s) /\ GroupOfTable(s, c.table) = id /\ c.runType = Insert /\ c.table = t
  BY MembersOfGroup
<1>3. \A c : c \in updates <=>
         c \in PlanOf(s) /\ GroupOfTable(s, c.table) = id /\ c.runType # Insert /\ c.table = t
  BY MembersOfGroup
<1> HIDE DEF g, inserts, updates
<1>4. CASE GroupOfTable(s, t) = id
  <2>1. inserts = {InsertOf(s, t)}
    <3>1. InsertOf(s, t) \in inserts
      BY <1>2, <1>4, InsertFacts, TableConfigs
    <3>2. \A c \in inserts : c = InsertOf(s, t)
      BY <1>2, ConfigCases
    <3> QED
      BY <3>1, <3>2
  <2> QED
    BY <1>1, <1>4, <2>1 DEF g
<1>5. CASE GroupOfTable(s, t) # id
  <2>1. inserts = {} /\ updates = {}
    BY <1>2, <1>3, <1>5
  <2> QED
    BY <1>1, <1>5, <2>1 DEF g
<1> QED
  BY <1>4, <1>5

(* What the three rules of CanConfigStart ask of a config.                 *)
GroupsBefore(c) ==
  \A dep \in GroupIds(schema) : Needs(schema, GroupOfTable(schema, c.table), dep) =>
      \A x \in Configs : GroupOfTable(schema, x.table) = dep => x \in Done
InsertsBefore(c) ==
  GroupOfTable(schema, c.table) \in Cycles(schema) /\ c.runType = Update =>
      \A x \in Configs :
         x.runType = Insert /\ GroupOfTable(schema, x.table) = GroupOfTable(schema, c.table)
            => x \in Done
ConfigsBefore(c) ==
  \A d \in c.dependsOn : GroupOfTable(schema, d.table) = GroupOfTable(schema, c.table) =>
      InsertOf(schema, d.table) \in Done

LEMMA StartRule ==
  ASSUME Static, TrackerInv, accepted, NEW c \in Configs
  PROVE  CanConfigStart(tracker, groups, c) <=>
            GroupsBefore(c) /\ InsertsBefore(c) /\ ConfigsBefore(c)
<1> DEFINE id == GroupOfTable(schema, c.table)
           g == groups[id]
<1>1. /\ IsSchema(schema) /\ Configs = PlanOf(schema) /\ groups = PlanGroups(schema)
      /\ GroupOf(groups, c) = id /\ id \in GroupIds(schema)
  BY AcceptedPlan, GroupOfConfig
<1>2. CanConfigStart(tracker, groups, c) <=>
         /\ \A dep \in g.dependsOnGroups : IsGroupComplete(tracker, groups, dep)
         /\ g.isInCycle /\ c.runType = Update => tracker.insertPhaseComplete[id]
         /\ \A d \in c.dependsOn : FindConfigByTable(g, d.table) \subseteq Done
  BY <1>1 DEF CanConfigStart, Done
<1> HIDE DEF id
<1>3. ASSUME NEW dep \in GroupIds(schema)
      PROVE  IsGroupComplete(tracker, groups, dep) <=>
                \A x \in Configs : GroupOfTable(schema, x.table) = dep => x \in Done
  <2>1. IsGroupComplete(tracker, groups, dep) <=> GroupConfigs(groups[dep]) \subseteq Done
    BY CompleteGroup
  <2>2. \A x : x \in GroupConfigs(groups[dep]) <=>
           x \in Configs /\ GroupOfTable(schema, x.table) = dep
    BY <1>1, MembersOfGroup
  <2> QED
    BY <2>1, <2>2
<1>4. (\A dep \in g.dependsOnGroups : IsGroupComplete(tracker, groups, dep)) <=> GroupsBefore(c)
  <2>1. \A dep : dep \in g.dependsOnGroups <=> Needs(schema, id, dep)
    BY <1>1, GroupWaits
  <2>2. \A dep : Needs(schema, id, dep) => dep \in GroupIds(schema)
    BY DEF Needs
  <2> QED
    BY <1>3, <2>1, <2>2 DEF GroupsBefore, id
<1>5. (g.isInCycle /\ c.runType = Update => tracker.insertPhaseComplete[id]) <=> InsertsBefore(c)
  <2>1. g.isInCycle <=> id \in Cycles(schema)
    BY <1>1, MembersOfGroup
  <2>2. tracker.insertPhaseComplete[id] <=> g.insertConfigs \subseteq Done
    BY <1>1 DEF TrackerInv
  <2>3. \A x : x \in g.insertConfigs <=>
           x \in Configs /\ GroupOfTable(schema, x.table) = id /\ x.runType = Insert
    BY <1>1, MembersOfGroup
  <2> HIDE DEF g
  <2>4. g.insertConfigs \subseteq Done <=>
           \A x \in Configs : x.runType = Insert /\ GroupOfTable(schema, x.table) = id => x \in Done
    BY <2>3
  <2> QED
    BY <2>1, <2>2, <2>4 DEF InsertsBefore, id
<1>6. (\A d \in c.dependsOn : FindConfigByTable(g, d.table) \subseteq Done) <=> ConfigsBefore(c)
  <2>1. ASSUME NEW d \in c.dependsOn
        PROVE  FindConfigByTable(g, d.table) \subseteq Done <=>
                  (GroupOfTable(schema, d.table) = id => InsertOf(schema, d.table) \in Done)
    <3>1. d.table \in schema.tables
      BY <1>1, DependenciesOfConfigs
    <3>2. FindConfigByTable(g, d.table)
            = IF GroupOfTable(schema, d.table) = id THEN {InsertOf(schema, d.table)} ELSE {}
      BY <1>1, <3>1, FoundConfig
    <3> QED
      BY <3>2
  <2> QED
    BY <2>1 DEF ConfigsBefore, id
<1> QED
  BY <1>2, <1>4, <1>5, <1>6

(* A group with a config left, all of whose needs are complete, exists.    *)
LEMMA FirstOpenGroup ==
  ASSUME Static, TrackerInv, accepted, Done # Configs
  PROVE  \E c \in Configs \ Done : GroupsBefore(c)
<1> DEFINE Group(x) == GroupOfTable(schema, x.table)
           open == {Group(x) : x \in Configs \ Done}
           R == Reaches(WaitsGraph(schema))
<1>1. /\ IsSchema(schema) /\ Configs = PlanOf(schema) /\ groups = PlanGroups(schema)
      /\ DOMAIN groups = GroupIds(schema)
  BY AcceptedPlan
<1>2. open # {}
  BY DEF TrackerInv
<1>3. open \subseteq GroupIds(schema) /\ IsFiniteSet(open)
  <2>1. \A x \in Configs : Group(x) \in GroupIds(schema)
    BY GroupOfConfig
  <2>2. open \subseteq GroupIds(schema)
    BY <2>1
  <2> QED
    BY <1>1, <2>2, GroupIdsOfPlan, FS_Subset
<1>4. \A id : <<id, id>> \notin R
  BY <1>1, GroupsAreOrdered DEF Path
<1>5. \A x, y, z : <<x, y>> \in R /\ <<y, z>> \in R => <<x, z>> \in R
  <2>1. \A x, y, z : Path(WaitsGraph(schema), x, y) /\ Path(WaitsGraph(schema), y, z)
                       => Path(WaitsGraph(schema), x, z)
    BY <1>1, WaitsGraphIsGraph, PathsCompose
  <2> QED
    BY <2>1 DEF Path
<1>6. \A id, dep : <<id, dep>> \in WaitsGraph(schema) => <<id, dep>> \in R
  BY <1>1, WaitsGraphIsGraph, EdgeIsPath DEF Path
<1> HIDE DEF open, R
<1>7. PICK id \in open : \A dep \in open : <<id, dep>> \notin R
  BY <1>2, <1>3, <1>4, <1>5, MaximalElement
<1>8. PICK c \in Configs \ Done : id = Group(c)
  BY <1>7 DEF open
<1>9. ASSUME NEW dep \in GroupIds(schema), Needs(schema, id, dep),
             NEW x \in Configs, Group(x) = dep
      PROVE  x \in Done
  <2>1. dep \in PlanGroups(schema)[id].dependsOnGroups /\ id \in GroupIds(schema)
    BY <1>1, <1>3, <1>9, GroupWaits
  <2>2. <<id, dep>> \in WaitsGraph(schema)
    BY <1>1, <2>1 DEF WaitsGraph
  <2>3. dep \notin open
    BY <1>6, <1>7, <2>2
  <2> QED
    BY <1>9, <2>3 DEF open
<1> QED
  BY <1>8, <1>9 DEF GroupsBefore

(* However the completions fall, as long as a config is left the rules of  *)
(* the completion tracker let one start.                                   *)
THEOREM NeverLocksUp == Spec => []NeverStuck
<1>1. ASSUME Static, TrackerInv, accepted, Done # Configs
      PROVE  \E c \in Configs \ Done : Startable(c)
  <2>1. IsSchema(schema) /\ Configs = PlanOf(schema) /\ IsValidRunOrder(PlanOf(schema))
    BY <1>1, AcceptedPlan
  <2>2. PICK rank : Ranked(schema, rank)
    BY <2>1, AcceptedIsRanked
  <2>3. PICK c0 \in Configs \ Done : GroupsBefore(c0)
    BY <1>1, FirstOpenGroup
  <2> DEFINE id == GroupOfTable(schema, c0.table)
             left == {x \in Configs \ Done : GroupOfTable(schema, x.table) = id}
             inserts == {x \in left : x.runType = Insert}
  <2>4. \A x \in left : GroupsBefore(x)
    BY <2>3 DEF GroupsBefore
  <2>5. \A c \in left : \A d \in c.dependsOn :
           d.table \in schema.tables /\ InsertOf(schema, d.table) \in Configs
    BY <2>1, DependenciesOfConfigs, TableConfigs
  <2>6. \A t : InsertOf(schema, t).table = t /\ InsertOf(schema, t).runType = Insert
    BY InsertFacts
  <2>7. CASE inserts = {}
    <3>1. \A x \in Configs :
             x.runType = Insert /\ GroupOfTable(schema, x.table) = id => x \in Done
      BY <2>7
    <3>2. InsertsBefore(c0)
      BY <3>1 DEF InsertsBefore
    <3>3. ConfigsBefore(c0)
      <4>1. ASSUME NEW d \in c0.dependsOn, GroupOfTable(schema, d.table) = id
            PROVE  InsertOf(schema, d.table) \in Done
        BY <2>5, <2>6, <3>1, <4>1
      <4> QED
        BY <4>1 DEF ConfigsBefore
    <3> QED
      BY <1>1, <2>3, <3>2, <3>3, StartRule DEF Startable
  <2>8. CASE inserts # {}
    <3> DEFINE ranks == {rank[x] : x \in inserts}
    <3>1. ranks \in SUBSET Nat /\ ranks # {}
      BY <2>1, <2>2, <2>8 DEF Ranked
    <3> HIDE DEF ranks
    <3>2. PICK n \in ranks : \A m \in ranks : n <= m
      BY <3>1, LeastNumber
    <3>3. PICK c \in inserts : n = rank[c]
      BY <3>2 DEF ranks
    <3>4. \A x \in inserts : rank[c] <= rank[x]
      BY <3>2, <3>3 DEF ranks
    <3>5. InsertsBefore(c)
      BY DEF InsertsBefore, Insert, Update
    <3>6. ASSUME NEW d \in c.dependsOn, GroupOfTable(schema, d.table) = id,
                 InsertOf(schema, d.table) \notin Done
          PROVE  FALSE
      <4>1. InsertOf(schema, d.table) \in inserts
        BY <2>5, <2>6, <3>6
      <4>2. rank[c] <= rank[InsertOf(schema, d.table)]
        BY <3>4, <4>1
      <4>3. rank[InsertOf(schema, d.table)] < rank[c]
        BY <2>1, <2>2, DependencyComesFirst
      <4>4. rank[InsertOf(schema, d.table)] \in Nat /\ rank[c] \in Nat
        BY <2>1, <2>2, <4>1 DEF Ranked
      <4> QED
        BY <4>2, <4>3, <4>4
    <3>7. ConfigsBefore(c)
      BY <3>6 DEF ConfigsBefore
    <3>8. GroupsBefore(c) /\ c \in Configs \ Done
      BY <2>4
    <3> QED
      BY <1>1, <3>5, <3>7, <3>8, StartRule DEF Startable
  <2> QED
    BY <2>7, <2>8
<1>2. ASSUME Static, TrackerInv, ~accepted PROVE Done = Configs
  <2>1. Configs = {} /\ Done \subseteq Configs
    BY <1>2 DEF Static, Configs, TrackerInv
  <2> QED
    BY <2>1
<1>3. Static /\ TrackerInv => NeverStuck
  BY <1>1, <1>2 DEF NeverStuck, Done
<1> QED
  BY <1>3, SpecTracker, PTL

(* A config that may start finds the INSERT of every table it depends on   *)
(* complete.                                                               *)
LEMMA InsertsAreDone ==
  ASSUME Static, TrackerInv, accepted, NEW c \in Configs, Startable(c), NEW d \in c.dependsOn
  PROVE  InsertOf(schema, d.table) \in Done
<1>1. IsSchema(schema) /\ Configs = PlanOf(schema)
  BY AcceptedPlan
<1>2. GroupsBefore(c) /\ ConfigsBefore(c)
  BY StartRule DEF Startable
<1>3. d.table \in schema.tables /\ InsertOf(schema, d.table) \in Configs
  BY <1>1, DependenciesOfConfigs, TableConfigs
<1>4. CASE GroupOfTable(schema, d.table) = GroupOfTable(schema, c.table)
  BY <1>2, <1>4 DEF ConfigsBefore
<1>5. CASE GroupOfTable(schema, d.table) # GroupOfTable(schema, c.table)
  <2> DEFINE dep == GroupOfTable(schema, d.table)
  <2>1. dep \in GroupIds(schema) /\ d.table \in dep
    BY <1>1, <1>3, GroupIdsOfPlan, GroupOfTableFacts
  <2>2. Needs(schema, GroupOfTable(schema, c.table), dep)
    BY <1>1, <1>5, <2>1 DEF Needs
  <2>3. GroupOfTable(schema, InsertOf(schema, d.table).table) = dep
    BY InsertFacts
  <2> QED
    BY <1>2, <1>3, <2>1, <2>2, <2>3 DEF GroupsBefore
<1> QED
  BY <1>4, <1>5

(* The INSERT of a table writes its primary key.                           *)
LEMMA InsertWritesKey ==
  ASSUME NEW s, NEW t
  PROVE  PrimaryKeys \subseteq InsertOf(s, t).columns
<1>1. PrimaryKeys \subseteq Columns(s, t)
  BY DEF Columns
<1> QED
  BY <1>1, InsertFacts

(* Where keys reference primary keys, so do the dependencies of an INSERT.  *)
LEMMA InsertReferencesKeys ==
  ASSUME NEW s, IsSchema(s), ReferencesKeys(s), NEW t \in s.tables,
         NEW d \in InsertOf(s, t).dependsOn
  PROVE  d.columns \subseteq PrimaryKeys
<1>1. /\ Keys(s, t) \subseteq s.foreignKeys[t]
      /\ \A fk \in Keys(s, t) : fk.notNullable \subseteq fk.columns
  BY KeysOfTable
<1>2. \A fk \in Keys(s, t) : \A columns \in SUBSET fk.columns :
         Referenced(fk, columns) \subseteq PrimaryKeys
  BY <1>1 DEF ReferencesKeys, Referenced
<1>3. \A x, y : Dependency(x, y).columns = y
  BY DEF Dependency
<1>4. CASE IsSplit(s, t)
  <2>1. PICK fk \in Keys(s, t) : d = Dependency(fk.parent, Referenced(fk, fk.notNullable))
    BY <1>4, InsertFacts
  <2> QED
    BY <1>1, <1>2, <1>3, <2>1
<1>5. CASE ~IsSplit(s, t)
  <2>1. PICK fk \in Keys(s, t) : d = Dependency(fk.parent, Referenced(fk, fk.columns))
    BY <1>5, InsertFacts
  <2> QED
    BY <1>2, <1>3, <2>1
<1> QED
  BY <1>4, <1>5

(* And those of an UPDATE, but for the one on the UPDATE before it.        *)
LEMMA UpdateReferencesKeys ==
  ASSUME NEW s, IsSchema(s), ReferencesKeys(s), NEW t \in s.tables,
         NEW n \in DOMAIN Updates(s, t), NEW d \in Updates(s, t)[n].dependsOn
  PROVE  \/ d.columns \subseteq PrimaryKeys
         \/ /\ d.table = t /\ n - 1 \in DOMAIN Updates(s, t)
            /\ d.columns = Updates(s, t)[n - 1].columns
<1> DEFINE k == KeyNo(s, t, n)
           prev == Previous(s, t, n)
<1>1. Keys(s, t) \subseteq s.foreignKeys[t]
  BY KeysOfTable
<1>2. \A fk \in Keys(s, t) : Referenced(fk, UpdateColumns(fk)) \subseteq PrimaryKeys
  BY <1>1 DEF ReferencesKeys, Referenced, UpdateColumns
<1>3. \A x, y : Dependency(x, y).table = x /\ Dependency(x, y).columns = y
  BY DEF Dependency
<1>4. /\ n \in 1..Len(NullableKeys(Keys(s, t))) /\ Len(NullableKeys(Keys(s, t))) \in Nat
      /\ k \in Keys(s, t)
      /\ \/ d = Dependency(k.parent, Referenced(k, UpdateColumns(k)))
         \/ k.parent # t /\ d = Dependency(t, PrimaryKeys)
         \/ prev # {} /\ d = Dependency(t, prev)
  BY UpdateFacts
<1>5. CASE prev # {} /\ d = Dependency(t, prev)
  <2> DEFINE j == n - 1
  <2>1. n # 1 /\ prev = UpdateColumns(KeyNo(s, t, j))
    BY <1>5 DEF Previous
  <2>2. j \in DOMAIN Updates(s, t)
    BY <1>4, <2>1, UpdatesOfTable
  <2> HIDE DEF j, prev, k
  <2>3. Updates(s, t)[j].columns = KeyNo(s, t, j).columns \ KeyNo(s, t, j).notNullable
    BY <2>2, UpdateFacts
  <2>4. Updates(s, t)[j].columns = prev
    BY <2>1, <2>3 DEF UpdateColumns
  <2> QED
    BY <1>3, <1>5, <2>2, <2>4 DEF j
<1> HIDE DEF k, prev
<1> QED
  BY <1>2, <1>3, <1>4, <1>5

(* The dependencies that carry a key reference primary keys.               *)
LEMMA KeysReferenceKeys ==
  ASSUME NEW s, IsSchema(s), ReferencesKeys(s), NEW c \in PlanOf(s),
         NEW d \in ForeignKeyDependencies(PlanOf(s), c)
  PROVE  d \in c.dependsOn /\ d.columns \subseteq PrimaryKeys
<1> DEFINE t == c.table
<1>1. /\ d \in c.dependsOn
      /\ ~(d.table = t /\ \E u \in PlanOf(s) :
             u.runType = Update /\ u.table = t /\ d.columns \subseteq u.columns)
  BY DEF ForeignKeyDependencies, RunTypeUpdate, Update
<1>2. t \in s.tables
  BY ConfigCases
<1>3. CASE c.runType = Insert
  BY <1>1, <1>2, <1>3, ConfigCases, InsertReferencesKeys
<1>4. CASE c.runType # Insert
  <2>1. IsSplit(s, t) /\ \E n \in DOMAIN Updates(s, t) : c = Updates(s, t)[n]
    BY <1>4, ConfigCases
  <2>2. PICK n \in DOMAIN Updates(s, t) : c = Updates(s, t)[n]
    BY <2>1
  <2>3. \/ d.columns \subseteq PrimaryKeys
        \/ /\ d.table = t /\ n - 1 \in DOMAIN Updates(s, t)
           /\ d.columns = Updates(s, t)[n - 1].columns
    BY <1>1, <1>2, <2>2, UpdateReferencesKeys
  <2> DEFINE u == Updates(s, t)[n - 1]
  <2>4. ASSUME n - 1 \in DOMAIN Updates(s, t)
        PROVE  u \in PlanOf(s) /\ u.runType = Update /\ u.table = t
    BY <1>2, <2>1, <2>4, TableConfigs, UpdateFacts
  <2> QED
    BY <1>1, <2>3, <2>4
<1> QED
  BY <1>3, <1>4

(* A config the tracker lets go finds the columns its foreign keys point   *)
(* at written.                                                             *)
THEOREM WritesReferencedColumns == Spec => []ReferencedColumnsWritten
<1>1. ASSUME Static, TrackerInv, ReferencesKeys(schema), NEW c \in Configs, Startable(c),
             NEW d \in ForeignKeyDependencies(Configs, c)
      PROVE  /\ \E x \in Done : x.table = d.table
             /\ d.columns \subseteq UNION {x.columns : x \in {y \in Done : y.table = d.table}}
  <2>1. accepted
    BY <1>1 DEF Static, Configs
  <2>2. IsSchema(schema) /\ Configs = PlanOf(schema)
    BY <1>1, <2>1, AcceptedPlan
  <2>3. d \in c.dependsOn /\ d.columns \subseteq PrimaryKeys
    BY <1>1, <2>2, KeysReferenceKeys
  <2> DEFINE x == InsertOf(schema, d.table)
  <2>4. x \in Done /\ x.table = d.table /\ d.columns \subseteq x.columns
    BY <1>1, <2>1, <2>3, InsertsAreDone, InsertFacts, InsertWritesKey
  <2> HIDE DEF x
  <2> QED
    BY <2>4
<1>2. Static /\ TrackerInv => ReferencedColumnsWritten
  BY <1>1 DEF ReferencedColumnsWritten, AreConfigDependenciesSatisfied, Done
<1> QED
  BY <1>2, SpecTracker, PTL

-----------------------------------------------------------------------------
(***************************************************************************)
(* What the planner refuses.                                               *)
(***************************************************************************)
(* The keys between mapped tables, and the tables an INSERT waits for.     *)
KeyGraph(s) == DependencyGraph(FilterDependencies(s))
InsertGraph(s) ==
  {e \in s.tables \X s.tables : \E d \in InsertOf(s, e[1]).dependsOn : d.table = e[2]}

LEMMA KeyGraphEdges ==
  ASSUME NEW s, IsSchema(s)
  PROVE  /\ Graph(KeyGraph(s), s.tables)
         /\ \A a, b : <<a, b>> \in KeyGraph(s) <=>
               a \in s.tables /\ \E fk \in Keys(s, a) : fk.parent = b
<1>1. DOMAIN FilterDependencies(s) = s.tables
  BY DEF FilterDependencies
<1>2. \A e : e \in KeyGraph(s) <=> \E a \in s.tables : \E fk \in Keys(s, a) : e = <<a, fk.parent>>
  BY <1>1 DEF KeyGraph, DependencyGraph, Keys
<1>3. \A a \in s.tables : \A fk \in Keys(s, a) : fk.parent \in s.tables
  BY KeysOfTable
<1>4. KeyGraph(s) \subseteq s.tables \X s.tables
  BY <1>2, <1>3
<1> QED
  BY <1>2, <1>4 DEF Graph, IsSchema

(* A table that reaches itself along its keys is split.                    *)
LEMMA CircleIsSplit ==
  ASSUME NEW s, IsSchema(s), NEW t, Path(KeyGraph(s), t, t)
  PROVE  IsSplit(s, t)
<1>1. PICK w \in Neighbors(KeyGraph(s), t) : w = t \/ Path(KeyGraph(s), w, t)
  BY KeyGraphEdges, PathBegins
<1>2. <<t, w>> \in KeyGraph(s)
  BY KeyGraphEdges, EdgeEnds
<1>3. \E C \in FindCircularDependencies(KeyGraph(s)) : t \in C
  BY <1>1, <1>2, KeyGraphEdges, CirclesFound
<1> QED
  BY <1>3 DEF IsSplit, ConstrainedTables, CircularDependencyTables, KeyGraph

(* The keys that cannot be set later.                                      *)
LEMMA MandatoryGraphEdges ==
  ASSUME NEW s, IsSchema(s)
  PROVE  /\ Graph(MandatoryGraph(s), s.tables)
         /\ \A a, b : <<a, b>> \in MandatoryGraph(s) <=>
               /\ a \in s.tables /\ b \in s.tables
               /\ \E fk \in Keys(s, a) : fk.parent = b /\ fk.notNullable # {}
<1>1. \A a, b : <<a, b>> \in MandatoryGraph(s) <=>
         /\ a \in s.tables /\ b \in s.tables
         /\ \E fk \in s.foreignKeys[a] : fk.parent = b /\ fk.notNullable # {}
  BY DEF MandatoryGraph
<1>2. ASSUME NEW a \in s.tables
      PROVE  /\ Keys(s, a) \subseteq s.foreignKeys[a]
             /\ \A fk \in s.foreignKeys[a] : fk.parent \in s.tables => fk \in Keys(s, a)
  BY KeysOfTable
<1>3. Graph(MandatoryGraph(s), s.tables)
  BY DEF Graph, IsSchema, MandatoryGraph
<1>4. ASSUME NEW a \in s.tables, NEW b \in s.tables
      PROVE  (\E fk \in s.foreignKeys[a] : fk.parent = b /\ fk.notNullable # {}) <=>
             (\E fk \in Keys(s, a) : fk.parent = b /\ fk.notNullable # {})
  BY <1>2
<1> QED
  BY <1>1, <1>3, <1>4

(* Every INSERT waits for its mandatory keys; a split one for nothing else.*)
LEMMA InsertGraphEdges ==
  ASSUME NEW s, IsSchema(s)
  PROVE  /\ Graph(InsertGraph(s), s.tables)
         /\ \A a, b : <<a, b>> \in InsertGraph(s) =>
               /\ <<a, b>> \in KeyGraph(s)
               /\ IsSplit(s, a) => <<a, b>> \in MandatoryGraph(s)
         /\ \A a, b : <<a, b>> \in MandatoryGraph(s) => <<a, b>> \in InsertGraph(s)
         /\ \A a \in s.tables : \A d \in InsertOf(s, a).dependsOn :
               <<a, d.table>> \in InsertGraph(s)
<1>1. Graph(InsertGraph(s), s.tables)
  BY DEF Graph, IsSchema, InsertGraph
<1>2. \A a, b : <<a, b>> \in InsertGraph(s) <=>
         a \in s.tables /\ b \in s.tables /\ \E d \in InsertOf(s, a).dependsOn : d.table = b
  BY DEF InsertGraph
<1>3. \A x, y : Dependency(x, y).table = x
  BY DEF Dependency
<1>4. ASSUME NEW a, NEW b, <<a, b>> \in InsertGraph(s)
      PROVE  <<a, b>> \in KeyGraph(s) /\ (IsSplit(s, a) => <<a, b>> \in MandatoryGraph(s))
  <2>1. a \in s.tables /\ b \in s.tables
    BY <1>2, <1>4
  <2>2. PICK d \in InsertOf(s, a).dependsOn : d.table = b
    BY <1>2, <1>4
  <2>3. CASE IsSplit(s, a)
    <3>1. PICK fk \in Keys(s, a) :
             fk.notNullable # {} /\ d = Dependency(fk.parent, Referenced(fk, fk.notNullable))
      BY <2>2, <2>3, InsertFacts
    <3>2. fk.parent = b
      BY <1>3, <2>2, <3>1
    <3> QED
      BY <2>1, <3>1, <3>2, KeyGraphEdges, MandatoryGraphEdges
  <2>4. CASE ~IsSplit(s, a)
    <3>1. PICK fk \in Keys(s, a) : d = Dependency(fk.parent, Referenced(fk, fk.columns))
      BY <2>2, <2>4, InsertFacts
    <3>2. fk.parent = b
      BY <1>3, <2>2, <3>1
    <3> QED
      BY <2>1, <2>4, <3>2, KeyGraphEdges
  <2> QED
    BY <2>3, <2>4
<1>5. ASSUME NEW a, NEW b, <<a, b>> \in MandatoryGraph(s) PROVE <<a, b>> \in InsertGraph(s)
  <2>1. a \in s.tables /\ b \in s.tables
    BY <1>5, MandatoryGraphEdges
  <2>2. PICK fk \in Keys(s, a) : fk.parent = b /\ fk.notNullable # {}
    BY <1>5, MandatoryGraphEdges
  <2>3. CASE IsSplit(s, a)
    <3>1. Dependency(b, Referenced(fk, fk.notNullable)) \in InsertOf(s, a).dependsOn
      BY <2>2, <2>3, InsertFacts
    <3> QED
      BY <1>2, <1>3, <2>1, <3>1
  <2>4. CASE ~IsSplit(s, a)
    <3>1. Dependency(b, Referenced(fk, fk.columns)) \in InsertOf(s, a).dependsOn
      BY <2>2, <2>4, InsertFacts
    <3> QED
      BY <1>2, <1>3, <2>1, <3>1
  <2> QED
    BY <2>3, <2>4
<1>6. ASSUME NEW a \in s.tables, NEW d \in InsertOf(s, a).dependsOn
      PROVE  <<a, d.table>> \in InsertGraph(s)
  <2>1. InsertOf(s, a) \in PlanOf(s)
    BY TableConfigs
  <2>2. d.table \in s.tables
    BY <2>1, DependenciesOfConfigs
  <2> QED
    BY <1>2, <2>2
<1> QED
  BY <1>1, <1>4, <1>5, <1>6

(* Along the mandatory keys of an accepted plan, ranks go down.            *)
LEMMA MandatoryPathsGoDown ==
  ASSUME NEW s, IsSchema(s), NEW rank, Ranked(s, rank), NEW a, NEW b,
         Path(MandatoryGraph(s), a, b)
  PROVE  rank[InsertOf(s, b)] < rank[InsertOf(s, a)]
<1> DEFINE r(t) == rank[InsertOf(s, t)]
           S == {t \in s.tables : r(t) < r(a)}
<1>1. \A t \in s.tables : InsertOf(s, t) \in PlanOf(s) /\ r(t) \in Nat
  BY TableConfigs DEF Ranked
<1>2. ASSUME NEW x, NEW y, <<x, y>> \in MandatoryGraph(s)
      PROVE  x \in s.tables /\ y \in s.tables /\ r(y) < r(x)
  <2>1. x \in s.tables /\ y \in s.tables /\ <<x, y>> \in InsertGraph(s)
    BY <1>2, MandatoryGraphEdges, InsertGraphEdges
  <2>2. PICK d \in InsertOf(s, x).dependsOn : d.table = y
    BY <2>1 DEF InsertGraph
  <2>3. rank[InsertOf(s, d.table)] < rank[InsertOf(s, x)]
    BY <1>1, <2>1, DependencyComesFirst
  <2> QED
    BY <2>1, <2>2, <2>3
<1> HIDE DEF r
<1>3. ASSUME NEW w \in Neighbors(MandatoryGraph(s), a) PROVE w \in S
  <2>1. <<a, w>> \in MandatoryGraph(s)
    BY MandatoryGraphEdges, EdgeEnds
  <2> QED
    BY <1>2, <2>1
<1>4. ASSUME NEW w \in Nodes(MandatoryGraph(s)) \cap S,
             NEW x \in Neighbors(MandatoryGraph(s), w)
      PROVE  x \in S
  <2>1. /\ <<w, x>> \in MandatoryGraph(s)
        /\ a \in Nodes(MandatoryGraph(s)) /\ Nodes(MandatoryGraph(s)) \subseteq s.tables
    BY MandatoryGraphEdges, EdgeEnds, PathEnds
  <2>2. r(x) < r(w) /\ r(w) < r(a) /\ x \in s.tables /\ w \in s.tables /\ a \in s.tables
    BY <1>2, <2>1
  <2> QED
    BY <1>1, <2>2
<1> HIDE DEF S
<1>5. b \in S
  BY <1>3, <1>4, MandatoryGraphEdges, PathStays
<1> QED
  BY <1>5 DEF S, r

(* Where no table reaches itself along mandatory keys, no INSERT waits for *)
(* itself: a table on another circle is split.                             *)
LEMMA InsertsAreOrdered ==
  ASSUME NEW s, IsSchema(s), \A t : ~Path(MandatoryGraph(s), t, t), NEW t
  PROVE  ~Path(InsertGraph(s), t, t)
<1> SUFFICES ASSUME Path(InsertGraph(s), t, t) PROVE FALSE
  OBVIOUS
<1> DEFINE I == InsertGraph(s)
           K == KeyGraph(s)
           M == MandatoryGraph(s)
           S1 == {v \in s.tables : Path(K, t, v)}
           S2 == {v \in S1 : Path(I, v, t) => Path(M, t, v)}
<1>1. /\ Graph(I, s.tables) /\ Graph(K, s.tables) /\ Graph(M, s.tables)
      /\ Nodes(I) \subseteq s.tables
  BY KeyGraphEdges, MandatoryGraphEdges, InsertGraphEdges, EdgeEnds
<1>2. \A a, b : <<a, b>> \in I => <<a, b>> \in K /\ (Path(K, a, a) => <<a, b>> \in M)
  BY CircleIsSplit, InsertGraphEdges
<1>3. \A a : \A b \in Neighbors(I, a) : <<a, b>> \in I /\ b \in s.tables
  BY <1>1, EdgeEnds
<1> HIDE DEF I, K, M
<1>4. /\ \A a, b : <<a, b>> \in I => Path(I, a, b)
      /\ \A a, b : <<a, b>> \in K => Path(K, a, b)
      /\ \A a, b : <<a, b>> \in M => Path(M, a, b)
  BY <1>1, EdgeIsPath
<1>5. /\ \A a, b, c : Path(I, a, b) /\ Path(I, b, c) => Path(I, a, c)
      /\ \A a, b, c : Path(K, a, b) /\ Path(K, b, c) => Path(K, a, c)
      /\ \A a, b, c : Path(M, a, b) /\ Path(M, b, c) => Path(M, a, c)
  BY <1>1, PathsCompose
<1>6. \A a, b : Path(I, a, b) => Path(K, a, b)
  <2> SUFFICES ASSUME NEW a, NEW b, Path(I, a, b) PROVE Path(K, a, b)
    OBVIOUS
  <2> DEFINE S == {v \in s.tables : Path(K, a, v)}
  <2>1. \A w \in Neighbors(I, a) : w \in S
    BY <1>2, <1>3, <1>4
  <2>2. \A w \in Nodes(I) \cap S : \A x \in Neighbors(I, w) : x \in S
    BY <1>2, <1>3, <1>4, <1>5
  <2> HIDE DEF S
  <2>3. b \in S
    BY <1>1, <2>1, <2>2, PathStays
  <2> QED
    BY <2>3 DEF S
<1>7. Path(I, t, t) /\ Path(K, t, t)
  BY <1>6 DEF I
<1>8. ASSUME NEW w \in Neighbors(I, t) PROVE w \in S2
  BY <1>2, <1>3, <1>4, <1>7
<1>9. ASSUME NEW w \in Nodes(I) \cap S2, NEW x \in Neighbors(I, w) PROVE x \in S2
  <2>1. <<w, x>> \in I /\ x \in s.tables /\ Path(K, t, w)
    BY <1>3
  <2>2. x \in S1
    BY <1>2, <1>4, <1>5, <2>1
  <2>3. ASSUME Path(I, x, t) PROVE Path(M, t, x)
    <3>1. Path(I, w, t)
      BY <1>4, <1>5, <2>1, <2>3
    <3>2. Path(K, w, w) /\ Path(M, t, w)
      BY <1>5, <1>6, <2>1, <3>1
    <3> QED
      BY <1>2, <1>4, <1>5, <2>1, <3>2
  <2> QED
    BY <2>2, <2>3
<1> HIDE DEF S1, S2
<1>10. t \in S2
  BY <1>1, <1>7, <1>8, <1>9, PathStays
<1> QED
  BY <1>7, <1>10 DEF S2, M

(* What BuildRunConfigs accepts: where keys reference primary keys, every  *)
(* schema no table of which reaches itself along mandatory keys.           *)
LEMMA AcceptsTheRest ==
  ASSUME NEW s, IsSchema(s), ReferencesKeys(s), \A t : ~Path(MandatoryGraph(s), t, t)
  PROVE  IsValidRunOrder(PlanOf(s))
<1>1. ASSUME NEW d, NEW done, InsertOf(s, d.table) \in done, d.columns \subseteq PrimaryKeys
      PROVE  /\ \E x \in done : x.table = d.table
             /\ d.columns \subseteq UNION {x.columns : x \in {y \in done : y.table = d.table}}
  <2> DEFINE x == InsertOf(s, d.table)
  <2>1. x \in done /\ x.table = d.table /\ d.columns \subseteq x.columns
    BY <1>1, InsertFacts, InsertWritesKey
  <2> HIDE DEF x
  <2> QED
    BY <2>1
<1>2. ASSUME NEW done \in SUBSET PlanOf(s), NEW t \in s.tables, InsertOf(s, t) \notin done
      PROVE  \E c \in PlanOf(s) \ done : Satisfied(c, done)
  <2> DEFINE missing == {u \in s.tables : InsertOf(s, u) \notin done}
             R == Reaches(InsertGraph(s))
  <2>1. missing # {} /\ IsFiniteSet(missing)
    BY <1>2, FS_Subset DEF IsSchema
  <2>2. \A u : <<u, u>> \notin R
    BY InsertsAreOrdered DEF Path
  <2>3. \A x, y, z : <<x, y>> \in R /\ <<y, z>> \in R => <<x, z>> \in R
    <3>1. \A x, y, z : Path(InsertGraph(s), x, y) /\ Path(InsertGraph(s), y, z)
                         => Path(InsertGraph(s), x, z)
      BY InsertGraphEdges, PathsCompose
    <3> QED
      BY <3>1 DEF Path
  <2>4. \A x, y : <<x, y>> \in InsertGraph(s) => <<x, y>> \in R
    BY InsertGraphEdges, EdgeIsPath DEF Path
  <2> HIDE DEF missing, R
  <2>5. PICK u \in missing : \A y \in missing : <<u, y>> \notin R
    BY <2>1, <2>2, <2>3, MaximalElement
  <2>6. u \in s.tables /\ InsertOf(s, u) \notin done /\ InsertOf(s, u) \in PlanOf(s)
    BY <2>5, TableConfigs DEF missing
  <2>7. ASSUME NEW d \in InsertOf(s, u).dependsOn
        PROVE  InsertOf(s, d.table) \in done /\ d.columns \subseteq PrimaryKeys
    <3>1. d.table \in s.tables
      BY <2>6, DependenciesOfConfigs
    <3>2. d.table \notin missing
      BY <2>4, <2>5, <2>6, InsertGraphEdges
    <3> QED
      BY <2>6, <3>1, <3>2, InsertReferencesKeys DEF missing
  <2>8. Satisfied(InsertOf(s, u), done)
    BY <1>1, <2>7 DEF Satisfied, AreConfigDependenciesSatisfied
  <2> QED
    BY <2>6, <2>8
<1>3. ASSUME NEW done \in SUBSET PlanOf(s), \A t \in s.tables : InsertOf(s, t) \in done,
             NEW c0 \in PlanOf(s) \ done
      PROVE  \E c \in PlanOf(s) \ done : Satisfied(c, done)
  <2> DEFINE t == c0.table
             up(n) == Updates(s, t)[n]
             missing == {n \in DOMAIN Updates(s, t) : up(n) \notin done}
  <2>1. t \in s.tables /\ c0 # InsertOf(s, t)
    BY <1>3, ConfigCases
  <2>2. IsSplit(s, t) /\ \E n \in DOMAIN Updates(s, t) : c0 = up(n)
    BY <2>1, ConfigCases
  <2>3. missing \in SUBSET Nat /\ missing # {}
    <3>1. DOMAIN Updates(s, t) \subseteq Nat
      BY <2>1, UpdatesOfTable
    <3> QED
      BY <2>2, <3>1
  <2> HIDE DEF missing
  <2>4. PICK n \in missing : \A m \in missing : n <= m
    BY <2>3, LeastNumber
  <2>5. n \in DOMAIN Updates(s, t) /\ n \in Nat /\ up(n) \notin done /\ up(n) \in PlanOf(s)
    BY <2>1, <2>2, <2>3, <2>4, TableConfigs DEF missing
  <2>6. ASSUME n - 1 \in DOMAIN Updates(s, t)
        PROVE  up(n - 1) \in done /\ up(n - 1).table = t
    <3>1. ~(n <= n - 1)
      BY <2>5
    <3>2. up(n - 1) \in done
      BY <2>4, <2>6, <3>1 DEF missing
    <3> QED
      BY <2>1, <2>6, <3>2, UpdateFacts
  <2>7. ASSUME NEW d \in up(n).dependsOn
        PROVE  /\ \E x \in done : x.table = d.table
               /\ d.columns \subseteq UNION {x.columns : x \in {y \in done : y.table = d.table}}
    <3>1. d.table \in s.tables
      BY <2>5, DependenciesOfConfigs
    <3>2. \/ d.columns \subseteq PrimaryKeys
          \/ d.table = t /\ n - 1 \in DOMAIN Updates(s, t) /\ d.columns = up(n - 1).columns
      BY <2>1, <2>5, UpdateReferencesKeys
    <3>3. CASE d.columns \subseteq PrimaryKeys
      BY <1>1, <1>3, <3>1, <3>3
    <3>4. CASE d.table = t /\ n - 1 \in DOMAIN Updates(s, t) /\ d.columns = up(n - 1).columns
      <4> DEFINE x == up(n - 1)
      <4>1. x \in done /\ x.table = d.table /\ d.columns \subseteq x.columns
        BY <2>6, <3>4
      <4> HIDE DEF x
      <4> QED
        BY <4>1
    <3> QED
      BY <3>2, <3>3, <3>4
  <2>8. Satisfied(up(n), done)
    BY <2>7 DEF Satisfied, AreConfigDependenciesSatisfied
  <2> QED
    BY <2>5, <2>8
<1>4. ASSUME NEW done \in SUBSET PlanOf(s), done # PlanOf(s)
      PROVE  \E c \in PlanOf(s) \ done : Satisfied(c, done)
  <2>1. CASE \E t \in s.tables : InsertOf(s, t) \notin done
    BY <1>2, <2>1
  <2>2. CASE \A t \in s.tables : InsertOf(s, t) \in done
    <3>1. PICK c0 \in PlanOf(s) : c0 \notin done
      BY <1>4
    <3> QED
      BY <1>3, <2>2, <3>1
  <2> QED
    BY <2>1, <2>2
<1> QED
  BY <1>4, PlanIsFinite, NoStuckSetIsAccepted

(* BuildRunConfigs refuses a schema with a circle of mandatory keys, the   *)
(* reason its error gives, and, where keys reference primary keys, for no  *)
(* other reason.                                                           *)
THEOREM RefusesMandatoryCircles == Spec => []RefusesOnlyMandatoryCircles
<1>1. ASSUME Static, accepted, NEW t, Path(MandatoryGraph(schema), t, t) PROVE FALSE
  <2>1. IsSchema(schema) /\ IsValidRunOrder(PlanOf(schema))
    BY <1>1, AcceptedPlan DEF Static
  <2>2. PICK rank : Ranked(schema, rank)
    BY <2>1, AcceptedIsRanked
  <2>3. rank[InsertOf(schema, t)] < rank[InsertOf(schema, t)]
    BY <1>1, <2>1, <2>2, MandatoryPathsGoDown
  <2>4. t \in schema.tables
    BY <1>1, <2>1, PathEnds, MandatoryGraphEdges, EdgeEnds
  <2>5. InsertOf(schema, t) \in PlanOf(schema)
    BY <2>4, TableConfigs
  <2> QED
    BY <2>2, <2>3, <2>5 DEF Ranked
<1>2. ASSUME Static, ReferencesKeys(schema), ~accepted
      PROVE  \E t \in schema.tables : Path(MandatoryGraph(schema), t, t)
  <2>1. IsSchema(schema) /\ ~IsValidRunOrder(PlanOf(schema))
    BY <1>2 DEF Static
  <2>2. PICK t : Path(MandatoryGraph(schema), t, t)
    BY <1>2, <2>1, AcceptsTheRest
  <2>3. t \in schema.tables
    BY <2>1, <2>2, PathEnds, MandatoryGraphEdges, EdgeEnds
  <2> QED
    BY <2>2, <2>3
<1>3. Static => RefusesOnlyMandatoryCircles
  BY <1>1, <1>2 DEF RefusesOnlyMandatoryCircles, Path
<1> QED
  BY <1>3, SpecStatic, PTL

-----------------------------------------------------------------------------
(***************************************************************************)
(* The jobs made of plans are what the datasync workflow requires.         *)
(***************************************************************************)
(* A config of a plan is told by its table, run type and number.           *)
LEMMA SameConfig ==
  ASSUME NEW s, IsSchema(s), NEW c \in PlanOf(s), NEW d \in PlanOf(s),
         c.table = d.table, c.runType = d.runType, c.count = d.count
  PROVE  c = d
<1>1. CASE c.runType = Insert
  <2>1. c = InsertOf(s, c.table)
    BY <1>1, ConfigCases
  <2>2. d = InsertOf(s, d.table)
    BY <1>1, ConfigCases
  <2> QED
    BY <2>1, <2>2, Zenon
<1>2. CASE c.runType # Insert
  <2>1. c.table \in s.tables
    BY ConfigCases
  <2>2. PICK m \in DOMAIN Updates(s, c.table) : c = Updates(s, c.table)[m]
    BY <1>2, ConfigCases
  <2>3. PICK n \in DOMAIN Updates(s, c.table) : d = Updates(s, c.table)[n]
    BY <1>2, ConfigCases
  <2>4. c.count = m /\ d.count = n
    BY <2>1, <2>2, <2>3, UpdateFacts
  <2> QED
    BY <2>2, <2>3, <2>4
<1> QED
  BY <1>1, <1>2

(* A benthos config keeps what the workflow reads of the run config.       *)
LEMMA BenthosFields ==
  ASSUME NEW s, NEW c
  PROVE  /\ BenthosConfig(s, c).table = c.table /\ BenthosConfig(s, c).runType = c.runType
         /\ BenthosConfig(s, c).count = c.count /\ BenthosConfig(s, c).columns = c.columns
         /\ BenthosConfig(s, c).dependsOn = c.dependsOn
         /\ BenthosConfig(s, c).redis => c.runType = Insert
BY DEF BenthosConfig, HasRedisHash, RunTypeInsert, Insert

(* The job of a schema, its tables taken in some order.                    *)
JobOf(s, order) == BenthosConfigs(s, BuildInOrder(s, order))

LEMMA JobOfPlan ==
  ASSUME NEW s, IsSchema(s), NEW order \in SetToSeqs(s.tables)
  PROVE  /\ JobOf(s, order) \in Seq(ToSet(JobOf(s, order))) /\ Distinct(JobOf(s, order))
         /\ \A b : b \in ToSet(JobOf(s, order)) <=>
               \E c \in PlanOf(s) : b = BenthosConfig(s, c)
<1> DEFINE configs == BuildInOrder(s, order)
           j == JobOf(s, order)
<1>1. configs \in Seq(PlanOf(s)) /\ ToSet(configs) = PlanOf(s) /\ Distinct(configs)
  BY BuildInAnyOrder
<1>2. j = [i \in DOMAIN configs |-> BenthosConfig(s, configs[i])]
  BY DEF JobOf, BenthosConfigs
<1> HIDE DEF configs, j
<1>3. DOMAIN configs = 1..Len(configs) /\ Len(configs) \in Nat
      /\ \A i \in DOMAIN configs : configs[i] \in PlanOf(s)
  BY <1>1
<1>4. \A c, d \in PlanOf(s) : BenthosConfig(s, c) = BenthosConfig(s, d) => c = d
  BY BenthosFields, SameConfig
<1>5. DOMAIN j = DOMAIN configs /\ \A i \in DOMAIN configs : j[i] = BenthosConfig(s, configs[i])
  BY <1>2
<1>6. Distinct(j)
  BY <1>1, <1>3, <1>4, <1>5 DEF Distinct
<1>7. \A b : b \in ToSet(j) <=> \E i \in DOMAIN configs : b = BenthosConfig(s, configs[i])
  BY <1>5 DEF ToSet
<1>8. \A c : c \in PlanOf(s) <=> \E i \in DOMAIN configs : c = configs[i]
  BY <1>1 DEF ToSet
<1>9. j \in Seq(ToSet(j))
  <2>1. \A i \in 1..Len(configs) : j[i] \in ToSet(j)
    BY <1>3, <1>5, <1>7
  <2>2. j \in [1..Len(configs) -> ToSet(j)]
    BY <1>2, <1>3, <2>1
  <2> QED
    BY <1>3, <2>2
<1> QED
  BY <1>6, <1>7, <1>8, <1>9 DEF j

(* Its tables are grouped as those of the plan.                            *)
LEMMA CyclesOfJob ==
  ASSUME NEW s, IsSchema(s), NEW order \in SetToSeqs(s.tables)
  PROVE  MergedCycles(ToSet(JobOf(s, order))) = Cycles(s)
<1> DEFINE S == ToSet(JobOf(s, order))
<1>1. \A b : b \in S <=> \E c \in PlanOf(s) : b = BenthosConfig(s, c)
  BY JobOfPlan
<1> HIDE DEF S
<1>2. \A e : e \in ConfigDependencyGraph(S) <=>
         \E b \in S : \E d \in b.dependsOn : d.table # b.table /\ e = <<b.table, d.table>>
  BY DEF ConfigDependencyGraph
<1>3. \A e : e \in ConfigDependencyGraph(PlanOf(s)) <=>
         \E c \in PlanOf(s) : \E d \in c.dependsOn : d.table # c.table /\ e = <<c.table, d.table>>
  BY DEF ConfigDependencyGraph
<1>4. \A c \in PlanOf(s) : /\ BenthosConfig(s, c) \in S
                           /\ BenthosConfig(s, c).table = c.table
                           /\ BenthosConfig(s, c).dependsOn = c.dependsOn
  BY <1>1, BenthosFields
<1>5. ConfigDependencyGraph(S) = ConfigDependencyGraph(PlanOf(s))
  <2>1. ASSUME NEW e \in ConfigDependencyGraph(S) PROVE e \in ConfigDependencyGraph(PlanOf(s))
    BY <1>1, <1>2, <1>3, <1>4
  <2>2. ASSUME NEW e \in ConfigDependencyGraph(PlanOf(s)) PROVE e \in ConfigDependencyGraph(S)
    <3>1. PICK c \in PlanOf(s) :
             \E d \in c.dependsOn : d.table # c.table /\ e = <<c.table, d.table>>
      BY <1>3
    <3> QED
      BY <1>2, <1>4, <3>1
  <2> QED
    BY <2>1, <2>2
<1>6. MergedCycles(S) = MergedCycles(PlanOf(s))
  BY <1>5 DEF MergedCycles
<1> QED
  BY <1>6, MergedCyclesOfPlan DEF Cycles, S

(* What BuildRunConfigs and the config builder give the datasync workflow  *)
(* is well-formed: the assumption the theorems about the workflow are made *)
(* under holds of every schema, in whatever order its tables are taken.    *)
THEOREM PlansAreWellFormed ==
  ASSUME NEW s, IsSchema(s), NEW order \in SetToSeqs(s.tables),
         NEW configs \in BuildRunConfigs(s, order)
  PROVE  WellFormed(BenthosConfigs(s, configs))
<1> DEFINE j == JobOf(s, order)
           S == ToSet(j)
<1>1. BenthosConfigs(s, configs) = j
  BY DEF BuildRunConfigs, JobOf
<1>2. /\ j \in Seq(S) /\ Distinct(j)
      /\ \A b : b \in S <=> \E c \in PlanOf(s) : b = BenthosConfig(s, c)
      /\ MergedCycles(S) = Cycles(s)
  BY JobOfPlan, CyclesOfJob
<1> HIDE DEF j, S
<1>3. ASSUME NEW b \in S, NEW d \in S, b.runType = Insert, d.runType = Insert, b.table = d.table
      PROVE  b = d
  <2>1. PICK c \in PlanOf(s) : b = BenthosConfig(s, c)
    BY <1>2
  <2>2. PICK e \in PlanOf(s) : d = BenthosConfig(s, e)
    BY <1>2
  <2>3. c.runType = Insert /\ e.runType = Insert /\ c.table = e.table
    BY <1>3, <2>1, <2>2, BenthosFields
  <2> QED
    BY <2>1, <2>2, <2>3, ConfigCases
<1>4. ASSUME NEW b \in S
      PROVE  /\ b.redis => b.runType = Insert
             /\ b.runType # Insert => b.runType = Update /\ b.dependsOn # {}
  <2>1. PICK c \in PlanOf(s) : b = BenthosConfig(s, c)
    BY <1>2
  <2>2. /\ b.runType = c.runType /\ b.dependsOn = c.dependsOn
        /\ b.redis => b.runType = Insert
    BY <2>1, BenthosFields
  <2>3. c.runType # Insert => c.runType = Update /\ c.dependsOn # {}
    BY ConfigCases, DependenciesOfConfigs
  <2> QED
    BY <2>2, <2>3
<1>5. \A C, D \in Cycles(s) : C # D => C \cap D = {}
  BY GraphOfPlan, ComponentFacts DEF Cycles
<1>6. \A m, n \in DOMAIN j : j[m] = j[n] => m = n
  BY <1>2 DEF Distinct
<1> QED
  BY <1>1, <1>2, <1>3, <1>4, <1>5, <1>6 DEF WellFormed, S

(* Where keys reference primary keys, what a key of a job needs is written *)
(* by an INSERT: the other assumption under which the workflow is shown to *)
(* implement its schedule.                                                 *)
THEOREM PlansPointAtInserts ==
  ASSUME NEW s, IsSchema(s), ReferencesKeys(s), NEW order \in SetToSeqs(s.tables),
         NEW configs \in BuildRunConfigs(s, order)
  PROVE  PointsAtInserts(BenthosConfigs(s, configs))
<1> DEFINE j == JobOf(s, order)
           S == ToSet(j)
<1>1. BenthosConfigs(s, configs) = j
  BY DEF BuildRunConfigs, JobOf
<1>2. \A b : b \in S <=> \E c \in PlanOf(s) : b = BenthosConfig(s, c)
  BY JobOfPlan
<1> HIDE DEF j, S
<1>3. ASSUME NEW b \in S, NEW d \in ForeignKeyDependencies(S, b)
      PROVE  \E e \in S : e.runType = Insert /\ e.table = d.table /\ d.columns \subseteq e.columns
  <2>1. PICK c \in PlanOf(s) : b = BenthosConfig(s, c)
    BY <1>2
  <2>2. b.table = c.table /\ b.dependsOn = c.dependsOn
    BY <2>1, BenthosFields
  <2>3. /\ d \in c.dependsOn
        /\ ~(d.table = c.table /\ \E u \in S :
               u.runType = Update /\ u.table = c.table /\ d.columns \subseteq u.columns)
    BY <2>2 DEF ForeignKeyDependencies, RunTypeUpdate, Update
  <2>4. \A u \in PlanOf(s) : /\ BenthosConfig(s, u) \in S
                             /\ BenthosConfig(s, u).runType = u.runType
                             /\ BenthosConfig(s, u).table = u.table
                             /\ BenthosConfig(s, u).columns = u.columns
    BY <1>2, BenthosFields
  <2>5. d \in ForeignKeyDependencies(PlanOf(s), c)
    BY <2>3, <2>4 DEF ForeignKeyDependencies, RunTypeUpdate, Update
  <2>6. d \in c.dependsOn /\ d.columns \subseteq PrimaryKeys
    BY <2>5, KeysReferenceKeys
  <2>7. d.table \in s.tables
    BY <2>6, DependenciesOfConfigs
  <2> DEFINE x == InsertOf(s, d.table)
  <2>8. x \in PlanOf(s) /\ x.runType = Insert /\ x.table = d.table /\ d.columns \subseteq x.columns
    BY <2>6, <2>7, TableConfigs, InsertFacts, InsertWritesKey
  <2> HIDE DEF x
  <2> QED
    BY <2>4, <2>8
<1> QED
  BY <1>1, <1>3 DEF PointsAtInserts, S
=============================================================================
