------------------------ MODULE CircularDependencies ------------------------
(***************************************************************************)
(* Cycle detection of internal/runconfigs/circular-dependencies.go.  A     *)
(* dependency graph is a set of edges <<table, table it references>>.      *)
(***************************************************************************)
EXTENDS Naturals, Sequences, SequencesExt

\* The tables that some edge leaves or enters.
Nodes(edges) == {e[1] : e \in edges} \cup {e[2] : e \in edges}

\* The neighbours of a table, dependencies[current] in the code.
Neighbors(edges, t) == {e[2] : e \in {x \in edges : x[1] = t}}

(***************************************************************************)
(* dfsCycles(start, current): `path` starts at start and ends at current;  *)
(* recStack holds exactly the tables of the path.  A neighbour that closes *)
(* the path is a cycle, one already on the path ends the branch, any other *)
(* extends it.  uniqueCycles keeps one cycle per sorted table list: a set  *)
(* of table sets has that built in.                                        *)
(***************************************************************************)
CyclesFrom(edges, start) ==
    LET Dfs[path \in Seq(Nodes(edges))] ==
          UNION { IF n = start THEN {ToSet(path)}
                  ELSE IF n \in ToSet(path) THEN {}
                  ELSE Dfs[Append(path, n)] : n \in Neighbors(edges, Last(path)) }
    IN  Dfs[<<start>>]

FindCircularDependencies(edges) ==
    UNION {CyclesFrom(edges, start) : start \in {e[1] : e \in edges}}

-----------------------------------------------------------------------------
(***************************************************************************)
(* Reference definitions, not translated from the code.                    *)
(***************************************************************************)

\* The sets of tables no edge leaves.
ClosedSets(edges) ==
    {S \in SUBSET Nodes(edges) : \A e \in edges : e[1] \in S => e[2] \in S}

\* u reaches v over one or more edges: v is in every closed set that has the
\* neighbours of u.
Reaches(edges) ==
    {p \in Nodes(edges) \X Nodes(edges) :
        \A S \in ClosedSets(edges) : Neighbors(edges, p[1]) \subseteq S => p[2] \in S}

\* The strongly connected components with two tables or more.
Components(edges) ==
    LET reach == Reaches(edges)
        ComponentOf(t) == {u \in Nodes(edges) : <<t, u>> \in reach /\ <<u, t>> \in reach}
    IN  {S \in {ComponentOf(t) : t \in Nodes(edges)} :
            \E t, u \in S : t # u}
=============================================================================
