------------------------------- MODULE MCKernel -------------------------------
(* Small instances of Kernel for TLC. *)
EXTENDS Kernel

CONSTANTS a, b, c, x, main, signal

ThreeServices == <<a, b, c>>
TwoServices   == <<a, b>>
Missing       == {x}
OneCritical   == {a}
TwoCritical   == {a, b}
Tasks         == {main, signal}

\* The names of a set in a fixed order
Listed(names) == SelectSeq(<<a, b, c, x>>, LAMBDA n : n \in names)

\* Every dependency graph over the services, with one name nobody registered
AllGraphs ==
  {[s \in {a, b, c} |-> Listed(names[s])] : names \in [{a, b, c} -> SUBSET {a, b, c, x}]}

\* _topo_sort is right about every graph of the instance.
ASSUME TopoSortIsRight == SortIsRight

\* b depends on a
OneChain == {[s \in {a, b} |-> IF s = a THEN <<>> ELSE <<a>>]}
=============================================================================
