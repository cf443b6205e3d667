--------------------------- MODULE MCMutableLocks ---------------------------
(* Small instances of MutableLocks for TLC.                                *)
EXTENDS MutableLocks, TLC

CONSTANTS a, b, c, t1, t2, t3

ThreeMutables == {a, b, c}
ThreeThreads == {t1, t2, t3}

MCInitial == (a :> 1) @@ (b :> 2) @@ (c :> 3)

\* A total order, hence every way of nesting without a cycle; two Mutables
\* nested both ways; a Mutable nested in itself; a cycle of three.
MCOrders ==
    {{<<a, b>>, <<b, c>>, <<a, c>>},
     {<<a, b>>, <<b, a>>},
     {<<a, a>>},
     {<<a, b>>, <<b, c>>, <<c, a>>}}
=============================================================================
