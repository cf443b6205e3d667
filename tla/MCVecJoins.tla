----------------------------- MODULE MCVecJoins -----------------------------
(* Instances of VecJoins for TLC.                                          *)
EXTENDS VecJoins

AllJoins == {"chain", "flatten", "switch", "map_signal", "filter_signal",
             "map_value_signal", "delay_remove"}

Vec(values, closed, v) ==
    [values |-> values, closed |-> closed, alphabet |-> {v}]

\* Inner vectors that are empty or not, alive or gone (switch); each has one value, so
\* that it shows which of them an output comes from.  A vector that is empty and
\* gone is left out for switch.
MCValues ==
    [j \in AllJoins |->
        CASE j = "flatten" -> {Vec(<<>>, FALSE, 1), Vec(<<2>>, FALSE, 2),
                               Vec(<<>>, TRUE, 1)}
          [] j = "switch" -> {Vec(<<>>, FALSE, 1), Vec(<<2, 2>>, FALSE, 2),
                              Vec(<<1>>, TRUE, 1)}
          [] OTHER -> {1, 2}]
=============================================================================
