--------------------------- MODULE MCDiagnostics ---------------------------
(* Short streams over all channels, after a walk that left a Warning of the *)
(* group in the sink or left none.                                          *)
EXTENDS Diagnostics

MCEmitted == {<<>>, [k \in {[family1 |-> "GPS", name |-> "Warning"]} |->
                       [prefix |-> "", text |-> "in the walk"]]}
=============================================================================
