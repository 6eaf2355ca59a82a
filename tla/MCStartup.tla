------------------------------ MODULE MCStartup ------------------------------
(* An instance of Startup for TLC: one of the user's two files has a key     *)
(* that comes twice, and the other a section and no setting.               *)
EXTENDS Startup
CONSTANTS d, e, f, section, protocol, workgroup
TheLines == {d, e, f, section}
TheKeys == [line \in {d, e, f} |-> IF line = d THEN protocol ELSE workgroup]
TheDefault == {d}
TheExternals == {<<e, f>>, <<section>>}
=============================================================================
