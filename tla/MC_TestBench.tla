---------------------------- MODULE MC_TestBench ----------------------------
(***************************************************************************)
(* Instance of TestBench for TLC.                                          *)
(***************************************************************************)
EXTENDS TestBench

MCRtcArgs == {<<"r">>, <<"w", "s">>, <<"s", "r">>, <<"s", "s">>, <<"?">>}

MCParams == {[unit |-> "ms", n |-> 1], [unit |-> "ms", n |-> 4], [unit |-> "us", n |-> 150],
             [unit |-> "us", n |-> 400], [unit |-> "no", n |-> 0]}

MCSpiOptions ==
  {[type |-> t, source |-> d.source, len |-> d.len, output |-> FALSE, string |-> "plain"] :
     t \in Types,
     d \in {[source |-> "p", len |-> 1], [source |-> "i", len |-> 2], [source |-> "l", len |-> 3],
            [source |-> "l", len |-> 5], [source |-> "d", len |-> 4]}}
  \cup {[type |-> 0, source |-> "p", len |-> 1, output |-> TRUE, string |-> e] :
          e \in {"escaped", "short", "malformed"}}
  \cup {[type |-> 0, source |-> "p+i", len |-> 0, output |-> FALSE, string |-> "plain"]}

MCPwmArgs == {[period |-> 0, duty |-> 0], [period |-> 2, duty |-> 1],
              [period |-> 4, duty |-> 3], [period |-> 2, duty |-> 3]}

MCKmsOptions == {{}, {"v"}, {"c"}, {"o"}, {"p"}, {"c", "p"}, {"v", "c", "o", "p"}}
MCKmsPlaneTypes == <<"primary", "cursor">>

=============================================================================
