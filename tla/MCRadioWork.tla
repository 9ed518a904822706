----------------------------- MODULE MCRadioWork -----------------------------
(* Instances of RadioWork for TLC: two interfaces, each optional event alone,  *)
(* and the pairs that may interfere.                                           *)
EXTENDS RadioWork

MCEnvs == {{e} : e \in AllEnv} \cup {{"ext", "remove"}, {"disable", "extscan"},
                                      {"nores", "extscan"}}

\* One interface that is disabled while an external program uses the radio.
StallEnvs == {{"disable", "ext"}}

\* Nothing but scans, connection attempts and GAS queries.
PlainEnvs == {{}}
=============================================================================
