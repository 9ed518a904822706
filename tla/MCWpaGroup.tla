----------------------------- MODULE MCWpaGroup -----------------------------
(***************************************************************************)
(* Instances of WpaGroup for TLC: two stations.                            *)
(***************************************************************************)
EXTENDS WpaGroup

CONSTANTS s1, s2

\* Rekeyings that overlap, alone; all events but WNM-Sleep Mode; the same
\* without overlapping rekeyings; and WNM-Sleep Mode with the events that
\* leave a station's timer alone.
AllEnvs ==
    LET E == AllEnv \ {"wnm"}
    IN  {{"overlap"}, E, E \ {"overlap"}, {"overlap", "remove", "ocv", "wnm"}}
=============================================================================
