---------------------------- MODULE MCHandshake ----------------------------
(***************************************************************************)
(* Instances of Handshake for TLC.                                         *)
(***************************************************************************)
EXTENDS Handshake

CONSTANT g1

MCANonces == 1..MaxAnonce
MCKdes == [k \in Kinds |-> IF k = "gtk" THEN g1 ELSE NoKey]

\* Behaviours of Spec in which the Authenticator gets no answer in the first
\* association, and neither end gives up the second.
Late ==
    IF ANonce < 2
    THEN wpa_ptk_state' \in {"NONE", "INITIALIZE", "PTKSTART"}
    ELSE /\ wpa_state' # "DISCONNECTED"
         /\ wpa_ptk_state' \notin {"NONE", "INITIALIZE"}
LateSpec == Init /\ [][Next /\ Late]_vars
=============================================================================
