---------------------------- MODULE MCWpaAuthSm ----------------------------
(***************************************************************************)
(* Instances of WpaAuthSm for TLC.  The station's frames are every message *)
(* 2/4 and 4/4 a Supplicant can make from the nonces, and requests.        *)
(***************************************************************************)
EXTENDS WpaAuthSm

CONSTANT g1

MCANonces == 1..MaxAnonce
MCKdes == [k \in Kinds |-> IF k = "gtk" THEN g1 ELSE NoKey]

M2Frames == {Msg2of4([rc |-> c], p) : c \in 1..MaxRc, p \in Ptks}
M4Frames == {Msg4of4([rc |-> c, mic |-> p]) : c \in 1..MaxRc, p \in Ptks}
Requests == {MsgRequest(0, p, FALSE, pair) : p \in Ptks, pair \in BOOLEAN}

AllFrames == M2Frames \cup M4Frames \cup Requests
=============================================================================
