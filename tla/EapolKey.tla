------------------------------ MODULE EapolKey ------------------------------
(***************************************************************************)
(* The EAPOL-Key frames exchanged by the Supplicant                        *)
(* (src/rsn_supp/wpa.c) and the Authenticator (src/ap/wpa_auth.c), and the *)
(* keys they carry.                                                        *)
(*                                                                         *)
(* Cryptography is symbolic.  The PMK and the two addresses are fixed, so  *)
(* the pairwise transient key that wpa_pmk_to_ptk() derives is the pair of *)
(* the two nonces.  A MIC is the PTK whose KCK computed it; NoKey stands   *)
(* for a frame without the MIC bit.  A group key is an abstract value; the *)
(* three kinds travel as separate KDEs.                                    *)
(***************************************************************************)
EXTENDS Integers

CONSTANTS
    ANonces,     \* nonces the Authenticator can send
    MaxSnonce,   \* bound on the number of fresh SNonces the Supplicant draws
    MaxRc,       \* bound on the EAPOL-Key replay counter
    GKeys,       \* values of the group keys (GTK, IGTK and BIGTK)
    NoKey        \* an unset key, an absent KDE, an absent MIC

Kinds == {"gtk", "igtk", "bigtk"}

\* wpa_pmk_to_ptk(): the PTK as a function of the two nonces.
Ptks == [an : ANonces, sn : 1..MaxSnonce]

ASSUME BoundsAssumption == MaxSnonce \in Nat /\ MaxRc \in Nat
ASSUME NoKeyAssumption == NoKey \notin Ptks /\ NoKey \notin GKeys

KeyData == [Kinds -> GKeys \cup {NoKey}]

\* Key data without any group key KDE.
NoKde == [k \in Kinds |-> NoKey]

\* Frames of the Authenticator (ACK bit set, REQUEST bit clear).  keyid is
\* the Key ID KDE of Extended Key ID, -1 when the frame has none.
ApFrames ==
    [pair : BOOLEAN, rc : 0..MaxRc, nonce : ANonces \cup {NoKey},
     mic : Ptks \cup {NoKey}, install : BOOLEAN, secure : BOOLEAN,
     keyid : -1..3, keys : KeyData]

Msg1of4(rc, an) ==
    [pair |-> TRUE, rc |-> rc, nonce |-> an, mic |-> NoKey,
     install |-> FALSE, secure |-> FALSE, keyid |-> -1, keys |-> NoKde]

Msg3of4(rc, p, secure, keyid, keys) ==
    [pair |-> TRUE, rc |-> rc, nonce |-> p.an, mic |-> p,
     install |-> TRUE, secure |-> secure, keyid |-> keyid, keys |-> keys]

Msg1of2(rc, p, keys) ==
    [pair |-> FALSE, rc |-> rc, nonce |-> NoKey, mic |-> p,
     install |-> FALSE, secure |-> TRUE, keyid |-> -1, keys |-> keys]

\* Frames of the Supplicant: message 2/4 carries the SNonce, message 4/4 and
\* the group message 2/2 do not (0 stands for the all-zero nonce); REQ is a
\* frame with the REQUEST bit.
StaFrames ==
    [type : {"M2", "M4", "G2", "REQ"}, rc : Nat, nonce : 0..MaxSnonce,
     mic : Ptks \cup {NoKey}, error : BOOLEAN, pair : BOOLEAN]

Msg2of4(f, p) ==
    [type |-> "M2", rc |-> f.rc, nonce |-> p.sn, mic |-> p,
     error |-> FALSE, pair |-> TRUE]

Msg4of4(f) ==
    [type |-> "M4", rc |-> f.rc, nonce |-> 0, mic |-> f.mic,
     error |-> FALSE, pair |-> TRUE]

Msg2of2(f) ==
    [type |-> "G2", rc |-> f.rc, nonce |-> 0, mic |-> f.mic,
     error |-> FALSE, pair |-> FALSE]

MsgRequest(rc, p, error, pair) ==
    [type |-> "REQ", rc |-> rc, nonce |-> 0, mic |-> p,
     error |-> error, pair |-> pair]
=============================================================================
