----------------------------- MODULE Handshake -----------------------------
(***************************************************************************)
(* The Supplicant (WpaSm) and the Authenticator (WpaAuthSm) running the    *)
(* 4-way handshake with each other over a network that loses, delays,      *)
(* reorders and repeats EAPOL-Key frames: a frame that was sent can be     *)
(* delivered at any later time, any number of times.  With LateFrames this *)
(* goes on into the next association; without, the frames of an earlier    *)
(* association do not overtake the Association Request and its answer, and *)
(* none of them is processed as the pending frame of the next one.         *)
(*                                                                         *)
(* RSN without Extended Key ID.  The Authenticator learns of an            *)
(* association (Ap!Join) before the Supplicant does, and sees an           *)
(* Authentication frame only while the Supplicant associates.  Management  *)
(* frames that end an association may be lost: each side disconnects on    *)
(* its own.                                                                *)
(***************************************************************************)
EXTENDS EapolKey

CONSTANTS
    MaxAnonce, PairwiseUpdateCount, Pmf, Kdes,   \* Authenticator
    NoFrame, MaxRequest, Roam,                   \* Supplicant
    DenyPtk0Rekey, PtkRekey,                     \* both
    LateFrames     \* frames of an earlier association may still be delivered

ASSUME NoncesAssumption == MaxAnonce \in Nat /\ ANonces = 1..MaxAnonce

\* Message 3/4 of an RSN always carries a GTK (PTKINITNEGOTIATING).
ASSUME KdesAssumption == Kdes \in KeyData /\ Kdes["gtk"] # NoKey

VARIABLES
    \* the Supplicant
    wpa_state, portValid, auth_timeout, eapol_received, pending_eapol_rx,
    wnmsleep_used, snonce, renew_snonce, anonce, tptk, ptk, ptk_installed,
    rx_replay_counter, gk, gk_wnm, msg_3_of_4_ok, keyidx_active,
    use_ext_key_id, request_counter, rekey_timeout, drvPtk, drvTx, installs,
    gkInstalls, igtkIgnored, tx,
    \* the Authenticator
    wpa_ptk_state, ANonce, SNonce, alt, PTK, rc, key_replay, prev_key_replay,
    req_replay_counter, TimeoutCtr, timers, rekey_timer, ap_portValid,
    ap_drvPtk, ap_installs, ap_tx,
    \* the network
    toSta, toAp,   \* every frame sent so far
    joined         \* the Authenticator has answered this association

\* The Supplicant's configuration: RSN without Extended Key ID.
StaConf == [proto |-> "RSN", ext_key_id |-> FALSE,
            deny_ptk0_rekey |-> DenyPtk0Rekey]

Sta == INSTANCE WpaSm WITH
    Frames <- ApFrames, Faults <- {"none"}, Confs <- {StaConf}, conf <- StaConf

Ap == INSTANCE WpaAuthSm WITH
    Frames <- StaFrames, DisableRetries <- FALSE, GroupKdes <- Kdes,
    Faults <- {"none"}, portValid <- ap_portValid, drvPtk <- ap_drvPtk,
    installs <- ap_installs, tx <- ap_tx

staVars == <<wpa_state, portValid, auth_timeout, eapol_received,
    pending_eapol_rx, wnmsleep_used, snonce, renew_snonce, anonce, tptk, ptk,
    ptk_installed, rx_replay_counter, gk, gk_wnm, msg_3_of_4_ok,
    keyidx_active, use_ext_key_id, request_counter, rekey_timeout, drvPtk,
    drvTx, installs, gkInstalls, igtkIgnored, tx>>
apVars == <<wpa_ptk_state, ANonce, SNonce, alt, PTK, rc, key_replay,
    prev_key_replay, req_replay_counter, TimeoutCtr, timers, rekey_timer,
    ap_portValid, ap_drvPtk, ap_installs, ap_tx>>
vars == <<staVars, apVars, toSta, toAp, joined>>

Init == Sta!Init /\ Ap!Init /\ toSta = {} /\ toAp = {} /\ joined = FALSE

-----------------------------------------------------------------------------
\* What the Supplicant sends enters the network, and the other way around.
StaSends == toAp' = toAp \cup tx' /\ UNCHANGED <<apVars, toSta>>
ApSends  == toSta' = toSta \cup ap_tx' /\ UNCHANGED <<staVars, toAp>>

StaReceive ==
    /\ \E f \in toSta : Sta!RxEapol(f)
    /\ StaSends /\ UNCHANGED joined

StaAssociate == Sta!Associate /\ joined' = FALSE /\ StaSends

\* The pending frame is processed if it is not older than 200 ms; one that
\* was received in an earlier association is late.
StaAssociated ==
    /\ joined
    /\ \/ Sta!EventAssoc
       \/ Sta!EventAssocPending /\ (LateFrames \/ pending_eapol_rx \in toSta)
    /\ StaSends /\ UNCHANGED joined

StaRequest ==
    /\ \/ \E pair \in BOOLEAN : Sta!KeyRequest(FALSE, pair)
       \/ Sta!RekeyPtk
    /\ StaSends /\ UNCHANGED joined

StaDisconnect ==
    /\ Sta!EventDisassoc \/ Sta!Timeout
    /\ StaSends /\ UNCHANGED joined

ApReceive ==
    /\ \E f \in toAp : Ap!Receive(f)
    /\ ApSends /\ UNCHANGED joined

\* The Association Request, which arrives behind the Supplicant's earlier frames
\* unless some are late.
ApJoin ==
    /\ wpa_state = "ASSOCIATING" /\ Ap!Join
    /\ joined' = TRUE
    /\ IF LateFrames THEN ApSends
       ELSE toSta' = ap_tx' /\ toAp' = {} /\ UNCHANGED staVars

\* An Authentication frame.
ApAuth ==
    /\ wpa_state = "ASSOCIATING" /\ ~joined /\ Ap!AuthEvent
    /\ ApSends /\ UNCHANGED joined

ApLocal ==
    /\ Ap!Disassoc \/ Ap!StaDeinit \/ Ap!RekeyPtk \/ Ap!Timeout
    /\ ApSends /\ UNCHANGED joined

Next ==
    \/ StaReceive \/ StaAssociate \/ StaAssociated \/ StaRequest
    \/ StaDisconnect
    \/ ApReceive \/ ApJoin \/ ApAuth \/ ApLocal

Spec == Init /\ [][Next]_vars

-----------------------------------------------------------------------------
(* Properties.                                                             *)

\* When both sides have finished (PTKINITDONE and WPA_COMPLETED) they use
\* the same pairwise key, in the state machines and in the drivers.
SessionKeysAgree ==
    wpa_ptk_state = "PTKINITDONE" /\ wpa_state = "COMPLETED" =>
        /\ PTK = ptk
        /\ drvTx = 0 /\ drvPtk[0] = ap_drvPtk

Agreement == INSTANCE KeyAgreement WITH
    Keys <- Ptks, None <- NoKey,
    staKey <- IF drvTx = -1 THEN NoKey ELSE drvPtk[drvTx],
    staInstalls <- installs, apKey <- ap_drvPtk, apInstalls <- ap_installs

\* The two state machines implement KeyAgreement: PTKINITDONE installs only
\* a PTK that wpa_supplicant_install_ptk() installed before and did not
\* replace since, and neither installs a PTK twice.
ImplementsAgreement == Agreement!Spec
=============================================================================
