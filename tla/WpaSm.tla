------------------------------- MODULE WpaSm -------------------------------
(***************************************************************************)
(* The Supplicant's EAPOL-Key state machine: struct wpa_sm of              *)
(* src/rsn_supp/wpa.c, together with the parts of wpa_supplicant that      *)
(* drive it (EAPOL reception, association and disassociation events, the   *)
(* authentication timer) and the keys it configures in the driver.         *)
(*                                                                         *)
(* One Authenticator, a PSK-like AKM (the PMK is known when the            *)
(* association starts; no EAP, FT or FILS), PMF and beacon protection      *)
(* enabled.  Next lets the environment deliver any frame of Frames, once   *)
(* or many times, in any order; module Handshake replaces that environment *)
(* by the Authenticator and a network.                                     *)
(***************************************************************************)
EXTENDS EapolKey

CONSTANTS
    Frames,        \* frames the environment may deliver
    NoFrame,       \* no EAPOL frame is pending
    MaxRequest,    \* bound on the number of EAPOL-Key requests
    Confs,         \* configurations of the network profile, see AllConfs
    PtkRekey,      \* sm->wpa_ptk_rekey # 0
    Roam,          \* may wpa_supplicant associate again without disconnecting
    Faults         \* operations that may fail, see Stop3of4 and Stop1of2

AllFaults == {"none", "decrypt", "data", "oci", "ptk", "tx", "send",
              "gtk", "igtk", "bigtk", "keyid"}

\* sm->proto, sm->ext_key_id and sm->wpa_deny_ptk0_rekey.
AllConfs == [proto : {"RSN", "WPA"}, ext_key_id : BOOLEAN,
             deny_ptk0_rekey : BOOLEAN]

ASSUME FramesAssumption == Frames \subseteq ApFrames /\ NoFrame \notin Frames
ASSUME ConfigAssumption ==
    /\ Confs \subseteq AllConfs
    /\ {PtkRekey, Roam} \subseteq BOOLEAN
    /\ "none" \in Faults /\ Faults \subseteq AllFaults
    /\ MaxRequest \in Nat

VARIABLES
    conf,              \* the configuration, which never changes
    \* wpa_supplicant
    wpa_state,         \* wpa_s->wpa_state
    portValid,         \* portValid of the EAPOL Supplicant
    auth_timeout,      \* wpa_supplicant_timeout is registered
    eapol_received,    \* wpa_s->eapol_received # 0
    pending_eapol_rx,  \* frame received before the association event
    wnmsleep_used,     \* a WNM-Sleep Mode request is outstanding
    \* struct wpa_sm
    snonce, renew_snonce, anonce,
    tptk, ptk, ptk_installed,
    rx_replay_counter, \* -1: rx_replay_counter_set is 0
    gk, gk_wnm,        \* gtk/igtk/bigtk and their _wnm_sleep twins
    msg_3_of_4_ok,
    keyidx_active, use_ext_key_id,
    request_counter,
    rekey_timeout,     \* wpa_sm_rekey_ptk is registered
    \* keys in the driver
    drvPtk,            \* pairwise key at each key index
    drvTx,             \* key index used for transmission, -1 when none
    installs,          \* how often each PTK was given to the driver
    gkInstalls,        \* how often each group key was, since it was removed
    igtkIgnored,       \* IGTKs the driver refused and wpa_sm keeps, since then
    \* frames sent by the last step
    tx

ifVars  == <<wpa_state, portValid, pending_eapol_rx, wnmsleep_used>>
timers  == <<auth_timeout, eapol_received, rekey_timeout>>
nonces  == <<snonce, renew_snonce, anonce>>
ptkVars == <<tptk, ptk, ptk_installed>>
gkVars  == <<gk, gk_wnm, gkInstalls, igtkIgnored>>
idVars  == <<keyidx_active, use_ext_key_id>>
drvVars == <<drvPtk, drvTx, installs>>
vars == <<conf, ifVars, timers, nonces, ptkVars, rx_replay_counter, gkVars,
          msg_3_of_4_ok, idVars, request_counter, drvVars, tx>>

InSession == wpa_state \in
    {"ASSOCIATED", "4WAY_HANDSHAKE", "GROUP_HANDSHAKE", "COMPLETED"}

NoDrvPtk == [i \in {0, 1} |-> NoKey]

Init ==
    /\ conf \in Confs
    /\ wpa_state = "DISCONNECTED"
    /\ portValid = FALSE
    /\ auth_timeout = FALSE
    /\ eapol_received = FALSE
    /\ pending_eapol_rx = NoFrame
    /\ wnmsleep_used = FALSE
    /\ snonce = 0
    /\ renew_snonce = TRUE
    /\ anonce = NoKey
    /\ tptk = NoKey /\ ptk = NoKey /\ ptk_installed = FALSE
    /\ rx_replay_counter = -1
    /\ gk = NoKde /\ gk_wnm = NoKde
    /\ msg_3_of_4_ok = FALSE
    /\ keyidx_active = 0 /\ use_ext_key_id = FALSE
    /\ request_counter = 0
    /\ rekey_timeout = FALSE
    /\ drvPtk = NoDrvPtk /\ drvTx = -1
    /\ installs = [p \in Ptks |-> 0]
    /\ gkInstalls = [k \in Kinds |-> [g \in GKeys |-> 0]]
    /\ igtkIgnored = {}
    /\ tx = {}

-----------------------------------------------------------------------------
(* Dropping keys.                                                          *)

\* Mutant: the group keys survive.
DropGkNothing(g) == g

\* wpa_sm_drop_sa() and wpa_sm_notify_assoc() clear the GTK and the IGTK.
DropGk(g) == [k \in Kinds |-> IF k = "bigtk" THEN g[k] ELSE NoKey]

\* wpa_clear_keys() removes the group keys with index 0..5, which leaves the
\* BIGTK (index 6 and 7).
ClearGk(n) ==
    [k \in Kinds |-> IF k = "bigtk" THEN n[k] ELSE [g \in GKeys |-> 0]]

ClearDriverKeys(n) ==
    /\ drvPtk' = NoDrvPtk
    /\ drvTx' = -1
    /\ gkInstalls' = ClearGk(n)
    /\ igtkIgnored' = {}

\* wpa_sm_drop_sa(), and wpa_sm_notify_disassoc(), with the group keys g.
DropSa(g) ==
    /\ tptk' = NoKey /\ ptk' = NoKey /\ ptk_installed' = FALSE
    /\ gk' = DropGk(g) /\ gk_wnm' = DropGk(gk_wnm)
    /\ keyidx_active' = 0

\* Mutants: the rekey timer keeps running; the handshake counts as done.
NotifyDisassocKeepsTimer(g) ==
    DropSa(g) /\ msg_3_of_4_ok' = FALSE /\ UNCHANGED rekey_timeout
NotifyDisassocKeepsMsg3(g) ==
    DropSa(g) /\ rekey_timeout' = FALSE /\ UNCHANGED msg_3_of_4_ok

NotifyDisassoc(g) ==
    DropSa(g) /\ rekey_timeout' = FALSE /\ msg_3_of_4_ok' = FALSE

\* wpa_supplicant_deauthenticate(): EVENT_DEAUTH is processed on the spot
\* (wpa_sm_notify_disassoc() and wpa_clear_keys()), then the connection is
\* cleared.  g and n are the group keys and their installation counts at
\* that point of the handler.
Disconnect(g, n) ==
    /\ wpa_state' = "DISCONNECTED"
    /\ portValid' = FALSE
    /\ auth_timeout' = FALSE
    /\ wnmsleep_used' = FALSE
    /\ NotifyDisassoc(g)
    /\ ClearDriverKeys(n)

\* The same as a step of its own.
Disconnected ==
    /\ Disconnect(gk, gkInstalls)
    /\ tx' = {}
    /\ UNCHANGED <<pending_eapol_rx, eapol_received, nonces,
                   rx_replay_counter, use_ext_key_id, request_counter,
                   installs>>

-----------------------------------------------------------------------------
(* Reception of EAPOL frames.                                              *)

\* Mutant: the timer is cancelled and not started again.
RxTimersCancelled ==
    /\ auth_timeout' = (auth_timeout /\ eapol_received)
    /\ eapol_received' = TRUE

\* wpa_supplicant_rx_eapol(): the first frame of an association restarts the
\* authentication timer.
RxTimers ==
    /\ auth_timeout' = (auth_timeout \/ ~eapol_received)
    /\ eapol_received' = TRUE

\* Mutant: only the last counter is refused.
FreshUnlessLast(f) == f.rc # rx_replay_counter

Fresh(f) == f.rc > rx_replay_counter

\* wpa_supplicant_verify_eapol_key_mic() tries the TPTK, then the PTK.
Verified(f) == f.mic # NoKey /\ f.mic \in {tptk, ptk}

\* Mutants: the flag is lost (every message 3/4 installs the key again); the
\* flag of the previous PTK is kept for the new one.
InstalledAfterNever(f) == FALSE
InstalledAfterKept(f) == ptk_installed

\* ptk.installed after that function: a TPTK that becomes the PTK is a copy
\* of a key that was never installed.
InstalledAfter(f) == f.mic # tptk /\ ptk_installed

RenewAfter(f) == renew_snonce \/ f.mic = tptk

\* Mutant: the PTK of the running session is kept.
AcceptMicKeepsPtk(f) ==
    /\ ptk' = IF ptk = NoKey THEN f.mic ELSE ptk
    /\ tptk' = IF f.mic = tptk THEN NoKey ELSE tptk
    /\ rx_replay_counter' = f.rc

\* What wpa_supplicant_verify_eapol_key_mic() leaves behind when the handler
\* goes on without disconnecting.
AcceptMic(f) ==
    /\ ptk' = f.mic
    /\ tptk' = IF f.mic = tptk THEN NoKey ELSE tptk
    /\ rx_replay_counter' = f.rc

\* A frame received before the association event is kept for it.
RxEarly(f) ==
    /\ ~InSession
    /\ pending_eapol_rx' = f
    /\ tx' = {}
    /\ UNCHANGED <<wpa_state, portValid, wnmsleep_used, timers, nonces,
                   ptkVars, rx_replay_counter, gkVars, msg_3_of_4_ok, idVars,
                   request_counter, drvVars>>

\* The frame is a replay, its MIC cannot be verified, or it is a group key
\* message without MIC.
RxDrop(f) ==
    /\ InSession
    /\ \/ ~Fresh(f)
       \/ f.mic # NoKey /\ ~Verified(f)
       \/ f.mic = NoKey /\ ~f.pair
    /\ RxTimers
    /\ tx' = {}
    /\ UNCHANGED <<ifVars, rekey_timeout, nonces, ptkVars, rx_replay_counter,
                   gkVars, msg_3_of_4_ok, idVars, request_counter, drvVars>>

\* The MIC is right but wpa_supplicant_decrypt_key_data() fails.
RxDecryptFail(f) ==
    /\ "decrypt" \in Faults
    /\ InSession /\ Fresh(f) /\ Verified(f)
    /\ AcceptMic(f)
    /\ ptk_installed' = InstalledAfter(f)
    /\ renew_snonce' = RenewAfter(f)
    /\ RxTimers
    /\ tx' = {}
    /\ UNCHANGED <<ifVars, rekey_timeout, snonce, anonce, gkVars,
                   msg_3_of_4_ok, idVars, request_counter, drvVars>>

-----------------------------------------------------------------------------
(* Message 1/4.                                                            *)

DenyPtk0 ==
    conf.deny_ptk0_rekey /\ ~use_ext_key_id /\ wpa_state = "COMPLETED"

NextSnonce(renew) == IF renew THEN snonce + 1 ELSE snonce

\* The part of wpa_supplicant_process_1_of_4() that sends message 2/4: the
\* key is kept as TPTK until message 3/4 proves that the Authenticator has it.
Reply2of4(f, renew) ==
    LET p == [an |-> f.nonce, sn |-> NextSnonce(renew)]
    IN  /\ NextSnonce(renew) \in 1..MaxSnonce
        /\ wpa_state' = "4WAY_HANDSHAKE"
        /\ snonce' = NextSnonce(renew)
        /\ renew_snonce' = FALSE
        /\ anonce' = f.nonce
        /\ tptk' = p
        /\ tx' = {Msg2of4(f, p)}

Is1of4(f) == f.pair /\ f.mic = NoKey /\ f.nonce # NoKey

Rx1of4(f) ==
    /\ InSession /\ Fresh(f) /\ Is1of4(f)
    /\ ~DenyPtk0
    /\ Reply2of4(f, renew_snonce)
    /\ RxTimers
    /\ UNCHANGED <<portValid, pending_eapol_rx, wnmsleep_used, rekey_timeout,
                   ptk, ptk_installed, rx_replay_counter, gkVars,
                   msg_3_of_4_ok, idVars, request_counter, drvVars>>

\* PTK0 rekeying is denied, or processing fails: before ("data") or after
\* ("send") a new SNonce was drawn.
Rx1of4Fail(f, fault) ==
    /\ InSession /\ Fresh(f) /\ Is1of4(f)
    /\ DenyPtk0 \/ fault \in {"data", "send"}
    /\ IF ~DenyPtk0 /\ fault = "send"
       THEN /\ NextSnonce(renew_snonce) \in 1..MaxSnonce
            /\ snonce' = NextSnonce(renew_snonce)
            /\ renew_snonce' = FALSE
       ELSE UNCHANGED <<snonce, renew_snonce>>
    /\ Disconnect(gk, gkInstalls)
    /\ eapol_received' = TRUE
    /\ tx' = {}
    /\ UNCHANGED <<pending_eapol_rx, anonce, rx_replay_counter,
                   use_ext_key_id, request_counter, installs>>

-----------------------------------------------------------------------------
(* Configuring keys.                                                       *)

\* wpa_supplicant_install_gtk(), _igtk() and _bigtk(): a key that is in use
\* already is not programmed again.
Programs(kind, k) == k # NoKey /\ k # gk[kind] /\ k # gk_wnm[kind]

Programmed(keys, kinds) ==
    [k \in Kinds |->
        IF k \in kinds /\ Programs(k, keys[k]) THEN keys[k] ELSE gk[k]]

\* Two installations are as many as the properties tell apart.
Bump(n) == IF n < 2 THEN n + 1 ELSE n

Counted(keys, kinds) ==
    [k \in Kinds |-> [g \in GKeys |->
        IF k \in kinds /\ Programs(k, keys[k]) /\ g = keys[k]
        THEN Bump(gkInstalls[k][g]) ELSE gkInstalls[k][g]]]

\* wpa_supplicant_install_igtk() ignores that the driver refuses an IGTK whose
\* KeyID has its bytes swapped (0x0400, 0x0500; fault "keyid"), and remembers
\* it like one that was configured.  InDriver are the kinds that are.
InDriver(kinds, fault) ==
    IF fault = "keyid" THEN kinds \ {"igtk"} ELSE kinds

Ignored(keys, kinds, fault) ==
    igtkIgnored \cup
        {g \in {keys["igtk"]} :
            /\ fault = "keyid" /\ "igtk" \in kinds
            /\ Programs("igtk", g)}

\* Mutant: a missing Key ID KDE is not mapped to index 0.
KeyIdxRaw(f) == f.keyid

\* wpa_handle_ext_key_id()
ExtKeyIdOk(f) ==
    IF conf.ext_key_id
    THEN f.keyid \in {0, 1} \/ (f.keyid = -1 /\ ~use_ext_key_id)
    ELSE f.keyid \in {-1, 0}
UseExt(f) == conf.ext_key_id /\ (f.keyid \in {0, 1} \/ use_ext_key_id)
KeyIdx(f) == IF conf.ext_key_id /\ f.keyid = 1 THEN 1 ELSE 0

-----------------------------------------------------------------------------
(* Message 3/4.                                                            *)

\* The first check of a sequence <<name, failed>> of checks that failed.
FirstFailed(checks) ==
    LET failed == {i \in DOMAIN checks : checks[i][2]}
    IN  IF failed = {} THEN "ok"
        ELSE checks[CHOOSE i \in failed : \A j \in failed : i <= j][1]

\* Where wpa_supplicant_process_3_of_4() stops.
Stop3of4(f, fault) == FirstFailed(<<
    <<"data",     fault = "data">>,
    <<"keyid",    ~ExtKeyIdOk(f)>>,
    <<"nonce",    f.nonce # anonce>>,
    <<"oci",      fault = "oci">>,
    <<"install",  fault = "ptk" /\ UseExt(f) /\ ~InstalledAfter(f)>>,
    <<"send",     fault = "send">>,
    <<"key",      /\ f.install
                  /\ \/ fault = "ptk" /\ ~UseExt(f) /\ ~InstalledAfter(f)
                     \/ fault = "tx" /\ UseExt(f)>>,
    <<"group",    \/ conf.proto = "RSN" /\ f.keys["gtk"] = NoKey
                  \/ fault \in Kinds /\ Programs(fault, f.keys[fault])>> >>)

\* wpa_supplicant_install_ptk() reaches the driver: before message 4/4 with
\* Extended Key ID, after it (and only with the Install bit) without.
InstallsPtk(f, stop) ==
    /\ ~InstalledAfter(f)
    /\ IF UseExt(f) THEN stop \in {"send", "key", "group", "ok"}
                    ELSE f.install /\ stop \in {"group", "ok"}

CountInstall(f, stop) ==
    installs' = IF InstallsPtk(f, stop)
                THEN [installs EXCEPT ![f.mic] = @ + 1] ELSE installs

Is3of4(f) == f.pair /\ Verified(f)

Rx3of4(f, fault) ==
    /\ InSession /\ Fresh(f) /\ Is3of4(f)
    /\ Stop3of4(f, fault) = "ok"
    /\ AcceptMic(f)
    /\ ptk_installed' = (InstalledAfter(f) \/ InstallsPtk(f, "ok"))
    /\ CountInstall(f, "ok")
    /\ drvPtk' = IF InstallsPtk(f, "ok")
                 THEN [drvPtk EXCEPT ![KeyIdx(f)] = f.mic] ELSE drvPtk
    /\ drvTx' = IF f.install /\ (UseExt(f) \/ InstallsPtk(f, "ok"))
                THEN KeyIdx(f) ELSE drvTx
    /\ keyidx_active' = KeyIdx(f) /\ use_ext_key_id' = UseExt(f)
    /\ renew_snonce' = TRUE
    /\ portValid' = (portValid \/ f.secure)
    /\ gk' = Programmed(f.keys, Kinds)
    /\ gkInstalls' = Counted(f.keys, InDriver(Kinds, fault))
    /\ igtkIgnored' = Ignored(f.keys, Kinds, fault)
    /\ IF f.keys["gtk"] # NoKey          \* wpa_supplicant_key_neg_complete()
       THEN /\ wpa_state' = "COMPLETED"
            /\ auth_timeout' = FALSE /\ eapol_received' = TRUE
       ELSE /\ wpa_state' = "GROUP_HANDSHAKE"
            /\ RxTimers
    /\ rekey_timeout' = (rekey_timeout \/ (PtkRekey /\ InstallsPtk(f, "ok")))
    /\ msg_3_of_4_ok' = TRUE
    /\ tx' = {Msg4of4(f)}
    /\ UNCHANGED <<pending_eapol_rx, wnmsleep_used, snonce, anonce, gk_wnm,
                   request_counter>>

\* Operating Channel Validation fails: the handler returns without replying
\* and without disconnecting.
Rx3of4Oci(f, fault) ==
    /\ InSession /\ Fresh(f) /\ Is3of4(f)
    /\ Stop3of4(f, fault) = "oci"
    /\ AcceptMic(f)
    /\ ptk_installed' = InstalledAfter(f)
    /\ renew_snonce' = RenewAfter(f)
    /\ keyidx_active' = KeyIdx(f) /\ use_ext_key_id' = UseExt(f)
    /\ wpa_state' = "4WAY_HANDSHAKE"
    /\ RxTimers
    /\ tx' = {}
    /\ UNCHANGED <<portValid, pending_eapol_rx, wnmsleep_used, rekey_timeout,
                   snonce, anonce, gkVars, msg_3_of_4_ok, request_counter,
                   drvVars>>

\* Every other failure disconnects, some of them after message 4/4 was sent.
Rx3of4Fail(f, fault) ==
    LET stop == Stop3of4(f, fault) IN
    /\ InSession /\ Fresh(f) /\ Is3of4(f)
    /\ stop \notin {"ok", "oci"}
    /\ Disconnect(gk, gkInstalls)
    /\ rx_replay_counter' = f.rc
    /\ CountInstall(f, stop)
    /\ renew_snonce' =
          (RenewAfter(f) \/ stop \in {"key", "group"})
    /\ use_ext_key_id' = IF stop = "data" THEN use_ext_key_id ELSE UseExt(f)
    /\ eapol_received' = TRUE
    /\ tx' = IF stop \in {"key", "group"}
             THEN {Msg4of4(f)} ELSE {}
    /\ UNCHANGED <<pending_eapol_rx, snonce, anonce, request_counter>>

-----------------------------------------------------------------------------
(* Group key message 1/2.                                                  *)

Is1of2(f) == ~f.pair /\ Verified(f)

\* Where wpa_supplicant_process_1_of_2() stops.
Stop1of2(f, fault) == FirstFailed(<<
    <<"early", ~msg_3_of_4_ok>>,
    <<"data",  fault \in {"data", "oci"} \/ f.keys["gtk"] = NoKey>>,
    <<"gtk",   fault = "gtk" /\ Programs("gtk", f.keys["gtk"])>>,
    <<"send",  fault = "send">> >>)

\* The group keys configured up to there: the IGTK, then the BIGTK, then the
\* GTK.  Failures to configure the first two are only logged.
Kinds1of2(f, fault) ==
    LET stop == Stop1of2(f, fault) IN
    {k \in Kinds :
        /\ stop \notin {"early", "data", k}
        /\ k = "gtk" \/ conf.proto = "RSN"
        /\ k = "igtk" => fault # "igtk"
        /\ k = "bigtk" => /\ fault # "bigtk"
                          /\ ~(fault = "igtk"
                               /\ Programs("igtk", f.keys["igtk"]))}

Rx1of2(f, fault) ==
    LET kinds == Kinds1of2(f, fault) IN
    /\ InSession /\ Fresh(f) /\ Is1of2(f)
    /\ Stop1of2(f, fault) = "ok"
    /\ AcceptMic(f)
    /\ ptk_installed' = InstalledAfter(f)
    /\ renew_snonce' = RenewAfter(f)
    /\ gk' = Programmed(f.keys, kinds)
    /\ gkInstalls' = Counted(f.keys, InDriver(kinds, fault))
    /\ igtkIgnored' = Ignored(f.keys, kinds, fault)
    /\ wpa_state' = "COMPLETED"
    /\ portValid' = (portValid \/ (f.secure /\ wpa_state # "COMPLETED"))
    /\ auth_timeout' = FALSE /\ eapol_received' = TRUE
    /\ tx' = {Msg2of2(f)}
    /\ UNCHANGED <<pending_eapol_rx, wnmsleep_used, rekey_timeout, snonce,
                   anonce, gk_wnm, msg_3_of_4_ok, idVars, request_counter,
                   drvVars>>

Rx1of2Fail(f, fault) ==
    LET kinds == Kinds1of2(f, fault)
    IN  /\ InSession /\ Fresh(f) /\ Is1of2(f)
        /\ Stop1of2(f, fault) # "ok"
        /\ Disconnect(Programmed(f.keys, kinds),
                      Counted(f.keys, InDriver(kinds, fault)))
        /\ rx_replay_counter' = f.rc
        /\ renew_snonce' = RenewAfter(f)
        /\ eapol_received' = TRUE
        /\ tx' = {}
        /\ UNCHANGED <<pending_eapol_rx, snonce, anonce, use_ext_key_id,
                       request_counter, installs>>

-----------------------------------------------------------------------------
(* Requests to the Authenticator, and WNM-Sleep Mode.                      *)

\* wpa_sm_key_request(): reports a Michael MIC failure (error) or asks for a
\* new key.  The frame carries a MIC only when there is a PTK.
SendRequest(error, pair) ==
    /\ tx' = {MsgRequest(request_counter, ptk, error, pair)}
    /\ request_counter' = request_counter + 1
    /\ UNCHANGED <<ifVars, auth_timeout, eapol_received, nonces, ptkVars,
                   rx_replay_counter, gkVars, msg_3_of_4_ok, idVars, drvVars>>

KeyRequest(error, pair) ==
    /\ InSession
    /\ request_counter < MaxRequest
    /\ IF pair /\ DenyPtk0
       THEN Disconnected
       ELSE SendRequest(error, pair) /\ UNCHANGED rekey_timeout

\* The timer wpa_sm_rekey_ptk(), registered when a PTK is installed, fires.
RekeyPtk ==
    /\ rekey_timeout
    /\ request_counter < MaxRequest
    /\ IF DenyPtk0
       THEN Disconnected
       ELSE SendRequest(FALSE, TRUE) /\ rekey_timeout' = FALSE

\* ieee802_11_send_wnmsleep_req()
WnmSleepReq ==
    /\ wpa_state = "COMPLETED"
    /\ wnmsleep_used' = TRUE
    /\ tx' = {}
    /\ UNCHANGED <<wpa_state, portValid, pending_eapol_rx, timers, nonces,
                   ptkVars, rx_replay_counter, gkVars, msg_3_of_4_ok, idVars,
                   request_counter, drvVars>>

\* wnm_sleep_mode_exit_success(): the response to leaving WNM-Sleep Mode
\* carries the current group keys; a key that fails to install is skipped.
RxWnmSleepResp(keys, fault) ==
    LET kinds == Kinds \ {fault} IN
    /\ InSession /\ wnmsleep_used
    /\ wnmsleep_used' = FALSE
    /\ gk_wnm' = [k \in Kinds |-> IF k \in kinds /\ Programs(k, keys[k])
                                  THEN keys[k] ELSE gk_wnm[k]]
    /\ gkInstalls' = Counted(keys, InDriver(kinds, fault))
    /\ igtkIgnored' = Ignored(keys, kinds, fault)
    /\ tx' = {}
    /\ UNCHANGED <<wpa_state, portValid, pending_eapol_rx, timers, nonces,
                   ptkVars, rx_replay_counter, gk, msg_3_of_4_ok, idVars,
                   request_counter, drvVars>>

-----------------------------------------------------------------------------
(* Association, disassociation and the authentication timer.               *)

\* wpas_start_assoc_cb(): the driver's keys are cleared and the timer is
\* started; whether the AP supports Extended Key ID is read from its RSNE.
\* The EAPOL Supplicant is not told: portValid keeps its value.
Associate ==
    /\ wpa_state = "DISCONNECTED" \/ (Roam /\ InSession)
    /\ wpa_state' = "ASSOCIATING"
    /\ auth_timeout' = TRUE
    /\ use_ext_key_id' \in IF conf.ext_key_id THEN BOOLEAN ELSE {FALSE}
    /\ ClearDriverKeys(gkInstalls)
    /\ tx' = {}
    /\ UNCHANGED <<portValid, pending_eapol_rx, wnmsleep_used,
                   eapol_received, rekey_timeout, nonces, ptkVars,
                   rx_replay_counter, gk, gk_wnm, msg_3_of_4_ok,
                   keyidx_active, request_counter, installs>>

\* wpa_sm_notify_assoc()
NotifyAssoc ==
    /\ rx_replay_counter' = -1
    /\ ptk' = NoKey /\ ptk_installed' = FALSE
    /\ gk' = DropGk(gk) /\ gk_wnm' = DropGk(gk_wnm)
    /\ keyidx_active' = 0

\* wpa_supplicant_event_assoc() without a pending frame it can process: none
\* is pending, it is older than 200 ms, or its MIC cannot be verified because
\* all keys were just dropped.
EventAssoc ==
    /\ wpa_state = "ASSOCIATING"
    /\ wpa_state' = "ASSOCIATED"
    /\ NotifyAssoc
    /\ tptk' = NoKey
    /\ renew_snonce' = TRUE
    /\ portValid' = FALSE
    /\ auth_timeout' = TRUE
    /\ eapol_received' \in
          {FALSE, pending_eapol_rx # NoFrame /\ ~Is1of4(pending_eapol_rx)}
    /\ pending_eapol_rx' = NoFrame
    /\ tx' = {}
    /\ UNCHANGED <<wnmsleep_used, rekey_timeout, snonce, anonce, gkInstalls,
                   igtkIgnored, msg_3_of_4_ok, use_ext_key_id,
                   request_counter, drvVars>>

\* wpa_supplicant_event_assoc() with a pending message 1/4.
EventAssocPending ==
    /\ wpa_state = "ASSOCIATING"
    /\ pending_eapol_rx # NoFrame /\ Is1of4(pending_eapol_rx)
    /\ NotifyAssoc
    /\ Reply2of4(pending_eapol_rx, TRUE)
    /\ portValid' = FALSE
    /\ auth_timeout' = TRUE
    /\ eapol_received' = TRUE
    /\ pending_eapol_rx' = NoFrame
    /\ UNCHANGED <<wnmsleep_used, rekey_timeout, gkInstalls, igtkIgnored,
                   msg_3_of_4_ok, use_ext_key_id, request_counter, drvVars>>

\* The same, but processing the pending message 1/4 fails.
EventAssocFail(fault) ==
    /\ wpa_state = "ASSOCIATING"
    /\ pending_eapol_rx # NoFrame /\ Is1of4(pending_eapol_rx)
    /\ fault \in {"data", "send"}
    /\ IF fault = "send"
       THEN /\ snonce + 1 <= MaxSnonce
            /\ snonce' = snonce + 1
            /\ renew_snonce' = FALSE
       ELSE /\ renew_snonce' = TRUE
            /\ UNCHANGED snonce
    /\ Disconnect(gk, gkInstalls)
    /\ rx_replay_counter' = -1
    /\ eapol_received' = TRUE
    /\ pending_eapol_rx' = NoFrame
    /\ tx' = {}
    /\ UNCHANGED <<anonce, use_ext_key_id, request_counter, installs>>

\* wpa_supplicant_event_disassoc_finish(): the driver reports that the
\* connection is gone.
EventDisassoc ==
    /\ wpa_state # "DISCONNECTED"
    /\ Disconnected

\* wpa_supplicant_timeout()
Timeout ==
    /\ auth_timeout
    /\ Disconnected

-----------------------------------------------------------------------------
RxEapol(f) ==
    \/ RxEarly(f)
    \/ RxDrop(f)
    \/ RxDecryptFail(f)
    \/ Rx1of4(f)
    \/ \E fault \in Faults :
          \/ Rx1of4Fail(f, fault)
          \/ Rx3of4(f, fault)
          \/ Rx3of4Oci(f, fault)
          \/ Rx3of4Fail(f, fault)
          \/ Rx1of2(f, fault)
          \/ Rx1of2Fail(f, fault)

Local ==
    \/ \E error, pair \in BOOLEAN : KeyRequest(error, pair)
    \/ RekeyPtk
    \/ Associate
    \/ EventAssoc
    \/ EventAssocPending
    \/ \E fault \in Faults : EventAssocFail(fault)
    \/ EventDisassoc
    \/ Timeout

Wnm ==
    \/ WnmSleepReq
    \/ \E keys \in {f.keys : f \in Frames}, fault \in Faults :
          RxWnmSleepResp(keys, fault)

Next ==
    /\ \/ \E f \in Frames : RxEapol(f)
       \/ Local
       \/ Wnm
    /\ UNCHANGED conf

Spec == Init /\ [][Next]_vars

\* eloop runs an expired timer; nothing else is promised by the code.
FairSpec == Spec /\ WF_vars(Timeout /\ UNCHANGED conf)

-----------------------------------------------------------------------------
(* Properties.                                                             *)

TypeFlags ==
    /\ wpa_state \in {"DISCONNECTED", "ASSOCIATING", "ASSOCIATED",
                      "4WAY_HANDSHAKE", "GROUP_HANDSHAKE", "COMPLETED"}
    /\ portValid \in BOOLEAN
    /\ auth_timeout \in BOOLEAN
    /\ eapol_received \in BOOLEAN
    /\ pending_eapol_rx \in Frames \cup {NoFrame}
    /\ wnmsleep_used \in BOOLEAN
    /\ renew_snonce \in BOOLEAN
    /\ ptk_installed \in BOOLEAN
    /\ msg_3_of_4_ok \in BOOLEAN
    /\ use_ext_key_id \in BOOLEAN
    /\ rekey_timeout \in BOOLEAN

TypePtk ==
    /\ snonce \in 0..MaxSnonce
    /\ anonce \in ANonces \cup {NoKey}
    /\ tptk \in Ptks \cup {NoKey}
    /\ ptk \in Ptks \cup {NoKey}
    /\ rx_replay_counter \in -1..MaxRc
    /\ keyidx_active \in {0, 1}
    /\ request_counter \in 0..MaxRequest
    /\ drvPtk \in [{0, 1} -> Ptks \cup {NoKey}]
    /\ drvTx \in -1..1
    /\ installs \in [Ptks -> Nat]

TypeGroup ==
    /\ gk \in KeyData
    /\ gk_wnm \in KeyData
    /\ gkInstalls \in [Kinds -> [GKeys -> 0..2]]
    /\ igtkIgnored \subseteq GKeys

\* Every variable stays in its type.
TypeOK ==
    /\ TypeFlags /\ TypePtk /\ TypeGroup
    /\ conf \in Confs /\ tx \subseteq StaFrames

\* No PTK is given to the driver twice (which would reset its packet number
\* and replay counters), whatever frames are repeated, delayed or reordered,
\* across failures and reassociations: "this assures the same PTK is only
\* installed once" in wpa_supplicant_verify_eapol_key_mic().
NoReinstall == \A p \in Ptks : installs[p] <= 1

\* The induction behind NoReinstall.  An SNonce is drawn anew once a key made
\* from it was accepted, so a key that was ever accepted can only be derived
\* again while it is not yet due for renewal.
Used(p) == installs[p] > 0 \/ p = ptk
Spent(p) ==
    \/ p.sn < snonce
    \/ p.sn = snonce /\ renew_snonce /\ tptk = NoKey
SpentInv == \A p \in Ptks : Used(p) => Spent(p)
TptkInv == tptk # NoKey => tptk.sn = snonce
InstalledInv == ptk # NoKey /\ ~ptk_installed => installs[ptk] = 0
ReinstallInv == SpentInv /\ TptkInv /\ InstalledInv /\ NoReinstall

\* During a session a PTK that wpa_sm believes to be installed is in the
\* driver: no clearing of the driver's keys (wpa_clear_keys()) is missed by
\* the installed flag, whose stale value would leave the link without key.
InstalledInDriver ==
    InSession /\ ptk_installed => \E i \in {0, 1} : drvPtk[i] = ptk

\* The same for the group keys wpa_supplicant_install_gtk() and
\* wpa_supplicant_install_igtk() would refuse to program again.  An IGTK may
\* be missing if the driver refused it since its keys were last cleared and
\* the refusal was ignored ("continue without configuring the IGTK"); a GTK
\* may not.
Configured(kind, k) ==
    gkInstalls[kind][k] > 0 \/ (kind = "igtk" /\ k \in igtkIgnored)
GroupInDriver ==
    InSession => \A k \in {"gtk", "igtk"} :
        /\ gk[k] # NoKey => Configured(k, gk[k])
        /\ gk_wnm[k] # NoKey => Configured(k, gk_wnm[k])

\* The PTK rekey timer only runs while there is a PTK, so the request it
\* sends (wpa_sm_rekey_ptk()) carries a MIC and can be accepted.
RekeyTimerHasPtk == rekey_timeout => ptk # NoKey

\* msg_3_of_4_ok speaks of the current association: it is clear before the
\* first message of a 4-way handshake, so that wpa_supplicant_process_1_of_2()
\* rejects a "Group Key Handshake started prior to completion of 4-way
\* handshake".
GroupAfterFourWay == wpa_state = "ASSOCIATED" => ~msg_3_of_4_ok

\* "Keys are not needed in the WPA state machine anymore"
\* (wpa_sm_notify_disassoc()): none is left after a disconnection.
KeysDropped ==
    wpa_state = "DISCONNECTED" => gk = NoKde /\ gk_wnm = NoKde

\* A replay counter that was accepted is never accepted again during an
\* association: the counter moves up until the next association event
\* (or a failing one).
ReplayMonotone ==
    [][\/ rx_replay_counter' >= rx_replay_counter
       \/ wpa_state = "ASSOCIATING" /\ wpa_state' # "ASSOCIATING"]_vars

\* An association never hangs: from the association event on, the handshake
\* completes or the authentication timer ends the attempt.
AssocSettles ==
    wpa_state = "ASSOCIATED" ~>
        wpa_state \in {"COMPLETED", "DISCONNECTED", "ASSOCIATING"}
=============================================================================
