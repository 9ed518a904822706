----------------------------- MODULE WpaAuthSm -----------------------------
(***************************************************************************)
(* The Authenticator's PTK state machine for one station: the 4-way        *)
(* handshake part of struct wpa_state_machine of src/ap/wpa_auth.c, with   *)
(* the events hostapd feeds it and the pairwise key it configures.         *)
(*                                                                         *)
(* Every handler runs wpa_sm_step() to its fixed point, so AUTHENTICATION, *)
(* AUTHENTICATION2, INITPSK, PTKCALCNEGOTIATING2, DISCONNECT and           *)
(* DISCONNECTED are passed within a step; PTKCALCNEGOTIATING is left       *)
(* within a step unless the check of message 2/4 fails.  RSN with a PSK    *)
(* and without Extended Key ID; the group handshake is in WpaGroup.        *)
(*                                                                         *)
(* Next lets the environment deliver any frame of Frames at any time; a    *)
(* frame that no action accepts is dropped and changes nothing.            *)
(***************************************************************************)
EXTENDS EapolKey

CONSTANTS
    Frames,              \* frames the environment may deliver
    MaxAnonce,           \* bound on the number of ANonces drawn
    PairwiseUpdateCount, \* conf.wpa_pairwise_update_count
    DisableRetries,      \* conf.wpa_disable_eapol_key_retries
    DenyPtk0Rekey,       \* conf.wpa_deny_ptk0_rekey
    PtkRekey,            \* conf.wpa_ptk_rekey # 0
    Pmf,                 \* sm->mgmt_frame_prot
    GroupKdes,           \* group keys sent in message 3/4
    Faults               \* checks of message 2/4 and driver calls that fail

\* "data": key data or Operating Channel Validation; "ie": the RSNE or RSNXE
\* differs from the association request; "key": set_key of the driver.
AllFaults == {"none", "data", "ie", "key"}

ASSUME StaFramesAssumption == Frames \subseteq StaFrames
ASSUME NonceAssumption == MaxAnonce \in Nat /\ ANonces = 1..MaxAnonce
ASSUME AuthConfigAssumption ==
    /\ PairwiseUpdateCount \in Nat \ {0}
    /\ {DisableRetries, DenyPtk0Rekey, PtkRekey, Pmf} \subseteq BOOLEAN
    /\ GroupKdes \in KeyData
    /\ "none" \in Faults /\ Faults \subseteq AllFaults

VARIABLES
    wpa_ptk_state,
    ANonce,              \* drawn at random, hence never twice: a counter
    SNonce,              \* nonce of the last frame accepted, 0 if zero
    alt,                 \* the alternative SNonce and replay counter, if
                         \* alt_snonce_valid
    PTK,                 \* NoKey unless PTK_valid
    rc,                  \* key_replay[0].counter
    key_replay,          \* counters of key_replay[] that are valid
    prev_key_replay,
    req_replay_counter,  \* -1: req_replay_counter_used is 0
    TimeoutCtr,
    timers,              \* number of wpa_send_eapol_timeout registrations
    rekey_timer,         \* wpa_rekey_ptk is registered
    portValid,           \* port authorized
    drvPtk,              \* the pairwise key in the driver
    installs,            \* how often each PTK was given to the driver
    tx                   \* frames sent by the last step

nonceVars  == <<ANonce, SNonce, alt>>
replayVars == <<rc, key_replay, prev_key_replay>>
timerVars  == <<TimeoutCtr, timers>>
drvVars    == <<rekey_timer, portValid, drvPtk, installs>>
vars == <<wpa_ptk_state, nonceVars, PTK, replayVars, req_replay_counter,
          timerVars, drvVars, tx>>

Negotiating ==
    wpa_ptk_state \in {"PTKSTART", "PTKCALCNEGOTIATING", "PTKINITNEGOTIATING"}

Init ==
    /\ wpa_ptk_state = "NONE"
    /\ ANonce = 0 /\ SNonce = 0 /\ alt = {}
    /\ PTK = NoKey
    /\ rc = 0 /\ key_replay = {} /\ prev_key_replay = {}
    /\ req_replay_counter = -1
    /\ TimeoutCtr = 0 /\ timers = 0
    /\ rekey_timer = FALSE /\ portValid = FALSE
    /\ drvPtk = NoKey /\ installs = [p \in Ptks |-> 0]
    /\ tx = {}

-----------------------------------------------------------------------------
(* Sending.                                                                *)

\* RSNA_MAX_EAPOL_RETRIES: replay counters of sent frames that are kept.
MaxReplay == 4

\* __wpa_send_eapol(): the counter after last enters the valid ones.  A
\* frame that needs a MIC is not sent without a PTK, but uses the counter.
Send(last, valid, frames) ==
    /\ last < MaxRc
    /\ rc' = last + 1
    /\ key_replay' = {c \in valid \cup {last + 1} : c > last + 1 - MaxReplay}
    /\ tx' = frames

Send1of4(last, valid, an) == Send(last, valid, {Msg1of4(last + 1, an)})

Send3of4(last, valid, p) ==
    Send(last, valid, IF p = NoKey THEN {}
                      ELSE {Msg3of4(last + 1, p, TRUE, -1, GroupKdes)})

\* Mutant: the nonce of the previous handshake is used again.
StartReused(last, valid) ==
    /\ wpa_ptk_state' = "PTKSTART"
    /\ ANonce' = IF ANonce = 0 THEN 1 ELSE ANonce
    /\ alt' = {}
    /\ PTK' = NoKey
    /\ TimeoutCtr' = 1
    /\ Send1of4(last, valid, ANonce')

\* A new ANonce (AUTHENTICATION2 or wpa_auth_sm_ptk_update()) and PTKSTART.
Start(last, valid) ==
    /\ ANonce < MaxAnonce
    /\ wpa_ptk_state' = "PTKSTART"
    /\ ANonce' = ANonce + 1
    /\ alt' = {}
    /\ PTK' = NoKey
    /\ TimeoutCtr' = 1
    /\ Send1of4(last, valid, ANonce + 1)

\* wpa_remove_ptk(), as far as the driver is concerned.
RemovePtk ==
    /\ drvPtk' = NoKey
    /\ rekey_timer' = FALSE

\* DISCONNECT (or DeauthenticationRequest), DISCONNECTED, INITIALIZE.  The
\* retransmission timers keep running.
Initialize ==
    /\ wpa_ptk_state' = "INITIALIZE"
    /\ PTK' = NoKey
    /\ RemovePtk
    /\ portValid' = FALSE
    /\ TimeoutCtr' = 0
    /\ tx' = {}

-----------------------------------------------------------------------------
(* Events of the station table.                                            *)

\* wpa_auth_sta_init() and wpa_auth_sta_associated()
Associate ==
    /\ wpa_ptk_state = "NONE"
    /\ Start(0, {})
    /\ timers' = 1
    /\ portValid' = FALSE
    /\ RemovePtk
    /\ UNCHANGED <<SNonce, prev_key_replay, req_replay_counter, installs>>

\* The same for a station that was disconnected and whose entry is still
\* there (sm->started): the replay counters start again.
AssociateAgain ==
    /\ wpa_ptk_state = "INITIALIZE"
    /\ Start(0, {})
    /\ timers' = timers + 1
    /\ req_replay_counter' = -1          \* INITPSK
    /\ RemovePtk
    /\ UNCHANGED <<SNonce, prev_key_replay, portValid, installs>>

\* An associated station associates again: wpa_auth_sm_event(WPA_ASSOC),
\* then (WPA_REAUTH).
Reassociate ==
    /\ Negotiating \/ wpa_ptk_state = "PTKINITDONE"
    /\ IF DenyPtk0Rekey
       THEN /\ Initialize
            /\ UNCHANGED <<ANonce, alt, rc, key_replay, timers,
                           req_replay_counter>>
       ELSE /\ Start(rc, key_replay)
            /\ timers' = timers + 1
            /\ req_replay_counter' = -1  \* INITPSK
            /\ RemovePtk
            /\ UNCHANGED portValid
    /\ UNCHANGED <<SNonce, prev_key_replay, installs>>

\* An Authentication frame, wpa_auth_sm_event(WPA_AUTH): without management
\* frame protection the PTK is removed and the state machine goes on.
AuthEvent ==
    /\ wpa_ptk_state # "NONE" /\ ~Pmf
    /\ PTK' = NoKey
    /\ RemovePtk
    /\ tx' = {}
    /\ UNCHANGED <<wpa_ptk_state, nonceVars, replayVars, req_replay_counter,
                   timerVars, portValid, installs>>

\* wpa_auth_sm_event(WPA_DEAUTH or WPA_DISASSOC)
Disassoc ==
    /\ wpa_ptk_state # "NONE"
    /\ Initialize
    /\ UNCHANGED <<nonceVars, replayVars, req_replay_counter, timers,
                   installs>>

\* wpa_auth_sta_deinit() and wpa_free_sta_sm()
StaDeinit ==
    /\ wpa_ptk_state # "NONE"
    /\ wpa_ptk_state' = "NONE"
    /\ SNonce' = 0 /\ alt' = {}
    /\ PTK' = NoKey
    /\ rc' = 0 /\ key_replay' = {} /\ prev_key_replay' = {}
    /\ req_replay_counter' = -1
    /\ TimeoutCtr' = 0 /\ timers' = 0
    /\ RemovePtk
    /\ portValid' = FALSE
    /\ tx' = {}
    /\ UNCHANGED <<ANonce, installs>>

\* Mutant: message 1/4 of the new handshake is sent without a timer.
RequestNewPtkNoTimer(tm) ==
    /\ Start(rc, key_replay)
    /\ timers' = tm
    /\ UNCHANGED <<portValid, drvPtk, installs>>

\* wpa_request_new_ptk(), with the number tm of timers that are left.
RequestNewPtk(tm) ==
    IF DenyPtk0Rekey
    THEN /\ Initialize
         /\ timers' = tm
         /\ UNCHANGED <<ANonce, alt, rc, key_replay, installs>>
    ELSE /\ Start(rc, key_replay)
         /\ timers' = tm + 1
         /\ UNCHANGED <<portValid, drvPtk, installs>>

\* wpa_rekey_ptk()
RekeyPtk ==
    /\ rekey_timer
    /\ RequestNewPtk(timers)
    /\ rekey_timer' = FALSE
    /\ UNCHANGED <<SNonce, prev_key_replay, req_replay_counter>>

-----------------------------------------------------------------------------
(* wpa_receive()                                                           *)

\* The replay counters after a frame with counter c was accepted: none is
\* valid; after message 2/4 the ones sent later are remembered.
Accepted2of4(c) == prev_key_replay' = {d \in key_replay : d > c}

\* Message 2/4 for the message 1/4 that is pending.
Is2of4(f) ==
    /\ f.type = "M2" /\ f.rc \in key_replay
    /\ wpa_ptk_state \in {"PTKSTART", "PTKCALCNEGOTIATING"}
    /\ PTK # NoKey => f.mic = PTK

\* A message 2/4 that answers another copy of message 1/4 with a new SNonce,
\* although message 3/4 is out already (update_snonce).
IsAlt2of4(f) ==
    /\ f.type = "M2" /\ f.rc \notin key_replay
    /\ f.rc \in prev_key_replay
    /\ wpa_ptk_state = "PTKINITNEGOTIATING"
    /\ f.nonce # SNonce

\* The MIC was checked before the new PTK is derived (MICVerified).
Prechecked(f) == Is2of4(f) /\ PTK # NoKey

\* wpa_derive_ptk() and wpa_verify_key_mic() of PTKCALCNEGOTIATING.
Derived(f) == [an |-> ANonce, sn |-> f.nonce]

AltAfter(f) == IF IsAlt2of4(f) THEN {[sn |-> SNonce, rc |-> rc]} ELSE alt

\* PTKCALCNEGOTIATING, PTKCALCNEGOTIATING2, PTKINITNEGOTIATING.
Rx2of4(f, fault) ==
    LET good == f.mic = Derived(f) /\ fault # "data"
        p == IF good THEN Derived(f) ELSE PTK
    IN  /\ Is2of4(f) \/ IsAlt2of4(f)
        /\ good \/ Prechecked(f)
        /\ fault # "ie"
        /\ wpa_ptk_state' = "PTKINITNEGOTIATING"
        /\ SNonce' = f.nonce
        /\ alt' = AltAfter(f)
        /\ PTK' = p
        /\ Accepted2of4(f.rc)
        /\ Send3of4(rc, {}, p)
        /\ TimeoutCtr' = 1
        /\ timers' = 1
        /\ UNCHANGED <<ANonce, req_replay_counter, drvVars>>

\* Mutant: the timer is cancelled before the message is checked.
Rx2of4BadCancels(f, fault) ==
    /\ Is2of4(f) \/ IsAlt2of4(f)
    /\ f.mic # Derived(f) \/ fault = "data"
    /\ ~Prechecked(f)
    /\ wpa_ptk_state' = "PTKCALCNEGOTIATING"
    /\ SNonce' = f.nonce
    /\ alt' = AltAfter(f)
    /\ Accepted2of4(f.rc)
    /\ key_replay' = {}
    /\ timers' = 0
    /\ tx' = {}
    /\ UNCHANGED <<ANonce, PTK, rc, req_replay_counter, TimeoutCtr, drvVars>>

\* The MIC does not match the derived PTK, or the key data is not accepted:
\* the state machine stays in PTKCALCNEGOTIATING until the timer expires.
Rx2of4Bad(f, fault) ==
    /\ Is2of4(f) \/ IsAlt2of4(f)
    /\ f.mic # Derived(f) \/ fault = "data"
    /\ ~Prechecked(f)
    /\ wpa_ptk_state' = "PTKCALCNEGOTIATING"
    /\ SNonce' = f.nonce
    /\ alt' = AltAfter(f)
    /\ Accepted2of4(f.rc)
    /\ key_replay' = {}
    /\ tx' = {}
    /\ UNCHANGED <<ANonce, PTK, rc, req_replay_counter, timerVars, drvVars>>

\* The RSNE or RSNXE does not match: the station is disconnected.
Rx2of4Mismatch(f, fault) ==
    /\ Is2of4(f) \/ IsAlt2of4(f)
    /\ f.mic = Derived(f) /\ fault = "ie"
    /\ Initialize
    /\ SNonce' = f.nonce
    /\ alt' = AltAfter(f)
    /\ Accepted2of4(f.rc)
    /\ key_replay' = {}
    /\ timers' = IF Prechecked(f) THEN 0 ELSE timers
    /\ UNCHANGED <<ANonce, rc, req_replay_counter, installs>>

\* Message 4/4, for the PTK or (wpa_try_alt_snonce()) the one made from the
\* alternative SNonce.
Is4of4(f) ==
    /\ f.type = "M4" /\ f.mic # NoKey
    /\ wpa_ptk_state = "PTKINITNEGOTIATING" /\ PTK # NoKey
    /\ f.rc \in key_replay \cup {a.rc : a \in alt}
    /\ f.mic \in {PTK} \cup {[an |-> ANonce, sn |-> a.sn] : a \in alt}

Accepted4of4(f) ==
    /\ SNonce' = f.nonce
    /\ alt' = IF f.mic = PTK THEN alt ELSE {}
    /\ key_replay' = {} /\ prev_key_replay' = {}
    /\ timers' = 0
    /\ tx' = {}
    /\ UNCHANGED <<ANonce, rc, req_replay_counter>>

\* PTKINITDONE
Rx4of4(f) ==
    /\ Is4of4(f)
    /\ Accepted4of4(f)
    /\ wpa_ptk_state' = "PTKINITDONE"
    /\ PTK' = f.mic
    /\ drvPtk' = f.mic
    /\ installs' = [installs EXCEPT ![f.mic] = @ + 1]
    /\ rekey_timer' = PtkRekey
    /\ portValid' = TRUE
    /\ UNCHANGED TimeoutCtr

\* PTKINITDONE, but the driver does not take the key.
Rx4of4Fail(f, fault) ==
    /\ Is4of4(f) /\ fault = "key"
    /\ Accepted4of4(f)
    /\ Initialize
    /\ UNCHANGED installs

\* A request of the station.  Its MIC must be right; the retransmission
\* timers are cancelled.
IsRequest(f) ==
    /\ f.type = "REQ" /\ f.rc > req_replay_counter
    /\ PTK # NoKey /\ f.mic = PTK

RxPtkRequest(f) ==
    /\ IsRequest(f) /\ (f.error \/ f.pair)
    /\ RequestNewPtk(0)
    /\ req_replay_counter' = f.rc
    /\ SNonce' = f.nonce
    /\ rekey_timer' = (rekey_timer /\ ~DenyPtk0Rekey)
    /\ UNCHANGED prev_key_replay

\* A request for a new GTK.  MICVerified is set, which PTKCALCNEGOTIATING
\* takes for the check of message 2/4.
RxGtkRequest(f) ==
    /\ IsRequest(f) /\ ~f.error /\ ~f.pair
    /\ req_replay_counter' = f.rc
    /\ SNonce' = f.nonce
    /\ IF wpa_ptk_state = "PTKCALCNEGOTIATING"
       THEN /\ wpa_ptk_state' = "PTKINITNEGOTIATING"
            /\ Send3of4(rc, key_replay, PTK)
            /\ TimeoutCtr' = 1 /\ timers' = 1
       ELSE /\ timers' = 0
            /\ tx' = {}
            /\ UNCHANGED <<wpa_ptk_state, rc, key_replay, TimeoutCtr>>
    /\ UNCHANGED <<ANonce, alt, PTK, prev_key_replay, drvVars>>

-----------------------------------------------------------------------------
(* wpa_send_eapol_timeout()                                                *)

\* Mutant: one try more.
LastTryOffByOne == TimeoutCtr > PairwiseUpdateCount

\* Entering PTKSTART or PTKINITNEGOTIATING once more exceeds the limit.
LastTry == TimeoutCtr >= PairwiseUpdateCount

TimeoutResend ==
    /\ timers > 0 /\ ~LastTry
    /\ \/ /\ wpa_ptk_state \in {"PTKSTART", "PTKCALCNEGOTIATING"}
          /\ wpa_ptk_state' = "PTKSTART"
          /\ alt' = {}
          /\ Send1of4(rc, key_replay, ANonce)
       \/ /\ wpa_ptk_state = "PTKINITNEGOTIATING" /\ ~DisableRetries
          /\ Send3of4(rc, key_replay, PTK)
          /\ UNCHANGED <<wpa_ptk_state, alt>>
    /\ TimeoutCtr' = TimeoutCtr + 1
    /\ UNCHANGED <<ANonce, SNonce, PTK, prev_key_replay, req_replay_counter,
                   timers, drvVars>>

TimeoutLast ==
    /\ timers > 0
    /\ \/ wpa_ptk_state \in {"PTKSTART", "PTKCALCNEGOTIATING"} /\ LastTry
       \/ wpa_ptk_state = "PTKINITNEGOTIATING" /\ (LastTry \/ DisableRetries)
    /\ Initialize
    /\ timers' = timers - 1
    /\ alt' = IF wpa_ptk_state = "PTKINITNEGOTIATING" THEN alt ELSE {}
    /\ UNCHANGED <<ANonce, SNonce, replayVars, req_replay_counter, installs>>

\* TimeoutEvt is set and nothing waits for it.
TimeoutIdle ==
    /\ timers > 0
    /\ wpa_ptk_state \in {"INITIALIZE", "PTKINITDONE"}
    /\ timers' = timers - 1
    /\ tx' = {}
    /\ UNCHANGED <<wpa_ptk_state, nonceVars, PTK, replayVars,
                   req_replay_counter, TimeoutCtr, drvVars>>

Timeout == TimeoutResend \/ TimeoutLast \/ TimeoutIdle

-----------------------------------------------------------------------------
Receive(f) ==
    \/ \E fault \in Faults :
          \/ Rx2of4(f, fault)
          \/ Rx2of4Bad(f, fault)
          \/ Rx2of4Mismatch(f, fault)
          \/ Rx4of4Fail(f, fault)
    \/ Rx4of4(f)
    \/ RxPtkRequest(f)
    \/ RxGtkRequest(f)

Local ==
    \/ AuthEvent
    \/ Disassoc
    \/ StaDeinit
    \/ RekeyPtk
    \/ Timeout

Join == Associate \/ AssociateAgain \/ Reassociate

Next == (\E f \in Frames : Receive(f)) \/ Local \/ Join

Spec == Init /\ [][Next]_vars

\* eloop runs expired timers.
FairSpec == Spec /\ WF_vars(Timeout)

-----------------------------------------------------------------------------
(* Properties.                                                             *)

TypeFlags == rekey_timer \in BOOLEAN /\ portValid \in BOOLEAN

TypeData ==
    /\ wpa_ptk_state \in {"NONE", "INITIALIZE", "PTKSTART",
          "PTKCALCNEGOTIATING", "PTKINITNEGOTIATING", "PTKINITDONE"}
    /\ ANonce \in 0..MaxAnonce
    /\ SNonce \in 0..MaxSnonce
    /\ alt \subseteq [sn : 0..MaxSnonce, rc : 0..MaxRc]
    /\ PTK \in Ptks \cup {NoKey}
    /\ rc \in 0..MaxRc
    /\ key_replay \subseteq 1..MaxRc
    /\ prev_key_replay \subseteq 1..MaxRc
    /\ req_replay_counter \in Int
    /\ TimeoutCtr \in 0..PairwiseUpdateCount
    /\ timers \in Nat
    /\ drvPtk \in Ptks \cup {NoKey}
    /\ installs \in [Ptks -> Nat]
    /\ tx \subseteq ApFrames

\* Every variable stays in its type.
TypeOK == TypeFlags /\ TypeData

\* PTKINITDONE never gives a PTK to the driver a second time, whatever is
\* repeated or late: message 2/4 with another SNonce, message 4/4 for an
\* earlier message 3/4, requests, reassociations.
NoReinstall == \A p \in Ptks : installs[p] <= 1

\* The induction behind NoReinstall: every PTK is made from the latest
\* ANonce, and one that is installed belongs to a finished handshake.
Spent(p) == p.an < ANonce \/ (p.an = ANonce /\ ~Negotiating)
NonceInv ==
    /\ PTK # NoKey => PTK.an = ANonce
    /\ \A p \in Ptks : installs[p] > 0 => Spent(p)
    /\ NoReinstall

\* The station has made no request since it associated
\* (req_replay_counter_used).
NoRequest == req_replay_counter = -1

\* While the Authenticator waits for message 2/4 or 4/4 a retransmission
\* timer runs, also after a message 2/4 that failed its checks
\* (PTKCALCNEGOTIATING), so that it retries or gives up.  A request for a
\* new GTK breaks this: wpa_receive() cancels the timer of the handshake.
NegotiatingHasTimer == Negotiating /\ NoRequest => timers > 0

\* A 4-way handshake ends, in PTKINITDONE or with the station disconnected,
\* unless a request cancelled its timer.  Stations that change their SNonce
\* prolong it; MaxRc bounds the messages they can make it send.
HandshakeEnds ==
    Negotiating ~> \/ wpa_ptk_state \in {"PTKINITDONE", "INITIALIZE", "NONE"}
                   \/ ~NoRequest \/ rc = MaxRc
=============================================================================
