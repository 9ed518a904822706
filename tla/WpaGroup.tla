------------------------------ MODULE WpaGroup ------------------------------
(***************************************************************************)
(* Rekeying of the group keys by the Authenticator: the group state        *)
(* machine struct wpa_group of src/ap/wpa_auth.c, shared by all stations,  *)
(* and the PTK group state machine of each station.  The PTK state machine *)
(* is reduced to the stages the group code tells apart; module WpaAuthSm   *)
(* has it in full.                                                         *)
(*                                                                         *)
(* Every handler runs wpa_sm_step() to its fixed point, so the states      *)
(* KEYERROR, REKEYESTABLISHED, DISCONNECT and DISCONNECTED are passed      *)
(* within a step and do not appear.  RSN with a PSK; one group (no VLANs). *)
(***************************************************************************)
EXTENDS Integers, FiniteSets

CONSTANTS
    Stations,
    MaxGtk,        \* bound on the number of GTKs generated
    UpdateCount,   \* wpa_group_update_count: tries of message 1/2
    Envs           \* the environments considered: sets of optional events

\* An environment is a set of optional events, chosen once and for all.
\* "overlap": the rekey timer may expire while a rekeying is in progress
\* (wpa_strict_rekey, or a short wpa_group_rekey).  "ptkrekey": PTKs are
\* renewed.  "request": stations ask for a new GTK.  "reassoc": a station
\* that was disconnected comes back before its entry is removed.  "remove":
\* ap_sta_disassociate() frees the state machine of an associated station.
\* "ocv": message 2/2 fails Operating Channel Validation.  "wnm": WNM-Sleep
\* Mode with key updates after waking up.
AllEnv == {"overlap", "ptkrekey", "request", "reassoc", "remove", "ocv", "wnm"}

ASSUME GroupAssumption ==
    /\ IsFiniteSet(Stations)
    /\ MaxGtk \in Nat \ {0} /\ UpdateCount \in Nat \ {0}
    /\ Envs \subseteq SUBSET AllEnv

VARIABLES
    env,               \* the optional events that happen, see AllEnv
    \* struct wpa_group
    wpa_group_state,   \* "SETKEYS" or "SETKEYSDONE"
    GKeyDoneStations,
    GTK,               \* the key GTK[GN], numbered in order of generation
    drvGtk,            \* the group key the driver transmits with
    \* struct wpa_state_machine
    wpa_ptk_state, wpa_ptk_group_state,
    PTK_valid,         \* set of the stations whose PTK_valid is set
    GUpdate,           \* set of the stations with GUpdateStationKeys
    GTimeoutCtr,
    timer,             \* stations with wpa_send_eapol_timeout registered
    is_wnmsleep,       \* set of the stations in WNM-Sleep Mode
    pend,              \* GTKs in messages (3/4 or 1/2) whose answer would be
                       \* accepted: replay counter valid, current PTK
    ack,               \* GTKs in such messages the station has answered
    staGtk             \* newest GTK the station has installed, 0 if none

groupVars == <<wpa_group_state, GKeyDoneStations, GTK, drvGtk>>
ptkVars   == <<wpa_ptk_state, PTK_valid>>
gVars     == <<wpa_ptk_group_state, GUpdate, GTimeoutCtr>>
netVars   == <<timer, pend, ack, staGtk>>
vars == <<groupVars, ptkVars, gVars, netVars, is_wnmsleep, env>>

In(states) == {s \in Stations : wpa_ptk_state[s] \in states}

\* Mutant: stations are updated before their 4-way handshake is complete.
DoneEarly == In({"PTKINITNEGOTIATING", "PTKINITDONE"})

Done == In({"PTKINITDONE"})

\* After wpa_init_keys(): the first GTK is in the driver.
Init ==
    /\ env \in Envs
    /\ wpa_group_state = "SETKEYSDONE"
    /\ GKeyDoneStations = 0
    /\ GTK = 1 /\ drvGtk = 1
    /\ wpa_ptk_state = [s \in Stations |-> "NONE"]
    /\ wpa_ptk_group_state = [s \in Stations |-> "IDLE"]
    /\ PTK_valid = {} /\ GUpdate = {} /\ timer = {} /\ is_wnmsleep = {}
    /\ GTimeoutCtr = [s \in Stations |-> 0]
    /\ pend = [s \in Stations |-> {}]
    /\ ack = [s \in Stations |-> {}]
    /\ staGtk = [s \in Stations |-> 0]

-----------------------------------------------------------------------------
(* The group state machine.                                                *)

\* Mutant: the last station is not waited for.
GroupStepEarly(count) ==
    /\ GKeyDoneStations' = count
    /\ IF wpa_group_state = "SETKEYS" /\ count <= 1
       THEN wpa_group_state' = "SETKEYSDONE" /\ drvGtk' = GTK
       ELSE UNCHANGED <<wpa_group_state, drvGtk>>
    /\ UNCHANGED GTK

\* wpa_group_sm_step() as every wpa_sm_step() runs it: the new GTK is given
\* to the driver when no station is waited for any more.
GroupStep(count) ==
    /\ GKeyDoneStations' = count
    /\ IF wpa_group_state = "SETKEYS" /\ count = 0
       THEN wpa_group_state' = "SETKEYSDONE" /\ drvGtk' = GTK
       ELSE UNCHANGED <<wpa_group_state, drvGtk>>
    /\ UNCHANGED GTK

\* Mutant: the decrement is not guarded.
CountWithoutGuard(s) == GKeyDoneStations - 1

\* The guarded decrement that every path ending an update makes.
CountWithout(s) ==
    IF s \in GUpdate THEN GKeyDoneStations - 1 ELSE GKeyDoneStations

\* Mutant: the count is not decremented.
EndUpdateUncounted(s) ==
    /\ GUpdate' = GUpdate \ {s}
    /\ GroupStep(GKeyDoneStations)

\* A stop of the update of station s, followed by the group step.
EndUpdate(s) ==
    /\ GUpdate' = GUpdate \ {s}
    /\ GroupStep(CountWithout(s))

\* Mutant: the replay counters of sent messages stay valid.
NoPendKept(s) == UNCHANGED <<pend, ack>>

\* An accepted message, a new PTK or its removal: no answer to a message sent
\* before is accepted any more (wpa_replay_counter_mark_invalid()).
NoPend(s) ==
    /\ pend' = [pend EXCEPT ![s] = {}]
    /\ ack' = [ack EXCEPT ![s] = {}]

\* wpa_group_update_sta() over stations S that are not in WNM-Sleep Mode:
\* an idle station enters REKEYNEGOTIATING and is sent message 1/2 (which
\* fails silently without a PTK); one that negotiates already is only marked.
Negotiate(S, gtk, timers) ==
    LET new == {s \in S : wpa_ptk_group_state[s] = "IDLE"} IN
    /\ wpa_ptk_group_state' = [s \in Stations |->
          IF s \in S THEN "REKEYNEGOTIATING" ELSE wpa_ptk_group_state[s]]
    /\ GTimeoutCtr' = [s \in Stations |->
          IF s \in new THEN 1 ELSE GTimeoutCtr[s]]
    /\ timer' = timers \cup new
    /\ pend' = [s \in Stations |->
          IF s \in new \cap PTK_valid THEN pend[s] \cup {gtk} ELSE pend[s]]

\* wpa_group_setkeys(), then wpa_group_setkeysdone() when it found nobody to
\* wait for.
SetKeys(timers) ==
    LET marked == Done \ is_wnmsleep IN
    /\ GTK < MaxGtk
    /\ GTK' = GTK + 1
    /\ GKeyDoneStations' = Cardinality(marked)
    /\ GUpdate' = marked \cup (GUpdate \cap Done)
    /\ Negotiate(marked, GTK + 1, timers)
    /\ IF marked = {}
       THEN wpa_group_state' = "SETKEYSDONE" /\ drvGtk' = GTK + 1
       ELSE /\ wpa_group_state' = "SETKEYS"
            \* a rekeying nobody is waited for is completed first
            /\ drvGtk' = IF wpa_group_state = "SETKEYS"
                            /\ GKeyDoneStations = 0
                         THEN GTK ELSE drvGtk

\* wpa_rekey_gtk(), on its timer.
RekeyGtk ==
    /\ \/ "overlap" \in env
       \/ wpa_group_state = "SETKEYSDONE" \/ GKeyDoneStations = 0
    /\ SetKeys(timer)
    /\ UNCHANGED <<ptkVars, ack, staGtk, is_wnmsleep, env>>

\* wpa_receive() of a group key request: the station's retransmission timer
\* is cancelled, and the GTK is rekeyed unless that is in progress.
RxGroupRequest(s) ==
    /\ "request" \in env
    /\ s \in PTK_valid
    /\ IF GKeyDoneStations # 0
       THEN /\ timer' = timer \ {s}
            /\ UNCHANGED <<groupVars, gVars, pend>>
       ELSE SetKeys(timer \ {s})
    /\ UNCHANGED <<ptkVars, ack, staGtk, is_wnmsleep, env>>

-----------------------------------------------------------------------------
(* Association and the 4-way handshake, as far as they concern the group.  *)

\* wpa_auth_sta_init() and wpa_auth_sta_associated() for a new station.
Associate(s) ==
    /\ wpa_ptk_state[s] = "NONE"
    /\ wpa_ptk_state' = [wpa_ptk_state EXCEPT ![s] = "PTKSTART"]
    /\ timer' = timer \cup {s}
    /\ GroupStep(GKeyDoneStations)
    /\ UNCHANGED <<PTK_valid, gVars, pend, ack, staGtk, is_wnmsleep, env>>

\* wpa_auth_sta_associated() for a state machine that was started before:
\* the PTK group state machine is not reset.
ReAssociate(s) ==
    /\ "reassoc" \in env
    /\ wpa_ptk_state[s] = "INITIALIZE"
    /\ wpa_ptk_state' = [wpa_ptk_state EXCEPT ![s] = "PTKSTART"]
    /\ timer' = timer \cup {s}
    /\ NoPend(s)
    /\ GroupStep(GKeyDoneStations)
    /\ UNCHANGED <<PTK_valid, gVars, staGtk, is_wnmsleep, env>>

\* An Authentication frame: wpa_auth_sm_event(WPA_AUTH) removes the PTK.
AuthEvent(s) ==
    /\ wpa_ptk_state[s] # "NONE"
    /\ PTK_valid' = PTK_valid \ {s}
    /\ NoPend(s)
    /\ GroupStep(GKeyDoneStations)
    /\ UNCHANGED <<wpa_ptk_state, gVars, timer, staGtk, is_wnmsleep, env>>

\* wpa_auth_sm_event(WPA_REAUTH): "Reauthentication cancels the pending
\* group key update for this STA."
ReauthEvent(s) ==
    /\ wpa_ptk_state[s] \in {"PTKSTART", "PTKINITNEGOTIATING", "PTKINITDONE"}
    /\ wpa_ptk_state' = [wpa_ptk_state EXCEPT ![s] = "PTKSTART"]
    /\ PTK_valid' = PTK_valid \ {s}
    /\ NoPend(s)
    /\ timer' = timer \cup {s}
    /\ IF s \in GUpdate
       THEN /\ wpa_ptk_group_state' =
                  [wpa_ptk_group_state EXCEPT ![s] = "IDLE"]
            /\ GTimeoutCtr' = [GTimeoutCtr EXCEPT ![s] = 0]
       ELSE UNCHANGED <<wpa_ptk_group_state, GTimeoutCtr>>
    /\ EndUpdate(s)
    /\ UNCHANGED <<staGtk, is_wnmsleep, env>>

\* wpa_request_new_ptk(): the PTK rekey timer, or a request of the station.
RequestNewPtk(s) ==
    /\ "ptkrekey" \in env
    /\ wpa_ptk_state[s] \in {"PTKINITNEGOTIATING", "PTKINITDONE"}
    /\ wpa_ptk_state' = [wpa_ptk_state EXCEPT ![s] = "PTKSTART"]
    /\ PTK_valid' = PTK_valid \ {s}
    /\ NoPend(s)
    /\ timer' = timer \cup {s}
    /\ GroupStep(GKeyDoneStations)
    /\ UNCHANGED <<gVars, staGtk, is_wnmsleep, env>>

\* Message 2/4: the PTK is derived and message 3/4 sent with the GTK.
Rx2of4(s) ==
    /\ wpa_ptk_state[s] = "PTKSTART"
    /\ wpa_ptk_state' = [wpa_ptk_state EXCEPT ![s] = "PTKINITNEGOTIATING"]
    /\ PTK_valid' = PTK_valid \cup {s}
    /\ timer' = timer \cup {s}
    /\ pend' = [pend EXCEPT ![s] = {GTK}]
    /\ ack' = [ack EXCEPT ![s] = {}]
    /\ GroupStep(GKeyDoneStations)
    /\ UNCHANGED <<gVars, staGtk, is_wnmsleep, env>>

\* Message 4/4: PTKINITDONE.  All timers are cancelled; a PTK group state
\* machine that is negotiating goes on without one.
Rx4of4(s) ==
    /\ wpa_ptk_state[s] = "PTKINITNEGOTIATING"
    /\ s \in PTK_valid
    /\ ack[s] # {}
    /\ wpa_ptk_state' = [wpa_ptk_state EXCEPT ![s] = "PTKINITDONE"]
    /\ timer' = timer \ {s}
    /\ NoPend(s)
    /\ GroupStep(GKeyDoneStations)
    /\ UNCHANGED <<PTK_valid, gVars, staGtk, is_wnmsleep, env>>

\* DISCONNECTED, then INITIALIZE: the pending update is cancelled, the PTK
\* group state machine and the timers are left as they are.
Initialize(s) ==
    /\ wpa_ptk_state' = [wpa_ptk_state EXCEPT ![s] = "INITIALIZE"]
    /\ PTK_valid' = PTK_valid \ {s}
    /\ NoPend(s)
    /\ EndUpdate(s)

\* wpa_auth_sm_event(WPA_DEAUTH or WPA_DISASSOC)
Disassoc(s) ==
    /\ wpa_ptk_state[s] # "NONE"
    /\ Initialize(s)
    /\ UNCHANGED <<wpa_ptk_group_state, GTimeoutCtr, timer, staGtk,
                   is_wnmsleep, env>>

\* wpa_auth_sta_deinit() and wpa_free_sta_sm(): the group state machine is
\* not run.
StaDeinit(s) ==
    /\ \/ wpa_ptk_state[s] = "INITIALIZE"
       \/ "remove" \in env /\ wpa_ptk_state[s] # "NONE"
    /\ wpa_ptk_state' = [wpa_ptk_state EXCEPT ![s] = "NONE"]
    /\ wpa_ptk_group_state' = [wpa_ptk_group_state EXCEPT ![s] = "IDLE"]
    /\ PTK_valid' = PTK_valid \ {s}
    /\ GUpdate' = GUpdate \ {s}
    /\ GKeyDoneStations' = CountWithout(s)
    /\ GTimeoutCtr' = [GTimeoutCtr EXCEPT ![s] = 0]
    /\ timer' = timer \ {s}
    /\ is_wnmsleep' = is_wnmsleep \ {s}
    /\ NoPend(s)
    /\ staGtk' = [staGtk EXCEPT ![s] = 0]
    /\ UNCHANGED <<wpa_group_state, GTK, drvGtk, env>>

-----------------------------------------------------------------------------
(* The group key handshake of one station.                                 *)

\* The station installs the GTK of message 3/4 or 1/2 and answers; an older
\* message fails its replay check.
StaAnswer(s, gtk) ==
    /\ gtk \in pend[s] /\ gtk >= staGtk[s]
    /\ staGtk' = [staGtk EXCEPT ![s] = gtk]
    /\ ack' = [ack EXCEPT ![s] = @ \cup {gtk}]
    /\ UNCHANGED <<groupVars, ptkVars, gVars, timer, pend, is_wnmsleep, env>>

\* Message 2/2: REKEYESTABLISHED, then IDLE.
Rx2of2(s) ==
    /\ s \in PTK_valid
    /\ wpa_ptk_state[s] = "PTKINITDONE"
    /\ wpa_ptk_group_state[s] = "REKEYNEGOTIATING"
    /\ ack[s] # {}
    /\ wpa_ptk_group_state' = [wpa_ptk_group_state EXCEPT ![s] = "IDLE"]
    /\ GTimeoutCtr' = [GTimeoutCtr EXCEPT ![s] = 0]
    /\ timer' = timer \ {s}
    /\ NoPend(s)
    /\ EndUpdate(s)
    /\ UNCHANGED <<ptkVars, staGtk, is_wnmsleep, env>>

\* REKEYESTABLISHED returns early and leaves GUpdateStationKeys set, which
\* starts the handshake again.
Rx2of2Oci(s) ==
    /\ "ocv" \in env
    /\ s \in PTK_valid \cap GUpdate
    /\ wpa_ptk_state[s] = "PTKINITDONE"
    /\ wpa_ptk_group_state[s] = "REKEYNEGOTIATING"
    /\ ack[s] # {}
    /\ GTimeoutCtr' = [GTimeoutCtr EXCEPT ![s] = 1]
    /\ timer' = timer \cup {s}
    /\ pend' = [pend EXCEPT ![s] = {GTK}]
    /\ ack' = [ack EXCEPT ![s] = {}]
    /\ UNCHANGED <<groupVars, ptkVars, wpa_ptk_group_state, GUpdate, staGtk,
                   is_wnmsleep, env>>

\* wpa_send_eapol_timeout() during a 4-way handshake: message 1/4 or 3/4 is
\* sent again, or the retry limit is reached.
Timeout4Way(s) ==
    /\ s \in timer
    /\ wpa_ptk_state[s] \in {"PTKSTART", "PTKINITNEGOTIATING"}
    /\ \/ /\ pend' = IF s \in PTK_valid
                     THEN [pend EXCEPT ![s] = @ \cup {GTK}] ELSE pend
          /\ GroupStep(GKeyDoneStations)
          /\ UNCHANGED <<ptkVars, GUpdate, ack, timer>>
       \/ /\ Initialize(s)
          /\ timer' \in {timer, timer \ {s}}
    /\ UNCHANGED <<wpa_ptk_group_state, GTimeoutCtr, staGtk, is_wnmsleep, env>>

\* Mutant: one try more.
MoreTriesOffByOne(s) == GTimeoutCtr[s] <= UpdateCount

\* The limit REKEYNEGOTIATING puts on message 1/2.
MoreTries(s) == GTimeoutCtr[s] < UpdateCount

\* wpa_send_eapol_timeout() otherwise.  An idle PTK group state machine
\* ignores it.
TimeoutIdle(s) ==
    /\ s \in timer
    /\ wpa_ptk_state[s] \in {"INITIALIZE", "PTKINITDONE"}
    /\ wpa_ptk_group_state[s] = "IDLE"
    /\ timer' = timer \ {s}
    /\ GroupStep(GKeyDoneStations)
    /\ UNCHANGED <<ptkVars, gVars, pend, ack, staGtk, is_wnmsleep, env>>

\* Message 1/2 is sent again, with the GTK that is current now.
TimeoutResend(s) ==
    /\ s \in timer
    /\ wpa_ptk_state[s] \in {"INITIALIZE", "PTKINITDONE"}
    /\ wpa_ptk_group_state[s] = "REKEYNEGOTIATING"
    /\ MoreTries(s)
    /\ GTimeoutCtr' = [GTimeoutCtr EXCEPT ![s] = @ + 1]
    /\ pend' = IF s \in PTK_valid
               THEN [pend EXCEPT ![s] = @ \cup {GTK}] ELSE pend
    /\ GroupStep(GKeyDoneStations)
    /\ UNCHANGED <<ptkVars, wpa_ptk_group_state, GUpdate, timer, ack, staGtk,
                   is_wnmsleep, env>>

\* The retry limit is reached: KEYERROR, which disconnects the station.
KeyError(s) ==
    /\ s \in timer
    /\ wpa_ptk_state[s] \in {"INITIALIZE", "PTKINITDONE"}
    /\ wpa_ptk_group_state[s] = "REKEYNEGOTIATING"
    /\ ~MoreTries(s)
    /\ wpa_ptk_group_state' = [wpa_ptk_group_state EXCEPT ![s] = "IDLE"]
    /\ GTimeoutCtr' = [GTimeoutCtr EXCEPT ![s] = 0]
    /\ timer' = timer \ {s}
    /\ Initialize(s)
    /\ UNCHANGED <<staGtk, is_wnmsleep, env>>

TimeoutGroup(s) == TimeoutIdle(s) \/ TimeoutResend(s) \/ KeyError(s)

-----------------------------------------------------------------------------
(* WNM-Sleep Mode: ieee802_11_send_wnmsleep_resp().                        *)

WnmSleepEnter(s) ==
    /\ "wnm" \in env
    /\ s \in Done
    /\ is_wnmsleep' = is_wnmsleep \cup {s}
    /\ UNCHANGED <<groupVars, ptkVars, gVars, netVars, env>>

\* Bound on GKeyDoneStations, which repeated exits drive up.
MaxCount == Cardinality(Stations) + 1

\* wpa_wnmsleep_rekey_gtk()
WnmSleepExit(s) ==
    /\ "wnm" \in env
    /\ GKeyDoneStations < MaxCount
    /\ wpa_ptk_state[s] \notin {"NONE", "INITIALIZE"}
    /\ is_wnmsleep' = is_wnmsleep \ {s}
    /\ IF s \in Done
       THEN /\ Negotiate({s}, GTK, timer)
            /\ GUpdate' = GUpdate \cup {s}
            /\ GroupStep(GKeyDoneStations + 1)
       ELSE /\ GUpdate' = GUpdate \ {s}
            /\ UNCHANGED <<groupVars, wpa_ptk_group_state, GTimeoutCtr,
                           timer, pend>>
    /\ UNCHANGED <<ptkVars, ack, staGtk, env>>

-----------------------------------------------------------------------------
StaNext(s) ==
    \/ RxGroupRequest(s)
    \/ Associate(s)
    \/ ReAssociate(s)
    \/ AuthEvent(s)
    \/ ReauthEvent(s)
    \/ RequestNewPtk(s)
    \/ Rx2of4(s)
    \/ Rx4of4(s)
    \/ Disassoc(s)
    \/ StaDeinit(s)
    \/ \E gtk \in 1..MaxGtk : StaAnswer(s, gtk)
    \/ Rx2of2(s)
    \/ Rx2of2Oci(s)
    \/ Timeout4Way(s)
    \/ TimeoutGroup(s)
    \/ WnmSleepEnter(s)
    \/ WnmSleepExit(s)

Next == RekeyGtk \/ \E s \in Stations : StaNext(s)

Spec == Init /\ [][Next]_vars

\* eloop runs expired timers.
FairSpec == Spec /\ \A s \in Stations : WF_vars(TimeoutGroup(s))

-----------------------------------------------------------------------------
(* Properties.                                                             *)

PtkStates == {"NONE", "INITIALIZE", "PTKSTART", "PTKINITNEGOTIATING",
              "PTKINITDONE"}

\* Every variable stays in its type.
TypeOK ==
    /\ env \in Envs
    /\ wpa_group_state \in {"SETKEYS", "SETKEYSDONE"}
    /\ GKeyDoneStations \in Int
    /\ GTK \in 1..MaxGtk /\ drvGtk \in 1..MaxGtk
    /\ wpa_ptk_state \in [Stations -> PtkStates]
    /\ wpa_ptk_group_state \in [Stations -> {"IDLE", "REKEYNEGOTIATING"}]
    /\ PTK_valid \subseteq Stations
    /\ GUpdate \subseteq Stations
    /\ timer \subseteq Stations
    /\ is_wnmsleep \subseteq Stations
    /\ GTimeoutCtr \in [Stations -> 0..UpdateCount]
    /\ pend \in [Stations -> SUBSET (1..MaxGtk)]
    /\ ack \in [Stations -> SUBSET (1..MaxGtk)]
    /\ staGtk \in [Stations -> 0..MaxGtk]

\* GKeyDoneStations is maintained by "counting the STAs that are marked with
\* GUpdateStationKeys" (wpa_group_setkeys()) whatever ends an update: an
\* answer, a timeout, a disconnection, a reauthentication or the removal of
\* the station.  A count that drifts ends a rekeying early or never.
CountExact == GKeyDoneStations = Cardinality(GUpdate)

\* The count is exact without WNM-Sleep Mode, whose repeated exits count a
\* station twice (wpa_wnmsleep_rekey_gtk()).
CountMatches == "wnm" \notin env => CountExact

\* While stations are waited for, the driver keeps transmitting with the
\* previous GTK; the new one is used once nobody is waited for.
SwitchWhenDone ==
    "wnm" \notin env =>
        /\ wpa_group_state = "SETKEYSDONE" => drvGtk = GTK
        /\ GKeyDoneStations # 0 => wpa_group_state = "SETKEYS" /\ drvGtk < GTK

\* Every station that is waited for has a retransmission timer running, so
\* that it answers or is disconnected (KEYERROR).  PTK rekeying, requests for
\* a new GTK and reassociation cancel the timer without ending the update.
WaitHasTimer ==
    env \cap {"ptkrekey", "request", "reassoc"} = {} =>
        \A s \in GUpdate :
            s \in timer /\ wpa_ptk_group_state[s] = "REKEYNEGOTIATING"

\* An update that ends with the station still connected has delivered the
\* current GTK: no late answer to an earlier message completes it
\* (REKEYESTABLISHED).  With overlapping rekeyings, or an update after
\* WNM-Sleep Mode during a rekeying, two answers would be accepted.
UpdateDelivers ==
    [][env \cap {"wnm", "overlap"} = {} =>
          \A s \in GUpdate \ GUpdate' :
              wpa_ptk_state'[s] = "PTKINITDONE" => staGtk'[s] = GTK']_vars

\* What makes UpdateDelivers inductive when rekeyings do not overlap: only
\* the current GTK can be outstanding for a station that is waited for, and
\* nothing is outstanding for one that is not.
Delivery(s) ==
    /\ ack[s] \subseteq pend[s]
    /\ pend[s] \subseteq 1..GTK
    /\ staGtk[s] <= GTK
    /\ \A g \in ack[s] : g <= staGtk[s]
    /\ s \in Done \cap GUpdate => pend[s] \subseteq {GTK}
    /\ s \in Done \ GUpdate => pend[s] = {} /\ s \notin timer
DeliverInv == \A s \in Stations : Delivery(s)

\* A rekeying ends: the group state machine leaves SETKEYS.  An update that
\* lost its timer (see WaitHasTimer) would keep it there.
RekeyCompletes ==
    wpa_group_state = "SETKEYS" /\ env \subseteq {"overlap"}
        ~> wpa_group_state = "SETKEYSDONE"
=============================================================================
