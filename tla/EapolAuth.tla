------------------------------ MODULE EapolAuth ------------------------------
(* The Authenticator side of IEEE 802.1X for one station: the AUTH_PAE,        *)
(* BE_AUTH and REAUTH_TIMER machines of eapol_auth_sm.c, the EAP server machine*)
(* of eap_server.c with its internal user database, and the frame handlers of  *)
(* ieee802_1x.c.                                                               *)
(*                                                                             *)
(* A frame or a notification only changes variables and schedules              *)
(* eapol_sm_step_run from the event loop (aPend), so more of them may come     *)
(* before it runs; the tick calls it directly.  apc is the position in it.     *)
(* The EAP server's own loop stops in DISABLED, IDLE, SUCCESS, FAILURE and     *)
(* TIMEOUT_FAILURE; a pass through its other states is one action.             *)
EXTENDS EapFrames

CONSTANTS MaxSteps,      \* rounds of eapol_sm_step_run before it gives way (100)
          ReAuthMax,     \* reAuthMax: attempts before the station is given up (2)
          MaxRetrans,    \* retransmissions of one EAP-Request (5)
          RandIds,       \* the values rand() gives the first Identifier
          Verdicts       \* what the server's method may make of a response

ASSUME EapolAuthAssumption ==
  /\ ReAuthMax \in Nat /\ MaxRetrans \in Nat
  /\ RandIds \subseteq Ids
  /\ Verdicts \subseteq {"ok", "fail"}

VARIABLES wpa,           \* conf.wpa: a key handshake must make the port valid
          rsn,           \* the RSN authenticator: its state, and the PMK it took
          apc, ach, aRound,   \* position in eapol_sm_step_run, and its loop
          aPend,
          aPae, aBe, aReauth, aEap,
          af, aTmr, reAuthCount,
          aPort,         \* authPortStatus = Authorized
          srv,           \* the EAP server's session data
          respData,      \* eapRespData, the last EAP-Response received
          discDue,       \* ap_sta_delayed_1x_auth_fail_disconnect is scheduled
          respNew,       \* history: a Response came in after the last Request sent
          toSupp         \* frames on their way to the Supplicant

auth == <<wpa, rsn, apc, ach, aRound, aPend, aPae, aBe, aReauth, aEap, af, aTmr, reAuthCount,
          aPort, srv, respData, discDue, respNew>>

AFlags == {"portEnabled", "portValid", "eapolStart", "eapolLogoff", "eapolEap",
           "authStart", "authAbort", "authSuccess", "authFail", "authTimeout",
           "keyRun", "reAuthenticate", "eapRestart", "eapReq", "eapNoReq",
           "eapResp", "eapSuccess", "eapFail", "eapTimeout"}

\* aWhile only ends RESPONSE when the EAP server has nothing to answer: it was
\* disabled, or gave the request up, in the run in which the response came.
ATimers == {"quietWhile", "reAuthWhen", "aWhile", "retransWhile"}

NoServerSession == [method |-> "none", curId |-> -1, lastId |-> -1, nonce |-> None,
                    req |-> None, lastReq |-> None, retrans |-> 0, key |-> None]

AuthTypeOK ==
  /\ wpa \in BOOLEAN
  /\ rsn \in [st : {"INITIALIZE", "AUTHENTICATION2", "PTKSTART", "PTKINITDONE"},
              pmk : Nonces \cup {None}]
  /\ apc \in {"idle", "pae", "be", "reauth", "eap"}
  /\ ach \in BOOLEAN /\ aPend \in BOOLEAN /\ aRound \in Nat
  /\ aPae \in {"INITIALIZE", "DISCONNECTED", "RESTART", "CONNECTING",
               "AUTHENTICATING", "AUTHENTICATED", "ABORTING", "HELD"}
  /\ aBe \in {"INITIALIZE", "IDLE", "REQUEST", "RESPONSE", "SUCCESS", "FAIL",
              "TIMEOUT", "IGNORE"}
  /\ aReauth \in {"INITIALIZE", "REAUTHENTICATE"}
  /\ aEap \in {"DISABLED", "IDLE", "SUCCESS", "FAILURE", "TIMEOUT_FAILURE"}
  /\ af \subseteq AFlags
  /\ aTmr \subseteq ATimers
  /\ reAuthCount \in 0 .. ReAuthMax + 1
  /\ aPort \in BOOLEAN
  /\ srv \in [method : {"none", "id", "m"}, curId : Ids \cup {-1},
              lastId : Ids \cup {-1}, nonce : Nonces \cup {None},
              req : ToSuppFrames \cup {None}, lastReq : Requests \cup {None},
              retrans : 0 .. MaxRetrans + 1, key : Nonces \cup {None}]
  /\ respData \in Responses \cup {None}
  /\ discDue \in BOOLEAN /\ respNew \in BOOLEAN

\* eapol_auth_alloc and eapol_auth_initialize, before the station associates.
AuthInit ==
  /\ wpa \in BOOLEAN
  /\ rsn = [st |-> "INITIALIZE", pmk |-> None]
  /\ apc = "idle" /\ ach = FALSE /\ aRound = 0 /\ aPend = FALSE
  /\ aPae = "INITIALIZE" /\ aBe = "IDLE" /\ aReauth = "INITIALIZE"
  /\ aEap = "DISABLED"
  /\ af = (IF wpa THEN {} ELSE {"portValid"})
  /\ aTmr = {} /\ reAuthCount = 0
  /\ aPort = FALSE
  /\ srv = NoServerSession /\ respData = None
  /\ discDue = FALSE /\ respNew = FALSE

----------------------------------------------------------------------------
(* Events.                                                                     *)

\* Variables set by a handler that ends with eapol_auth_step.
AuthNotify(add, del) ==
  /\ apc = "idle"
  /\ af' = (af \cup add) \ del
  /\ aPend' = TRUE
  /\ UNCHANGED <<wpa, apc, ach, aRound, aPae, aBe, aReauth, aEap, aTmr, reAuthCount,
                 aPort, srv>>

\* wpa_auth_sm_event with WPA_ASSOC, WPA_REAUTH or WPA_REAUTH_EAPOL.
RsnEvent(b) == rsn' = IF wpa /\ b THEN [rsn EXCEPT !.st = "AUTHENTICATION2"] ELSE rsn

\* WPA_PTK leaves AUTHENTICATION2 at once when keyRun is set, in the call that
\* entered the state or after eapol_sm_step_run (EAPOL_AUTH_SM_CHANGE).
RsnReady == rsn.st = "AUTHENTICATION2" /\ "keyRun" \in af /\ apc = "idle"

\* Mutant: keyRun is left for the next authentication.
InitPmkClearsNothing == {}

\* INITPMK clears keyRun, so that no later handshake starts with this key.
InitPmkClears == {"keyRun"}

\* INITPMK and PTKSTART.
RsnInitPmk ==
  /\ RsnReady
  /\ rsn' = [st |-> "PTKSTART", pmk |-> srv.key]
  /\ af' = af \ InitPmkClears
  /\ UNCHANGED <<wpa, apc, ach, aRound, aPend, aPae, aBe, aReauth, aEap, aTmr,
                 reAuthCount, aPort, srv, respData, discDue, respNew, toSupp>>

\* ieee802_1x_new_station: a state machine that is left from an earlier
\* association (reassoc) is told to authenticate again.
AuthNewStation(reassoc) ==
  /\ AuthNotify({"portEnabled"} \cup (IF reassoc THEN {"reAuthenticate"} ELSE {}), {})
  /\ RsnEvent(TRUE)
  /\ UNCHANGED <<respData, discDue, respNew, toSupp>>

\* ieee802_1x_notify_port_enabled(0) for a station that has gone; the RSN
\* authenticator returns to INITIALIZE and clears portValid.
AuthPortDown ==
  /\ AuthNotify({}, {"portEnabled"} \cup (IF wpa THEN {"portValid"} ELSE {}))
  /\ rsn' = [st |-> "INITIALIZE", pmk |-> None]
  /\ discDue' = FALSE
  /\ UNCHANGED <<respData, respNew, toSupp>>

\* ieee802_1x_notify_port_valid: the key handshake is complete.
AuthPortValid ==
  /\ AuthNotify({"portValid"}, {})
  /\ rsn' = [rsn EXCEPT !.st = "PTKINITDONE"]
  /\ UNCHANGED <<respData, discDue, respNew, toSupp>>

\* ieee802_1x_receive.
AuthRx(f) ==
  /\ AuthNotify(CASE f.t = "Start" -> {"eapolStart"}
                  [] f.t = "Logoff" -> {"eapolLogoff"}
                  [] f.t = "Resp" -> {"eapolEap"}, {})
  /\ RsnEvent(f.t = "Start")
  /\ respData' = IF f.t = "Resp" THEN f ELSE respData
  /\ respNew' = (f.t = "Resp" \/ respNew)
  /\ UNCHANGED <<discDue, toSupp>>

\* eapol_port_timers_tick: the timers in E reach zero.
AuthTick(E) ==
  /\ apc = "idle"
  /\ aTmr' = aTmr \ E
  /\ apc' = "pae" /\ ach' = FALSE /\ aRound' = 1
  /\ UNCHANGED <<wpa, rsn, aPend, aPae, aBe, aReauth, aEap, af, reAuthCount, aPort,
                 srv, respData, discDue, respNew, toSupp>>

\* eapol_sm_step_cb.
AuthStepCb ==
  /\ apc = "idle" /\ aPend
  /\ aPend' = FALSE
  /\ apc' = "pae" /\ ach' = FALSE /\ aRound' = 1
  /\ UNCHANGED <<wpa, rsn, aPae, aBe, aReauth, aEap, af, aTmr, reAuthCount, aPort,
                 srv, respData, discDue, respNew, toSupp>>

----------------------------------------------------------------------------
(* AUTH_PAE.                                                                   *)

\* SM_STEP(AUTH_PAE).
AuthPaeNext ==
  IF "portEnabled" \notin af THEN "INITIALIZE" ELSE
  CASE aPae = "INITIALIZE" -> "DISCONNECTED"
    [] aPae = "DISCONNECTED" -> "RESTART"
    [] aPae = "RESTART" -> IF "eapRestart" \in af THEN "stay" ELSE "CONNECTING"
    [] aPae = "HELD" -> IF "quietWhile" \in aTmr THEN "stay" ELSE "RESTART"
    [] aPae = "CONNECTING" ->
         IF "eapolLogoff" \in af \/ reAuthCount > ReAuthMax THEN "DISCONNECTED"
         ELSE IF af \cap {"eapReq", "eapSuccess", "eapFail"} # {} THEN "AUTHENTICATING"
         ELSE "stay"
    [] aPae = "AUTHENTICATED" ->
         IF af \cap {"eapolStart", "reAuthenticate"} # {} THEN "RESTART"
         ELSE IF "eapolLogoff" \in af \/ "portValid" \notin af THEN "DISCONNECTED"
         ELSE "stay"
    [] aPae = "AUTHENTICATING" ->
         IF {"authSuccess", "portValid"} \subseteq af THEN "AUTHENTICATED"
         ELSE IF "authFail" \in af THEN "HELD"
         ELSE IF af \cap {"eapolStart", "eapolLogoff", "authTimeout"} # {} THEN "ABORTING"
         ELSE "stay"
    [] aPae = "ABORTING" ->
         IF "authAbort" \in af THEN "stay"
         ELSE IF "eapolLogoff" \in af THEN "DISCONNECTED" ELSE "RESTART"

AuthPaeEnter(x) ==
  /\ apc = "pae" /\ AuthPaeNext = x
  /\ apc' = "be"
  /\ ach' = (ach \/ aPae # x)
  /\ aPae' = x
  /\ UNCHANGED <<wpa, rsn, aRound, aPend, aBe, aReauth, aEap, srv, respData, respNew, toSupp>>

AuthInitialize ==
  /\ AuthPaeEnter("INITIALIZE")
  /\ af' = af \ {"keyRun"}
  /\ UNCHANGED <<aTmr, reAuthCount, aPort, discDue>>

\* finished(0) schedules the disconnection of the station.
AuthDisconnected ==
  /\ AuthPaeEnter("DISCONNECTED")
  /\ aPort' = FALSE
  /\ reAuthCount' = 0
  /\ af' = af \ {"eapolLogoff"}
  /\ discDue' = (discDue \/ aPae # "INITIALIZE")
  /\ UNCHANGED aTmr

AuthRestart ==
  /\ AuthPaeEnter("RESTART")
  /\ af' = af \cup {"eapRestart"}
  /\ UNCHANGED <<aTmr, reAuthCount, aPort, discDue>>

AuthConnecting ==
  /\ AuthPaeEnter("CONNECTING")
  /\ af' = af \ {"reAuthenticate"}
  /\ reAuthCount' = reAuthCount + 1
  /\ UNCHANGED <<aTmr, aPort, discDue>>

AuthHeld ==
  /\ AuthPaeEnter("HELD")
  /\ aPort' = FALSE
  /\ aTmr' = aTmr \cup {"quietWhile"}
  /\ af' = af \ {"eapolLogoff"}
  /\ discDue' = TRUE
  /\ UNCHANGED reAuthCount

AuthAuthenticated ==
  /\ AuthPaeEnter("AUTHENTICATED")
  /\ aPort' = TRUE
  /\ reAuthCount' = 0
  /\ UNCHANGED <<af, aTmr, discDue>>

\* Mutant: the key handshake of the last authentication may go on.
AuthAuthenticatingKeyRun ==
  /\ AuthPaeEnter("AUTHENTICATING")
  /\ af' = (af \ {"eapolStart", "authSuccess", "authFail", "authTimeout"}) \cup {"authStart"}
  /\ UNCHANGED <<aTmr, reAuthCount, aPort, discDue>>

AuthAuthenticating ==
  /\ AuthPaeEnter("AUTHENTICATING")
  /\ af' = (af \ {"eapolStart", "authSuccess", "authFail", "authTimeout", "keyRun"})
             \cup {"authStart"}
  /\ UNCHANGED <<aTmr, reAuthCount, aPort, discDue>>

AuthAborting ==
  /\ AuthPaeEnter("ABORTING")
  /\ af' = (af \ {"keyRun"}) \cup {"authAbort"}
  /\ UNCHANGED <<aTmr, reAuthCount, aPort, discDue>>

AuthPae == \/ AuthInitialize \/ AuthDisconnected \/ AuthRestart
           \/ AuthConnecting \/ AuthHeld \/ AuthAuthenticated
           \/ AuthAuthenticating \/ AuthAborting

----------------------------------------------------------------------------
(* BE_AUTH and REAUTH_TIMER.                                                   *)

\* SM_STEP(BE_AUTH).  IGNORE is entered on the way out of RESPONSE when eapNoReq
\* is set, and clears it, even if another state is then entered in the same step.
AuthBeNext ==
  IF "authAbort" \in af THEN "INITIALIZE" ELSE
  CASE aBe \in {"REQUEST", "IGNORE"} ->
         IF "eapolEap" \in af THEN "RESPONSE"
         ELSE IF "eapReq" \in af THEN "REQUEST"
         ELSE IF "eapTimeout" \in af THEN "TIMEOUT" ELSE "stay"
    [] aBe = "RESPONSE" ->
         IF "eapReq" \in af THEN "REQUEST"
         ELSE IF "aWhile" \notin aTmr THEN "TIMEOUT"
         ELSE IF "eapFail" \in af THEN "FAIL"
         ELSE IF "eapSuccess" \in af THEN "SUCCESS"
         ELSE IF "eapNoReq" \in af THEN "IGNORE" ELSE "stay"
    [] aBe \in {"INITIALIZE", "SUCCESS", "FAIL", "TIMEOUT"} -> "IDLE"
    [] aBe = "IDLE" ->
         IF "authStart" \notin af THEN "stay"
         ELSE IF "eapFail" \in af THEN "FAIL"
         ELSE IF "eapReq" \in af THEN "REQUEST"
         ELSE IF "eapSuccess" \in af THEN "SUCCESS" ELSE "stay"

\* A machine that stays in its state takes no step of its own.
AtAuthBe == apc = "be" \/ (apc = "pae" /\ AuthPaeNext = "stay")

AuthBeEnter(x) ==
  /\ AtAuthBe /\ AuthBeNext = x
  /\ apc' = "reauth"
  /\ ach' = (ach \/ aBe # x)
  /\ aBe' = x
  /\ UNCHANGED <<wpa, rsn, aRound, aPend, aPae, aReauth, aEap, reAuthCount, aPort, srv,
                 respData, discDue>>

NoReqDone == IF aBe = "RESPONSE" THEN {"eapNoReq"} ELSE {}

\* eapol_auth_tx_req.
TxReq == toSupp' = IF srv.req = None THEN toSupp ELSE Push(toSupp, srv.req)

AuthBeInitialize ==
  /\ AuthBeEnter("INITIALIZE")
  /\ af' = af \ {"eapNoReq", "authAbort"}
  /\ UNCHANGED <<aTmr, respNew, toSupp>>

\* Mutant: a response that came in before the request is taken as its answer.
AuthBeRequestKeepsResp ==
  /\ AuthBeEnter("REQUEST")
  /\ TxReq
  /\ respNew' = FALSE
  /\ af' = af \ ({"eapReq"} \cup NoReqDone)
  /\ UNCHANGED aTmr

\* The response to an earlier request must not answer the new one: eapolEap.
AuthBeRequest ==
  /\ AuthBeEnter("REQUEST")
  /\ TxReq
  /\ respNew' = FALSE
  /\ af' = af \ ({"eapReq", "eapolEap"} \cup NoReqDone)
  /\ UNCHANGED aTmr

AuthBeResponse ==
  /\ AuthBeEnter("RESPONSE")
  /\ af' = (af \ {"authTimeout", "eapolEap", "eapNoReq"}) \cup {"eapResp"}
  /\ aTmr' = aTmr \cup {"aWhile"}
  /\ UNCHANGED <<respNew, toSupp>>

AuthBeSuccess ==
  /\ AuthBeEnter("SUCCESS")
  /\ TxReq
  /\ af' = (af \ NoReqDone) \cup {"authSuccess", "keyRun"}
  /\ UNCHANGED <<aTmr, respNew>>

AuthBeFail ==
  /\ AuthBeEnter("FAIL")
  /\ TxReq
  /\ af' = (af \ NoReqDone) \cup {"authFail"}
  /\ UNCHANGED <<aTmr, respNew>>

AuthBeTimeout ==
  /\ AuthBeEnter("TIMEOUT")
  /\ af' = (af \ NoReqDone) \cup {"authTimeout"}
  /\ UNCHANGED <<aTmr, respNew, toSupp>>

AuthBeIdle ==
  /\ AuthBeEnter("IDLE")
  /\ af' = af \ {"authStart"}
  /\ UNCHANGED <<aTmr, respNew, toSupp>>

AuthBeIgnore ==
  /\ AuthBeEnter("IGNORE")
  /\ af' = af \ {"eapNoReq"}
  /\ UNCHANGED <<aTmr, respNew, toSupp>>

AuthBe == \/ AuthBeInitialize \/ AuthBeRequest \/ AuthBeResponse
          \/ AuthBeSuccess \/ AuthBeFail \/ AuthBeTimeout \/ AuthBeIdle
          \/ AuthBeIgnore

\* SM_STEP(REAUTH_TIMER).
ReauthNext ==
  IF ~aPort \/ aReauth = "REAUTHENTICATE" THEN "INITIALIZE"
  ELSE IF "reAuthWhen" \notin aTmr THEN "REAUTHENTICATE" ELSE "stay"

AtReauth == apc = "reauth" \/ (AtAuthBe /\ AuthBeNext = "stay")

ReauthTimers == IF ReauthNext = "INITIALIZE" THEN aTmr \cup {"reAuthWhen"} ELSE aTmr

\* The two states of REAUTH_TIMER.  INITIALIZE is entered again in every round
\* while the port is not authorized.  The loop goes on to the EAP server only
\* when none of the three machines changed state.
AuthReauthTimer ==
  LET changed == ach \/ ReauthNext \notin {"stay", aReauth}
  IN /\ AtReauth /\ (changed \/ ReauthNext # "stay")
     /\ aReauth' = IF ReauthNext = "stay" THEN aReauth ELSE ReauthNext
     /\ aTmr' = ReauthTimers
     /\ RsnEvent(ReauthNext = "REAUTHENTICATE")
     /\ af' = IF ReauthNext = "REAUTHENTICATE" THEN af \cup {"reAuthenticate"} ELSE af
     /\ apc' = IF changed THEN "pae" ELSE "eap"
     /\ aRound' = IF changed THEN aRound + 1 ELSE aRound
     /\ ach' = FALSE
     /\ UNCHANGED <<wpa, aPend, aPae, aBe, aEap, reAuthCount, aPort, srv, respData,
                    discDue, respNew, toSupp>>

AtAuthEap == apc = "eap" \/ (AtReauth /\ ReauthNext = "stay" /\ ~ach)

----------------------------------------------------------------------------
(* The EAP server.                                                             *)

SrvIdle == AtAuthEap /\ "portEnabled" \in af /\ "eapRestart" \notin af /\ aEap = "IDLE"

SrvReceived == SrvIdle /\ "retransWhile" \in aTmr /\ "eapResp" \in af

\* A pass of the EAP server's loop.  The response it has read is not read again.
SrvPass(x) ==
  /\ aEap' = x
  /\ ach' = TRUE
  /\ apc' = "eap"
  /\ respData' = IF SrvReceived THEN None ELSE respData
  /\ UNCHANGED <<wpa, rsn, aRound, aPend, aPae, aBe, aReauth, reAuthCount, aPort,
                 discDue, respNew, toSupp>>

\* Mutant: the Identifier is not reduced to eight bits.
NextIdWide(id) == id + 1

\* eap_sm_nextId after the first request.
NextId(id) == (id + 1) % IdMod

\* METHOD_REQUEST, SEND_REQUEST and IDLE.
SendRequest(f, n, clear) ==
  /\ srv' = [srv EXCEPT !.method = f.ty, !.curId = f.id, !.lastId = f.id,
                        !.nonce = n, !.req = f, !.lastReq = f, !.retrans = 0,
                        !.key = None]
  /\ af' = (af \ (clear \cup {"eapResp"})) \cup {"eapReq"}
  /\ aTmr' = aTmr \cup {"retransWhile"}

\* INITIALIZE, SELECT_ACTION and PROPOSE_METHOD with the Identity method; id is
\* the random Identifier of eap_sm_nextId.
AuthEapInitialize(id) ==
  /\ AtAuthEap /\ "portEnabled" \in af
  /\ "eapRestart" \in af \/ aEap = "DISABLED"
  /\ SrvPass("IDLE")
  /\ SendRequest(Frame("Req", "id", IF id # srv.lastId THEN id ELSE NextId(id), None), None,
                 {"eapSuccess", "eapFail", "eapTimeout", "eapRestart"})

AuthEapDisabled ==
  /\ AtAuthEap /\ "portEnabled" \notin af /\ aEap # "DISABLED"
  /\ SrvPass("DISABLED")
  /\ UNCHANGED <<srv, af, aTmr>>

\* RETRANSMIT, and TIMEOUT_FAILURE once the request has been sent often enough.
AuthEapRetransmit ==
  /\ SrvIdle /\ "retransWhile" \notin aTmr
  /\ IF srv.retrans < MaxRetrans
       THEN /\ SrvPass("IDLE")
            /\ srv' = [srv EXCEPT !.retrans = @ + 1, !.req = srv.lastReq]
            /\ af' = af \cup {"eapReq"}
            /\ aTmr' = aTmr \cup {"retransWhile"}
       ELSE /\ SrvPass("TIMEOUT_FAILURE")
            /\ srv' = [srv EXCEPT !.retrans = @ + 1]
            /\ af' = af \cup {"eapTimeout"}
            /\ UNCHANGED aTmr

\* The response is to the last request: its Identifier and type (RECEIVED), and
\* what the method's own check says (INTEGRITY_CHECK), its challenge.
RespMatches == /\ respData # None
               /\ respData.id = srv.curId
               /\ respData.ty = srv.method
               /\ respData.n = srv.nonce

\* RECEIVED, DISCARD and IDLE.
SrvDiscard ==
  /\ SrvPass("IDLE")
  /\ af' = (af \ {"eapResp"}) \cup {"eapNoReq"}
  /\ aTmr' = aTmr \cup {"retransWhile"}
  /\ UNCHANGED srv

SrvFinish(x, f, key, flag) ==
  /\ SrvPass(x)
  /\ srv' = [srv EXCEPT !.req = f, !.lastReq = None, !.key = key]
  /\ af' = af \cup {flag}
  /\ UNCHANGED aTmr

AuthEapDiscard ==
  /\ SrvReceived /\ ~RespMatches
  /\ SrvDiscard

\* The identity is looked up: an unknown user fails, a known one is sent the
\* first request of the method with the fresh challenge n.
AuthEapIdentity(v, n) ==
  /\ SrvReceived /\ RespMatches /\ srv.method = "id"
  /\ IF v = "fail" THEN SrvFinish("FAILURE", Failure(srv.curId), None, "eapFail")
     ELSE /\ SrvPass("IDLE")
          /\ SendRequest(Frame("Req", "m", NextId(srv.curId), n), n, {})

\* Mutant: the key data is not replaced.
MethodKeyKept == srv.key

\* eapKeyData once the method has succeeded.
MethodKey == srv.nonce

\* METHOD_RESPONSE: it succeeds if the credentials do.
AuthEapMethod(v) ==
  /\ SrvReceived /\ RespMatches /\ srv.method = "m"
  /\ IF v = "fail" THEN SrvFinish("FAILURE", Failure(srv.curId), None, "eapFail")
     ELSE SrvFinish("SUCCESS", Success(srv.curId), MethodKey, "eapSuccess")

\* The timers that the current states read; the others are set again before
\* they are next read.
AuthReadTimers == aTmr \cap ((IF aPort THEN {"reAuthWhen"} ELSE {})
                      \cup (IF aPae = "HELD" THEN {"quietWhile"} ELSE {})
                      \cup (IF aBe = "RESPONSE" THEN {"aWhile"} ELSE {})
                      \cup (IF aEap = "IDLE" THEN {"retransWhile"} ELSE {}))

\* The EAP server has nothing more to do.
AuthEapStay ==
  /\ AtAuthEap
  /\ IF "portEnabled" \in af
       THEN /\ "eapRestart" \notin af /\ aEap # "DISABLED"
            /\ aEap = "IDLE" => "retransWhile" \in aTmr /\ "eapResp" \notin af
       ELSE aEap = "DISABLED"
  /\ apc' = IF ach THEN "pae" ELSE "idle"
  /\ aRound' = IF ach THEN aRound + 1 ELSE 0
  /\ ach' = FALSE
  /\ aTmr' = IF ach THEN aTmr ELSE AuthReadTimers
  /\ UNCHANGED <<wpa, rsn, aPend, aPae, aBe, aReauth, aEap, af, reAuthCount, aPort,
                 srv, respData, discDue, respNew, toSupp>>

AuthEap(Fresh) ==
  \/ \E id \in RandIds : AuthEapInitialize(id)
  \/ AuthEapDisabled \/ AuthEapRetransmit \/ AuthEapDiscard
  \/ \E v \in Verdicts, n \in Fresh : AuthEapIdentity(v, n)
  \/ \E v \in Verdicts : AuthEapMethod(v)
  \/ AuthEapStay

\* One step of eapol_sm_step_run.
AuthRun(Fresh) == \/ apc = "pae" /\ AuthPae
                  \/ AtAuthBe /\ AuthBe
                  \/ AuthReauthTimer
                  \/ AtAuthEap /\ AuthEap(Fresh)
=============================================================================
