------------------------------ MODULE EapolSupp ------------------------------
(* The Supplicant side of IEEE 802.1X: the SUPP_PAE and SUPP_BE machines of    *)
(* eapol_supp_sm.c and the EAP peer machine of eap_peer/eap.c that they drive. *)
(*                                                                             *)
(* An event (a frame, a timer tick, a notification) changes some variables and *)
(* calls eapol_sm_step, which runs SUPP_PAE, SUPP_BE and EAP in turn until no  *)
(* machine changes state.  spc is where that loop is: "idle" outside it, and   *)
(* one action of this module is one state entry.  Nothing else runs in the     *)
(* process before the loop is done, so an event needs spc = "idle".            *)
(*                                                                             *)
(* The EAP peer's own loop only stops in DISABLED, IDLE, SUCCESS and FAILURE;  *)
(* a pass through its other states is one action.  The boolean variables are   *)
(* the set sf of those that are true, the timers the set sTmr of those that    *)
(* run: a tick lets any of them expire.                                        *)
EXTENDS EapFrames

CONSTANTS MaxStart,   \* maxStart: EAPOL-Start frames sent without an answer (3)
          MaxLoop,    \* rounds of eapol_sm_step before it gives way to events (100)
          Outcomes    \* what the method's process() may make of a request

ASSUME EapolSuppAssumption ==
  /\ MaxStart \in Nat
  /\ Outcomes \subseteq {"pending", "fail", "COND_SUCC", "UNCOND_SUCC"}

VARIABLES plain,      \* the network uses 802.1X without WPA: no key handshake
          spc, sch,   \* position in eapol_sm_step, and its "changed"
          sRound,     \* round of its loop
          sPae, sBe, sEap,
          sf, sTmr, sTick, startCount,
          sPort,      \* suppPortStatus = Authorized
          peer,       \* the EAP peer's session data
          reqData,    \* eapReqData, the last EAP packet received
          owed,       \* history: a packet was handed over and not yet answered
          toAuth      \* frames on their way to the Authenticator

supp == <<plain, spc, sch, sRound, sPae, sBe, sEap, sf, sTmr, sTick, startCount, sPort,
          peer, reqData, owed>>

SFlags == {"portEnabled", "portValid", "userLogoff", "logoffSent", "suppAbort",
           "suppStart", "suppTimeout", "eapolEap", "eapReq", "eapResp",
           "eapNoResp", "eapSuccess", "eapFail", "eapRestart", "cachedPmk"}

STimers == {"authWhile", "heldWhile", "startWhen", "idleWhile"}

Decisions == {"FAIL", "COND_SUCC", "UNCOND_SUCC"}

NoSession == [sel |-> "none", meth |-> "NONE", dec |-> "FAIL", lastId |-> -1,
              lastReq |-> None, lastResp |-> None, resp |-> None, key |-> None]

SuppTypeOK ==
  /\ plain \in BOOLEAN
  /\ spc \in {"idle", "pae", "be", "eap"}
  /\ sch \in BOOLEAN /\ sRound \in Nat
  /\ sPae \in {"LOGOFF", "DISCONNECTED", "CONNECTING", "AUTHENTICATING", "HELD",
               "AUTHENTICATED", "RESTART"}
  /\ sBe \in {"REQUEST", "RESPONSE", "SUCCESS", "FAIL", "TIMEOUT", "IDLE",
              "INITIALIZE", "RECEIVE"}
  /\ sEap \in {"DISABLED", "IDLE", "SUCCESS", "FAILURE"}
  /\ sf \subseteq SFlags
  /\ sTmr \subseteq STimers
  /\ sTick \in BOOLEAN
  /\ startCount \in 0 .. MaxStart
  /\ sPort \in BOOLEAN
  /\ peer \in [sel : {"none", "m"}, meth : {"NONE", "MAY_CONT", "DONE"},
               dec : Decisions, lastId : Ids \cup {-1},
               lastReq : Requests \cup {None},
               lastResp : Responses \cup {None}, resp : Responses \cup {None},
               key : Nonces \cup {None}]
  /\ reqData \in ToSuppFrames \cup {None}
  /\ owed \in BOOLEAN

\* eapol_sm_init with the port still disabled: both steps of the loop done.
SuppInit ==
  /\ plain \in BOOLEAN
  /\ spc = "idle" /\ sch = FALSE /\ sRound = 0
  /\ sPae = "DISCONNECTED" /\ sBe = "INITIALIZE" /\ sEap = "DISABLED"
  /\ sf = {} /\ sTmr = {} /\ sTick = TRUE /\ startCount = 0
  /\ sPort = FALSE
  /\ peer = NoSession /\ reqData = None /\ owed = FALSE

----------------------------------------------------------------------------
(* Events.  Each ends by calling eapol_sm_step.                                *)

SStep == spc' = "pae" /\ sch' = FALSE /\ sRound' = 1

\* eapol_port_timers_tick: the timers in E reach zero.
SuppTick(E) ==
  /\ spc = "idle" /\ sTick
  /\ sTmr' = sTmr \ E
  /\ sTick' = (sTmr' # {})
  /\ SStep
  /\ UNCHANGED <<plain, sPae, sBe, sEap, sf, startCount, sPort, peer, reqData,
                 owed, toAuth>>

\* A change of the variables the rest of wpa_supplicant sets: portEnabled,
\* portValid, userLogoff, and cachedPmk when the association request named a
\* cached PMK (eapol_sm_notify_pmkid_attempt).  Logging on again also clears startWhen.
SuppNotify(add, del) ==
  /\ spc = "idle"
  /\ sf' = (sf \cup add) \ del
  /\ sTmr' = IF "userLogoff" \in del THEN sTmr \ {"startWhen"} ELSE sTmr
  /\ SStep
  /\ UNCHANGED <<plain, sPae, sBe, sEap, sTick, startCount, sPort, peer,
                 reqData, owed, toAuth>>

\* eapol_sm_rx_eapol with an EAP packet.  While a cached PMK is tried, the
\* packet shows that the Authenticator does not have it: eapol_sm_abort_cached.
SuppRxEap(f) ==
  /\ spc = "idle"
  /\ reqData' = f
  /\ owed' = TRUE
  /\ sf' = (sf \ {"cachedPmk"}) \cup {"eapolEap"}
  /\ IF "cachedPmk" \in sf
       THEN /\ sPae' = "CONNECTING"
            /\ sPort' = FALSE
            /\ sTmr' = sTmr \cup {"startWhen"}
            /\ sTick' = TRUE
       ELSE UNCHANGED <<sPae, sPort, sTmr, sTick>>
  /\ SStep
  /\ UNCHANGED <<plain, sBe, sEap, startCount, peer, toAuth>>

\* eapol_sm_notify_ctrl_response, eapol_sm_notify_pending: the user's input or
\* the method's own result has come, so the pending request is tried again.
SuppRetryPending ==
  /\ spc = "idle"
  /\ reqData # None /\ "eapReq" \notin sf
  /\ sf' = sf \cup {"eapolEap", "eapReq"}
  /\ owed' = TRUE
  /\ SStep
  /\ UNCHANGED <<plain, sPae, sBe, sEap, sTmr, sTick, startCount, sPort, peer,
                 reqData, toAuth>>

\* eapol_sm_request_reauth: the PMKSA is about to expire.
SuppRequestReauth ==
  /\ spc = "idle"
  /\ sPae = "AUTHENTICATED"
  /\ toAuth' = Push(toAuth, Start)
  /\ UNCHANGED supp

\* eapol_sm_notify_lower_layer_success: an EAPOL-Key frame shows that the
\* Authenticator has finished, so a lost EAP-Success is made up for.
SuppLowerLayerSuccess ==
  /\ spc = "idle"
  /\ sf' = IF peer.dec # "FAIL" /\ peer.meth \in {"MAY_CONT", "DONE"}
             THEN sf \cup {"eapSuccess"} ELSE sf
  /\ SStep
  /\ UNCHANGED <<plain, sPae, sBe, sEap, sTmr, sTick, startCount, sPort, peer,
                 reqData, owed, toAuth>>

----------------------------------------------------------------------------
(* SUPP_PAE.                                                                   *)

\* SM_STEP(SUPP_PAE): the state that is entered, or "stay".
PaeNext ==
  LET up == "portEnabled" \in sf
      startDone == "startWhen" \notin sTmr
  IN CASE ~up -> "DISCONNECTED"
       [] up /\ "userLogoff" \in sf /\ "logoffSent" \notin sf -> "LOGOFF"
       [] OTHER ->
     CASE sPae = "LOGOFF" -> IF "userLogoff" \in sf THEN "stay" ELSE "DISCONNECTED"
       [] sPae = "DISCONNECTED" -> "CONNECTING"
       [] sPae = "CONNECTING" ->
            IF startDone /\ startCount < MaxStart THEN "CONNECTING"
            ELSE IF startDone /\ "portValid" \in sf THEN "AUTHENTICATED"
            ELSE IF sf \cap {"eapSuccess", "eapFail"} # {} THEN "AUTHENTICATING"
            ELSE IF "eapolEap" \in sf THEN "RESTART"
            ELSE IF startDone THEN "HELD" ELSE "stay"
       [] sPae = "AUTHENTICATING" ->
            IF "eapSuccess" \in sf /\ ("portValid" \in sf \/ plain) THEN "AUTHENTICATED"
            ELSE IF "eapFail" \in sf THEN "HELD"
            ELSE IF "suppTimeout" \in sf THEN "CONNECTING" ELSE "stay"
       [] sPae = "HELD" ->
            IF "heldWhile" \notin sTmr THEN "CONNECTING"
            ELSE IF "eapolEap" \in sf THEN "RESTART" ELSE "stay"
       [] sPae = "AUTHENTICATED" ->
            IF "portValid" \notin sf THEN "DISCONNECTED"
            ELSE IF "eapolEap" \in sf THEN "RESTART" ELSE "stay"
       [] sPae = "RESTART" -> IF "eapRestart" \in sf THEN "stay" ELSE "AUTHENTICATING"

\* SM_ENTRY: a global transition to the current state is not a change.
PaeEnter(x) ==
  /\ spc = "pae" /\ PaeNext = x
  /\ spc' = "be"
  /\ sch' = (sch \/ sPae # x \/ x = "CONNECTING")
  /\ sPae' = x
  /\ UNCHANGED <<plain, sRound, sBe, sEap, peer, reqData, owed>>

SuppLogoff ==
  /\ PaeEnter("LOGOFF")
  /\ toAuth' = Push(toAuth, Logoff)
  /\ sf' = sf \cup {"logoffSent"}
  /\ sPort' = FALSE
  /\ UNCHANGED <<sTmr, sTick, startCount>>

SuppDisconnected ==
  /\ PaeEnter("DISCONNECTED")
  /\ sf' = (sf \ {"logoffSent"}) \cup {"suppAbort"}
  /\ sTmr' = sTmr \ {"heldWhile"}
  /\ startCount' = 0
  /\ sPort' = FALSE
  /\ UNCHANGED <<sTick, toAuth>>

\* EAPOL-Start is sent at once only when the previous attempt was in vain.
\* startCount is only ever compared with maxStart, so it stops there.
SuppConnecting ==
  /\ PaeEnter("CONNECTING")
  /\ sTmr' = sTmr \cup {"startWhen"}
  /\ sTick' = TRUE
  /\ sf' = sf \ {"eapolEap"}
  /\ IF sPae \in {"CONNECTING", "HELD"}
       THEN /\ startCount' = IF startCount < MaxStart THEN startCount + 1 ELSE MaxStart
            /\ toAuth' = Push(toAuth, Start)
       ELSE UNCHANGED <<startCount, toAuth>>
  /\ UNCHANGED sPort

SuppAuthenticating ==
  /\ PaeEnter("AUTHENTICATING")
  /\ startCount' = 0
  /\ sf' = (sf \ {"suppTimeout"}) \cup {"suppStart"}
  /\ UNCHANGED <<sTmr, sTick, sPort, toAuth>>

\* Mutant: the timer is set and the tick is not started.
SuppHeldNoTick ==
  /\ PaeEnter("HELD")
  /\ sTmr' = sTmr \cup {"heldWhile"}
  /\ sPort' = FALSE
  /\ UNCHANGED <<sf, sTick, startCount, toAuth>>

SuppHeld ==
  /\ PaeEnter("HELD")
  /\ sTmr' = sTmr \cup {"heldWhile"}
  /\ sTick' = TRUE
  /\ sPort' = FALSE
  /\ UNCHANGED <<sf, startCount, toAuth>>

\* Without a key handshake, success makes the port valid (SM_STEP(SUPP_PAE)).
SuppAuthenticated ==
  /\ PaeEnter("AUTHENTICATED")
  /\ sf' = sf \cup {"portValid"}
  /\ sPort' = TRUE
  /\ UNCHANGED <<sTmr, sTick, startCount, toAuth>>

\* That confirm_auth_cb refuses it, and reconnects, when PTK 0 must not be
\* rekeyed (deny_ptk0_rekey) is left out.
SuppRestart ==
  /\ PaeEnter("RESTART")
  /\ sf' = sf \cup {"eapRestart"}
  /\ UNCHANGED <<sTmr, sTick, startCount, sPort, toAuth>>

SuppPae == \/ SuppLogoff \/ SuppDisconnected \/ SuppConnecting \/ SuppAuthenticating
           \/ SuppHeld \/ SuppAuthenticated \/ SuppRestart

----------------------------------------------------------------------------
(* SUPP_BE.                                                                    *)

\* SM_STEP(SUPP_BE).
BeNext ==
  IF "suppAbort" \in sf THEN "INITIALIZE" ELSE
  CASE sBe = "REQUEST" ->
         IF "eapResp" \in sf THEN "RESPONSE"
         ELSE IF "eapNoResp" \in sf THEN "RECEIVE"
         ELSE IF "eapFail" \in sf THEN "FAIL"
         ELSE IF "eapSuccess" \in sf THEN "SUCCESS" ELSE "stay"
    [] sBe = "RESPONSE" -> "RECEIVE"
    [] sBe \in {"SUCCESS", "FAIL", "TIMEOUT", "INITIALIZE"} -> "IDLE"
    [] sBe = "IDLE" ->
         IF "suppStart" \notin sf THEN "stay"
         ELSE IF "eapFail" \in sf THEN "FAIL"
         ELSE IF "eapolEap" \in sf THEN "REQUEST"
         ELSE IF "eapSuccess" \in sf THEN "SUCCESS" ELSE "stay"
    [] sBe = "RECEIVE" ->
         IF "eapolEap" \in sf THEN "REQUEST"
         ELSE IF "eapFail" \in sf THEN "FAIL"
         ELSE IF "authWhile" \notin sTmr THEN "TIMEOUT"
         ELSE IF "eapSuccess" \in sf THEN "SUCCESS" ELSE "stay"

\* A machine that stays in its state takes no step of its own.
AtBe == spc = "be" \/ (spc = "pae" /\ PaeNext = "stay")
AtEap == spc = "eap" \/ (AtBe /\ BeNext = "stay")

BeEnter(x) ==
  /\ AtBe /\ BeNext = x
  /\ spc' = "eap"
  /\ sch' = (sch \/ sBe # x)
  /\ sBe' = x
  /\ UNCHANGED <<plain, sRound, sPae, sEap, startCount, sPort>>

SuppBeRequest ==
  /\ BeEnter("REQUEST")
  /\ sTmr' = sTmr \ {"authWhile"}
  /\ sf' = sf \cup {"eapReq"}
  /\ UNCHANGED <<sTick, peer, reqData, owed, toAuth>>

\* txSuppRsp takes the EAP peer's response, if there is one.
SuppBeResponse ==
  /\ BeEnter("RESPONSE")
  /\ toAuth' = IF peer.resp = None THEN toAuth ELSE Push(toAuth, peer.resp)
  /\ owed' = IF peer.resp = None THEN owed ELSE FALSE
  /\ peer' = [peer EXCEPT !.resp = None]
  /\ sf' = sf \ {"eapResp"}
  /\ UNCHANGED <<sTmr, sTick, reqData>>

\* SUCCESS and FAIL set variables that nothing reads without WEP keys.
SuppBeDone ==
  /\ \E x \in {"SUCCESS", "FAIL"} : BeEnter(x)
  /\ UNCHANGED <<sf, sTmr, sTick, peer, reqData, owed, toAuth>>

SuppBeTimeout ==
  /\ BeEnter("TIMEOUT")
  /\ sf' = sf \cup {"suppTimeout"}
  /\ UNCHANGED <<sTmr, sTick, peer, reqData, owed, toAuth>>

SuppBeIdle ==
  /\ BeEnter("IDLE")
  /\ sf' = sf \ {"suppStart"}
  /\ UNCHANGED <<sTmr, sTick, peer, reqData, owed, toAuth>>

\* abortSupp also frees the EAP peer's response and key (eap_sm_abort).
SuppBeInitialize ==
  /\ BeEnter("INITIALIZE")
  /\ reqData' = None
  /\ peer' = [peer EXCEPT !.lastResp = None, !.resp = None, !.key = None]
  /\ sf' = sf \ {"suppAbort", "eapSuccess"}
  /\ sTmr' = sTmr \ {"authWhile"}
  /\ UNCHANGED <<sTick, owed, toAuth>>

\* Mutant: the packet that has been answered is taken for a new one.
SuppBeReceiveAgain ==
  /\ BeEnter("RECEIVE")
  /\ sTmr' = sTmr \cup {"authWhile"}
  /\ sTick' = TRUE
  /\ sf' = sf \ {"eapNoResp"}
  /\ UNCHANGED <<peer, reqData, owed, toAuth>>

SuppBeReceive ==
  /\ BeEnter("RECEIVE")
  /\ sTmr' = sTmr \cup {"authWhile"}
  /\ sTick' = TRUE
  /\ sf' = sf \ {"eapolEap", "eapNoResp"}
  /\ UNCHANGED <<peer, reqData, owed, toAuth>>

SuppBe == \/ SuppBeRequest \/ SuppBeResponse \/ SuppBeDone
          \/ SuppBeTimeout \/ SuppBeIdle \/ SuppBeInitialize \/ SuppBeReceive

----------------------------------------------------------------------------
(* The EAP peer.                                                               *)

\* A pass of the EAP peer's loop that changed its state; the loop goes on.
EapPass(x) ==
  /\ sEap' = x
  /\ sch' = TRUE
  /\ spc' = "eap"
  /\ UNCHANGED <<plain, sRound, sPae, sBe, startCount, sPort, owed, reqData, toAuth>>

\* INITIALIZE and IDLE, on eapRestart or when the port becomes enabled.  What the
\* code leaves of the last session (lastRespData, eapRespData, last_sha1) is not
\* read before it is set again, because lastId matches no request.
SuppEapInitialize ==
  /\ AtEap /\ "portEnabled" \in sf
  /\ "eapRestart" \in sf \/ sEap = "DISABLED"
  /\ EapPass("IDLE")
  /\ peer' = NoSession
  /\ sf' = sf \ {"eapSuccess", "eapFail", "eapRestart", "eapResp", "eapNoResp"}
  /\ sTmr' = sTmr \cup {"idleWhile"}
  /\ sTick' = TRUE

\* DISABLED, while the port is not enabled.
SuppEapDisabled ==
  /\ AtEap /\ "portEnabled" \notin sf /\ sEap # "DISABLED"
  /\ EapPass("DISABLED")
  /\ sTmr' = sTmr \ {"idleWhile"}
  /\ UNCHANGED <<sf, sTick, peer>>

EapIdle == AtEap /\ "portEnabled" \in sf /\ "eapRestart" \notin sf /\ sEap = "IDLE"

Received(t) == EapIdle /\ "eapReq" \in sf /\ reqData # None /\ reqData.t = t

\* SUCCESS, FAILURE and DISCARD: the request is consumed without a response.
EapNoResponse(x, flags) ==
  /\ EapPass(x)
  /\ sf' = (sf \ {"eapReq"}) \cup {"eapNoResp"} \cup flags
  /\ UNCHANGED <<sTmr, sTick>>

EapSuccess == EapNoResponse("SUCCESS", {"eapSuccess"})
EapFailure == EapNoResponse("FAILURE", {"eapFail"})

\* Mutant: SUPP_BE is not told that there will be no response.
EapDiscardSilently ==
  /\ EapPass("IDLE")
  /\ sf' = sf \ {"eapReq"}
  /\ UNCHANGED <<sTmr, sTick>>

EapDiscard == EapNoResponse("IDLE", {})

\* Identifier of a Success or Failure, with the workaround for servers that
\* count on after the last request (eap_success_workaround).
IdAccepted ==
  reqData.id \in {peer.lastId, (peer.lastId + 1) % IdMod, (peer.lastId + 2) % IdMod}

SuppEapRxSuccess ==
  /\ Received("Success")
  /\ IF ~IdAccepted THEN EapDiscard
     ELSE IF peer.dec # "FAIL" THEN EapSuccess ELSE EapFailure
  /\ UNCHANGED peer

SuppEapRxFailure ==
  /\ Received("Failure")
  /\ IF IdAccepted /\ peer.dec # "UNCOND_SUCC" THEN EapFailure ELSE EapDiscard
  /\ UNCHANGED peer

\* SEND_RESPONSE of the response r to the request in p.
SendResponse(p, r) ==
  /\ EapPass("IDLE")
  /\ peer' = IF r = None THEN [p EXCEPT !.resp = None, !.lastResp = None]
              ELSE [p EXCEPT !.resp = r, !.lastResp = r,
                             !.lastId = reqData.id, !.lastReq = reqData]
  /\ sf' = (sf \ {"eapReq"}) \cup (IF r = None THEN {} ELSE {"eapResp"})
  /\ sTmr' = sTmr \cup {"idleWhile"}
  /\ sTick' = TRUE

\* eap_peer_req_is_duplicate: the same Identifier and the same packet.
Duplicate == reqData.id = peer.lastId /\ reqData = peer.lastReq

Answer == [reqData EXCEPT !.t = "Resp"]

\* RETRANSMIT.
SuppEapRetransmit ==
  /\ Received("Req") /\ Duplicate
  /\ SendResponse(peer, peer.lastResp)

\* IDENTITY, only before a method has been selected.
SuppEapIdentity ==
  /\ Received("Req") /\ ~Duplicate
  /\ reqData.ty = "id" /\ peer.sel = "none"
  /\ SendResponse(peer, Answer)

\* GET_METHOD and METHOD.  The method asks for more time ("pending"), gives up
\* without a response ("fail"), or answers and is done as far as it can tell.
SuppEapMethod(o) ==
  /\ Received("Req") /\ ~Duplicate
  /\ reqData.ty = "m"
  /\ peer.sel = "none" \/ peer.meth # "DONE"
  /\ CASE o = "pending" -> EapDiscard /\ peer' = [peer EXCEPT !.sel = "m", !.resp = None]
       [] o = "fail" ->
            /\ EapFailure
            /\ peer' = [peer EXCEPT !.sel = "m", !.meth = "DONE", !.dec = "FAIL",
                                    !.resp = None]
       [] o \in {"COND_SUCC", "UNCOND_SUCC"} ->
            SendResponse([peer EXCEPT !.sel = "m", !.dec = o, !.key = reqData.n,
                                      !.meth = IF o = "COND_SUCC" THEN "MAY_CONT" ELSE "DONE"],
                         Answer)

\* DISCARD: a request that fits no transition of eap_peer_sm_step_received, or
\* one whose data has been freed by abortSupp.
SuppEapDiscard ==
  /\ \/ EapIdle /\ "eapReq" \in sf /\ reqData = None
     \/ /\ Received("Req") /\ ~Duplicate
        /\ peer.sel = "m"
        /\ reqData.ty = "id" \/ peer.meth = "DONE"
  /\ EapDiscard
  /\ UNCHANGED peer

\* eap_peer_sm_step_idle when the Authenticator has been silent for too long.
SuppEapIdleTimeout ==
  /\ EapIdle /\ "eapReq" \notin sf /\ "idleWhile" \notin sTmr
  /\ IF peer.dec = "UNCOND_SUCC" THEN EapSuccess ELSE EapFailure
  /\ UNCHANGED peer

\* The timers that the current states read.  The others run on in the code, but
\* each is set again when a state that reads it is entered.
ReadTimers == sTmr \cap ((IF sPae = "CONNECTING" THEN {"startWhen"} ELSE {})
                  \cup (IF sPae = "HELD" THEN {"heldWhile"} ELSE {})
                  \cup (IF sBe = "RECEIVE" THEN {"authWhile"} ELSE {})
                  \cup (IF sEap = "IDLE" THEN {"idleWhile"} ELSE {}))

\* The EAP peer has nothing more to do: the loop of eapol_sm_step goes round
\* again if any machine changed state.
SuppEapStay ==
  /\ AtEap
  /\ IF "portEnabled" \in sf
       THEN /\ "eapRestart" \notin sf /\ sEap # "DISABLED"
            /\ sEap = "IDLE" => "eapReq" \notin sf /\ "idleWhile" \in sTmr
       ELSE sEap = "DISABLED"
  /\ spc' = IF sch THEN "pae" ELSE "idle"
  /\ sRound' = IF sch THEN sRound + 1 ELSE 0
  /\ sch' = FALSE
  /\ sTmr' = IF sch THEN sTmr ELSE ReadTimers
  /\ UNCHANGED <<plain, sPae, sBe, sEap, sf, sTick, startCount, sPort, peer,
                 reqData, owed, toAuth>>

SuppEap == \/ SuppEapInitialize \/ SuppEapDisabled \/ SuppEapRxSuccess
           \/ SuppEapRxFailure \/ SuppEapRetransmit \/ SuppEapIdentity
           \/ \E o \in Outcomes : SuppEapMethod(o)
           \/ SuppEapDiscard \/ SuppEapIdleTimeout \/ SuppEapStay

\* One step of eapol_sm_step.
SuppRun == \/ spc = "pae" /\ SuppPae
           \/ AtBe /\ SuppBe
           \/ AtEap /\ SuppEap
=============================================================================
