-------------------------------- MODULE Dot1x --------------------------------
(* A Supplicant and an Authenticator with its EAP server, joined by a link     *)
(* that may lose and duplicate frames, through associations, disassociations,  *)
(* logoff, reauthentication and the WPA key handshake that makes their ports   *)
(* valid.  The two run in different machines; what happens inside a run of one *)
(* side's state machines does not depend on the other, so a run is finished    *)
(* before the next event.                                                      *)
EXTENDS EapolSupp, EapolAuth, FiniteSets

CONSTANT MaxEvents   \* losses, duplicates, expiring timers, users' requests and
                     \* reassociations

ASSUME Dot1xAssumption == MaxEvents \in Nat

VARIABLES known,     \* the Authenticator has a state machine for the station
          events

bounds == <<known, events>>

vars == <<supp, auth, toAuth, toSupp, bounds>>

Idle == spc = "idle" /\ apc = "idle" /\ ~RsnReady

\* A challenge that occurs nowhere in the system, if the supply Nonces (a bound)
\* still has one.
InUse == {peer.key, srv.nonce, rsn.pmk}
           \cup {f.n : f \in ({peer.lastReq, reqData, respData} \ {None})}
           \cup {toAuth[i].n : i \in DOMAIN toAuth} \cup {toSupp[i].n : i \in DOMAIN toSupp}

Fresh == IF Nonces \subseteq InUse THEN {} ELSE {CHOOSE n \in Nonces : n \notin InUse}

TypeOK ==
  /\ SuppTypeOK /\ AuthTypeOK
  /\ toAuth \in Seq(ToAuthFrames) /\ Len(toAuth) <= Cap
  /\ toSupp \in Seq(ToSuppFrames) /\ Len(toSupp) <= Cap
  /\ known \in BOOLEAN
  /\ events \in 0 .. MaxEvents

Init ==
  /\ SuppInit /\ AuthInit
  /\ wpa = ~plain
  /\ toAuth = <<>> /\ toSupp = <<>>
  /\ known = FALSE /\ events = 0

Quiet(A) == Idle /\ A /\ UNCHANGED bounds

Event == events < MaxEvents /\ events' = events + 1

\* The station associates, possibly naming a cached PMK that the Authenticator
\* no longer has.
Associate ==
  /\ Idle /\ "portEnabled" \notin sf
  /\ known' = TRUE
  /\ IF known THEN Event ELSE UNCHANGED events
  /\ \E cached \in {{}, IF plain THEN {} ELSE {"cachedPmk"}} :
       SuppNotify({"portEnabled"} \cup cached, {})
  /\ AuthNewStation(known)

\* The station disassociates; the Authenticator may not hear of it.
Disassociate ==
  /\ Idle /\ "portEnabled" \in sf
  /\ SuppNotify({}, {"portEnabled", "portValid"})
  /\ AuthPortDown \/ UNCHANGED <<auth, toSupp>>
  /\ Event
  /\ UNCHANGED known

\* ap_sta_delayed_1x_auth_fail_cb: the station is deauthenticated.
Deauthenticate ==
  /\ Idle /\ discDue
  /\ AuthPortDown
  /\ IF "portEnabled" \in sf THEN SuppNotify({}, {"portEnabled", "portValid"})
     ELSE UNCHANGED <<supp, toAuth>>
  /\ UNCHANGED bounds

\* The user logs off, or on again.
UserLogoff ==
  /\ Idle
  /\ IF "userLogoff" \in sf
       THEN SuppNotify({}, {"userLogoff"}) /\ UNCHANGED events
       ELSE SuppNotify({"userLogoff"}, {}) /\ Event
  /\ UNCHANGED <<auth, toSupp, known>>

\* The user, the method or the PMKSA cache asks the Supplicant for something.
SuppRequest ==
  /\ Idle
  /\ SuppRetryPending \/ SuppRequestReauth
  /\ Event
  /\ UNCHANGED <<auth, toSupp, known>>

\* The key handshake: the Supplicant sees message 1, completes it with the same
\* key as the Authenticator, and the Authenticator sees its completion.
HandshakeRuns == Idle /\ rsn.st = "PTKSTART" /\ "portEnabled" \in sf

HandshakeStart ==
  /\ HandshakeRuns
  /\ peer.dec # "FAIL" /\ "eapSuccess" \notin sf
  /\ Quiet(SuppLowerLayerSuccess)
  /\ UNCHANGED <<auth, toSupp>>

SuppHandshakeDone ==
  /\ HandshakeRuns
  /\ peer.key # None /\ peer.key = rsn.pmk
  /\ "portValid" \notin sf
  /\ Quiet(SuppNotify({"portValid"}, {}))
  /\ UNCHANGED <<auth, toSupp>>

AuthHandshakeDone ==
  /\ HandshakeRuns
  /\ peer.key = rsn.pmk /\ "portValid" \in sf
  /\ Quiet(AuthPortValid)
  /\ UNCHANGED <<supp, toAuth>>

\* The first frame of a link is received; it may also be received twice.
SuppReceive ==
  /\ Idle /\ toSupp # <<>>
  /\ "portEnabled" \in sf /\ SuppRxEap(Head(toSupp))
  /\ \/ toSupp' = Tail(toSupp) /\ UNCHANGED events
     \/ toSupp' = toSupp /\ Event
  /\ UNCHANGED <<auth, known>>

AuthReceive ==
  /\ Idle /\ toAuth # <<>>
  /\ "portEnabled" \in af
  /\ AuthRx(Head(toAuth))
  /\ \/ toAuth' = Tail(toAuth) /\ UNCHANGED events
     \/ toAuth' = toAuth /\ Event
  /\ UNCHANGED <<supp, known>>

\* A frame is lost, or arrives at a port that is not enabled.
Lose ==
  /\ Idle
  /\ \/ /\ toSupp # <<>> /\ toSupp' = Tail(toSupp) /\ UNCHANGED toAuth
        /\ IF "portEnabled" \in sf THEN Event ELSE UNCHANGED events
     \/ /\ toAuth # <<>> /\ toAuth' = Tail(toAuth) /\ UNCHANGED toSupp
        /\ IF "portEnabled" \in af THEN Event ELSE UNCHANGED events
  /\ UNCHANGED <<supp, auth, known>>

\* A tick; several timers may expire in it.
SuppTimer ==
  /\ Idle
  /\ \/ sTmr = {} /\ SuppTick({}) /\ UNCHANGED events
     \/ \E E \in (SUBSET sTmr) \ {{}} : SuppTick(E) /\ Event
  /\ UNCHANGED <<auth, toSupp, known>>

AuthTimer ==
  /\ Idle
  /\ \E E \in (SUBSET aTmr) \ {{}} : AuthTick(E) /\ Event
  /\ UNCHANGED <<supp, toAuth, known>>

AuthEvent == Quiet(AuthStepCb) /\ UNCHANGED <<supp, toAuth>>

SuppSteps == SuppRun /\ UNCHANGED <<auth, toSupp, bounds>>
AuthSteps == (RsnInitPmk \/ AuthRun(Fresh)) /\ UNCHANGED <<supp, toAuth, bounds>>

Next == \/ Associate \/ Disassociate \/ Deauthenticate \/ UserLogoff \/ SuppRequest
        \/ HandshakeStart \/ SuppHandshakeDone \/ AuthHandshakeDone
        \/ SuppReceive \/ AuthReceive \/ Lose
        \/ SuppTimer \/ AuthTimer \/ AuthEvent \/ SuppSteps \/ AuthSteps

Spec == Init /\ [][Next]_vars

----------------------------------------------------------------------------
\* When eapol_sm_step returns, the Supplicant waits for something that will come:
\* its back end for a request or, with the port down, for the port, and no
\* restart of the EAP peer is left unserved.  A forgotten eapNoResp or eapRestart
\* would leave the two machines waiting for each other for ever.
SuppQuiescent ==
  spc = "idle" => /\ sBe \in {"IDLE", "RECEIVE", "INITIALIZE"}
                  /\ sPae # "RESTART" /\ "eapRestart" \notin sf
                  /\ (sBe = "INITIALIZE" <=> "portEnabled" \notin sf)

\* The Supplicant never answers one received packet twice, whatever it makes of
\* the packet (a new request, a duplicate, a retry of a pending one): RESPONSE is
\* entered with a response to send only for a packet not answered yet.
AnsweredOnce == AtBe /\ BeNext = "RESPONSE" /\ peer.resp # None => owed

\* A 4-way handshake never starts with the key of an earlier one, nor while the
\* EAP server has no successful authentication: keyRun is not left over, although
\* the RSN authenticator and the EAPOL machines clear it on their own and are told
\* of a reauthentication at different times.
KeyRunFresh == RsnReady => /\ "eapSuccess" \in af
                           /\ srv.key # None /\ srv.key # rsn.pmk

\* When both ends hold their EAP authentication for successful, they do so with
\* the same key, across lost and late frames, restarts and reassociations, so the
\* 4-way handshake can start.  The peer may have dropped its key: a logoff and
\* logon frees it (abortSupp) but keeps the decision, which message 1/4 then
\* turns into success (eapol_sm_notify_lower_layer_success).
KeysAgree ==
  Idle /\ ~aPend /\ {"eapSuccess"} \subseteq sf \cap af => peer.key \in {None, srv.key}

\* The loops of eapol_sm_step and eapol_sm_step_run always end by themselves,
\* before the limits that make them yield to the event loop.
LoopsEnd == sRound < MaxLoop /\ aRound < MaxSteps

\* While the Supplicant waits for a timer, the tick that counts it down is on.
TickRuns == spc = "idle" /\ sTmr # {} => sTick

\* BE_AUTH hands a response to the EAP server only if it came in after the last
\* request was sent, although both set the same flags and the step that looks at
\* them runs later from the event loop.
ResponseFresh == AtAuthBe /\ AuthBeNext = "RESPONSE" => respNew
=============================================================================
