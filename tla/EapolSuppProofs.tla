--------------------------- MODULE EapolSuppProofs ---------------------------
(* What every step of the Supplicant's 802.1X machines preserves, whatever the *)
(* limits and the outcomes of the method.  The lemmas are about single actions *)
(* of EapolSupp; Dot1xProofs combines them with the Authenticator's into       *)
(* theorems of the whole system.                                               *)
(*                                                                             *)
(* The invariant says how far a run of eapol_sm_step has got.  Its core is     *)
(* that a packet handed to the EAP peer (SUPP_BE in REQUEST) is consumed in    *)
(* the same round of the loop, with eapResp or eapNoResp set, so that SUPP_BE  *)
(* never waits in REQUEST; for that the peer must be in IDLE with the response *)
(* to its last request at hand (Fit), also right after a restart.              *)
EXTENDS EapolSupp, TLAPS

SUp == "portEnabled" \in sf

\* abortSupp has freed the response to the last request.
Stale == peer.lastReq # None /\ peer.lastResp = None

\* The EAP peer will answer or discard the next packet at once.
Fit == sEap = "IDLE" /\ "idleWhile" \in sTmr /\ ~Stale /\ "eapSuccess" \notin sf

SeenBefore == reqData # None /\ Duplicate

\* The position in the loop, the port and SUPP_PAE.
SFlow ==
  /\ "eapRestart" \in sf => sPae = "RESTART" /\ SUp /\ spc \in {"be", "eap"}
  /\ sPae = "RESTART" => /\ SUp /\ spc # "idle" /\ "eapolEap" \in sf
                         /\ spc = "be" => "eapRestart" \in sf
  /\ ~SUp => /\ spc # "pae" => sPae = "DISCONNECTED"
             /\ spc \in {"eap", "idle"} => "eapSuccess" \notin sf /\ reqData = None
  /\ spc = "idle" => (sEap = "DISABLED" <=> ~SUp)
  /\ SUp /\ spc \in {"be", "eap"} => sch = TRUE
  /\ "suppAbort" \in sf => spc = "be" /\ sPae = "DISCONNECTED" /\ sBe \notin {"REQUEST", "RESPONSE"}
  /\ sPae = "DISCONNECTED" => IF spc = "be" THEN "suppAbort" \in sf ELSE sBe = "INITIALIZE"
  /\ sPae = "LOGOFF" => /\ "logoffSent" \in sf
                        /\ spc \in {"be", "eap"} \/ sBe \in {"REQUEST", "RESPONSE"}
                             => "userLogoff" \in sf

\* The results of the EAP peer that SUPP_BE and SUPP_PAE have not yet taken.
SResults ==
  /\ sEap = "FAILURE" => "eapFail" \in sf
  /\ "eapFail" \in sf => sEap \in {"FAILURE", "DISABLED"}
  /\ sEap = "SUCCESS" => "eapSuccess" \in sf \/ sBe \in {"INITIALIZE", "IDLE"}
  /\ sEap = "DISABLED" => sBe = "INITIALIZE" \/ (sBe = "IDLE" /\ spc = "eap")
  /\ Stale => sBe \in {"INITIALIZE", "IDLE", "SUCCESS", "FAIL"}
  /\ "cachedPmk" \in sf => /\ "eapSuccess" \notin sf /\ reqData = None
                           /\ peer.dec = "FAIL" \/ sEap = "DISABLED"

\* SUPP_BE in REQUEST and RESPONSE.
SAnswering ==
  /\ sBe \in {"REQUEST", "RESPONSE"} => SUp /\ spc # "idle"
  /\ sBe = "REQUEST" =>
       \/ "eapReq" \in sf /\ spc = "eap" /\ Fit /\ ("eapResp" \in sf => SeenBefore)
       \/ "eapReq" \notin sf /\ "eapResp" \in sf /\ Fit /\ "eapRestart" \notin sf
       \/ "eapReq" \notin sf /\ "eapResp" \notin sf /\ "eapNoResp" \in sf /\ "eapRestart" \notin sf
  /\ sBe = "RESPONSE" =>
       Fit /\ "eapReq" \notin sf /\ "eapResp" \notin sf /\ "eapRestart" \notin sf
  /\ sBe = "RESPONSE" \/ (sBe = "REQUEST" /\ (spc # "be" \/ "eapResp" \in sf)) =>
       sPae \in {"RESTART", "AUTHENTICATING", "LOGOFF"}

\* SUPP_BE in RECEIVE.
SReceiving ==
  sBe = "RECEIVE" =>
    /\ "eapResp" \notin sf
    /\ "eapReq" \in sf => "eapolEap" \in sf
    /\ spc = "idle" => Fit
    /\ "eapolEap" \in sf =>
         /\ spc \in {"pae", "be"} /\ Fit
         /\ spc = "be" => sPae \in {"RESTART", "AUTHENTICATING", "LOGOFF", "DISCONNECTED"}

\* An authentication that SUPP_PAE has asked for or is about to ask for.
SStarting ==
  /\ sBe = "IDLE" /\ "suppStart" \in sf =>
       /\ spc = "be" /\ sPae = "AUTHENTICATING"
       /\ "eapolEap" \in sf \/ "eapSuccess" \in sf \/ "eapFail" \in sf
       /\ "eapolEap" \in sf /\ "eapFail" \notin sf => Fit /\ ("eapResp" \in sf => SeenBefore)
  /\ sPae = "RESTART" /\ "eapRestart" \notin sf =>
       \/ sEap = "FAILURE"
       \/ /\ Fit
          /\ "eapReq" \in sf => peer = NoSession
          /\ "eapResp" \in sf => SeenBefore

\* What SUPP_PAE waits for.
SWaiting ==
  /\ sPae = "CONNECTING" /\ "eapolEap" \in sf =>
       spc = "pae" /\ "startWhen" \in sTmr /\ "eapSuccess" \notin sf
  /\ spc = "idle" /\ sPae = "CONNECTING" =>
       "startWhen" \in sTmr /\ "eapSuccess" \notin sf /\ "eapFail" \notin sf
  /\ sPae = "HELD" /\ spc = "idle" => "heldWhile" \in sTmr
  /\ sPae = "HELD" /\ "eapolEap" \in sf => spc # "idle" /\ "heldWhile" \in sTmr
  /\ sPae = "AUTHENTICATING" /\ "suppTimeout" \in sf =>
       sBe = "TIMEOUT" /\ spc \in {"eap", "pae"}

\* A packet is owed an answer from its reception to the one response to it.
SOwed ==
  /\ "eapolEap" \in sf => owed = TRUE \/ sBe = "RESPONSE"
  /\ "eapReq" \in sf => owed = TRUE
  /\ peer.resp # None => owed = TRUE

STicking == sTmr # {} => sTick = TRUE

SEnd == spc = "idle" => /\ sBe \in {"IDLE", "RECEIVE", "INITIALIZE"}
                        /\ sBe = "INITIALIZE" <=> ~SUp

SuppInv ==
  /\ SuppTypeOK /\ SFlow /\ SResults /\ SAnswering /\ SReceiving /\ SStarting
  /\ SWaiting /\ SOwed /\ STicking /\ SEnd

LEMMA SuppInvInit == SuppInit => SuppInv
<1> SUFFICES ASSUME SuppInit PROVE SuppInv
  OBVIOUS
<1>0. 0 \in 0 .. MaxStart
  BY EapolSuppAssumption
<1>1. SuppTypeOK
  BY <1>0 DEF SuppInit, SuppTypeOK, NoSession, Decisions
<1>2. SFlow /\ SResults /\ SAnswering
  BY DEF SuppInit, SFlow, SUp, SResults, Stale, SAnswering, NoSession
<1>3. SReceiving /\ SStarting /\ SWaiting /\ SOwed /\ STicking /\ SEnd
  BY DEF SuppInit, SReceiving, SStarting, SWaiting, SOwed, STicking, SEnd, SUp, NoSession
<1> QED BY <1>1, <1>2, <1>3 DEF SuppInv

-----------------------------------------------------------------------------
(* SUPP_PAE.                                                                   *)

PaeStates == {"LOGOFF", "DISCONNECTED", "CONNECTING", "AUTHENTICATING", "HELD",
              "AUTHENTICATED", "RESTART"}

\* What SM_STEP(SUPP_PAE) requires of the state it enters.
LEMMA PaeFrom ==
  ASSUME SuppTypeOK
  PROVE  /\ ~SUp => PaeNext = "DISCONNECTED"
         /\ PaeNext = "DISCONNECTED" => \/ ~SUp
                                        \/ sPae = "LOGOFF" /\ "userLogoff" \notin sf
                                        \/ sPae = "AUTHENTICATED"
         /\ PaeNext = "LOGOFF" => "userLogoff" \in sf /\ "logoffSent" \notin sf
         /\ PaeNext = "CONNECTING" => \/ sPae = "DISCONNECTED"
                                      \/ sPae = "CONNECTING" /\ "startWhen" \notin sTmr
                                      \/ sPae = "AUTHENTICATING" /\ "suppTimeout" \in sf
                                      \/ sPae = "HELD" /\ "heldWhile" \notin sTmr
         /\ PaeNext = "AUTHENTICATING" =>
              \/ sPae = "CONNECTING" /\ ("eapSuccess" \in sf \/ "eapFail" \in sf)
              \/ sPae = "RESTART" /\ "eapRestart" \notin sf
         /\ PaeNext = "HELD" =>
              \/ sPae = "CONNECTING" /\ "startWhen" \notin sTmr /\ "eapolEap" \notin sf
              \/ sPae = "AUTHENTICATING" /\ "eapFail" \in sf
         /\ PaeNext = "AUTHENTICATED" =>
              \/ sPae = "CONNECTING" /\ "startWhen" \notin sTmr
              \/ sPae = "AUTHENTICATING" /\ "eapSuccess" \in sf
         /\ PaeNext = "RESTART" =>
              "eapolEap" \in sf /\ sPae \in {"CONNECTING", "HELD", "AUTHENTICATED"}
<1>1. sPae \in PaeStates
  BY DEF SuppTypeOK, PaeStates
<1> QED BY <1>1 DEF PaeNext, SUp, PaeStates

LEMMA PaeStay ==
  ASSUME SuppTypeOK, PaeNext = "stay"
  PROVE  /\ SUp /\ sPae # "DISCONNECTED"
         /\ sPae = "LOGOFF" => "userLogoff" \in sf
         /\ sPae = "CONNECTING" => /\ "startWhen" \in sTmr /\ "eapSuccess" \notin sf
                                   /\ "eapFail" \notin sf /\ "eapolEap" \notin sf
         /\ sPae = "AUTHENTICATING" => "eapFail" \notin sf /\ "suppTimeout" \notin sf
         /\ sPae = "HELD" => "heldWhile" \in sTmr /\ "eapolEap" \notin sf
         /\ sPae = "AUTHENTICATED" => "eapolEap" \notin sf
         /\ sPae = "RESTART" => "eapRestart" \in sf
<1>1. sPae \in PaeStates
  BY DEF SuppTypeOK, PaeStates
<1> QED BY <1>1 DEF PaeNext, SUp, PaeStates

LEMMA PaeType ==
  ASSUME SuppTypeOK, NEW x \in PaeStates, PaeEnter(x),
         sf' \subseteq SFlags, sTmr' \subseteq STimers, sTick' \in BOOLEAN,
         startCount' \in 0 .. MaxStart, sPort' \in BOOLEAN
  PROVE  SuppTypeOK'
BY DEF SuppTypeOK, PaeEnter, PaeStates

\* SUPP_PAE only enters a state it is not in, but for CONNECTING and, with the
\* port down, DISCONNECTED.
LEMMA PaeChanges ==
  ASSUME SuppInv, NEW x \in PaeStates, PaeEnter(x)
  PROVE  /\ SUp => sch' = TRUE
         /\ spc = "pae" /\ spc' = "be" /\ sPae' = x /\ PaeNext = x
         /\ UNCHANGED <<sBe, sEap, peer, reqData, owed>>
<1>1. SuppTypeOK /\ SFlow
  BY DEF SuppInv
<1>2. SUp => sPae # x \/ x = "CONNECTING"
  BY <1>1, PaeFrom DEF PaeEnter, SFlow, PaeStates
<1>3. sch' = (sch \/ sPae # x \/ x = "CONNECTING") /\ sch \in BOOLEAN
  BY <1>1 DEF SuppTypeOK, PaeEnter
<1>4. spc = "pae" /\ spc' = "be" /\ sPae' = x /\ PaeNext = x
      /\ UNCHANGED <<sBe, sEap, peer, reqData, owed>>
  BY DEF PaeEnter
<1> QED BY <1>2, <1>3, <1>4

\* An entry of SUPP_PAE with a packet being answered: the authentication goes on
\* or the user logs off; results are only taken when no response is waiting.
LEMMA PaeAnswering ==
  ASSUME SuppInv, spc = "pae", sBe \in {"REQUEST", "RESPONSE"}
  PROVE  /\ PaeNext \in {"AUTHENTICATING", "AUTHENTICATED", "HELD", "LOGOFF", "stay"}
         /\ sBe = "RESPONSE" \/ "eapResp" \in sf => PaeNext \in {"AUTHENTICATING", "LOGOFF", "stay"}
<1>1. SuppTypeOK
  BY DEF SuppInv
<1>2. SUp /\ sPae \in {"RESTART", "AUTHENTICATING", "LOGOFF"}
  BY DEF SuppInv, SAnswering
<1>3. sPae = "AUTHENTICATING" => "suppTimeout" \notin sf
  BY DEF SuppInv, SWaiting
<1>4. sPae = "LOGOFF" => "userLogoff" \in sf
  BY DEF SuppInv, SFlow
<1>5. sBe = "RESPONSE" \/ "eapResp" \in sf => "eapSuccess" \notin sf /\ "eapFail" \notin sf
  BY DEF SuppInv, SAnswering, Fit, SResults
<1> QED BY <1>1, <1>2, <1>3, <1>4, <1>5 DEF PaeNext, SUp
\* The effect of an entry of SUPP_PAE on the flags and timers of the invariant.
PaeEffect(x) ==
  /\ "portEnabled" \in sf' <=> "portEnabled" \in sf
  /\ "userLogoff" \in sf' <=> "userLogoff" \in sf
  /\ "eapReq" \in sf' <=> "eapReq" \in sf
  /\ "eapResp" \in sf' <=> "eapResp" \in sf
  /\ "eapNoResp" \in sf' <=> "eapNoResp" \in sf
  /\ "eapSuccess" \in sf' <=> "eapSuccess" \in sf
  /\ "eapFail" \in sf' <=> "eapFail" \in sf
  /\ "cachedPmk" \in sf' <=> "cachedPmk" \in sf
  /\ "eapolEap" \in sf' <=> "eapolEap" \in sf /\ x # "CONNECTING"
  /\ "eapRestart" \in sf' <=> "eapRestart" \in sf \/ x = "RESTART"
  /\ "suppAbort" \in sf' <=> "suppAbort" \in sf \/ x = "DISCONNECTED"
  /\ "suppStart" \in sf' <=> "suppStart" \in sf \/ x = "AUTHENTICATING"
  /\ x = "AUTHENTICATING" => "suppTimeout" \notin sf'
  /\ x = "LOGOFF" => "logoffSent" \in sf'
  /\ "idleWhile" \in sTmr' <=> "idleWhile" \in sTmr
  /\ x = "HELD" => "heldWhile" \in sTmr'
  /\ sTmr' # {} => sTick' = TRUE

LEMMA PaeEntered ==
  ASSUME SuppInv, NEW x \in PaeStates, PaeEnter(x), PaeEffect(x), SuppTypeOK'
  PROVE  SuppInv'
<1>1. /\ SUp => sch' = TRUE
      /\ spc = "pae" /\ spc' = "be" /\ sPae' = x /\ PaeNext = x
      /\ UNCHANGED <<sBe, sEap, peer, reqData, owed>>
  BY PaeChanges
<1>2. SuppTypeOK /\ SFlow /\ SResults /\ SAnswering /\ SReceiving /\ SStarting /\ SWaiting /\ SOwed
  BY DEF SuppInv
<1>3. (Fit' <=> Fit) /\ (SeenBefore' <=> SeenBefore) /\ (Stale' <=> Stale) /\ (SUp' <=> SUp)
  BY <1>1 DEF Fit, SeenBefore, Duplicate, Stale, SUp, PaeEffect
<1>4. /\ x = "DISCONNECTED" => sBe \notin {"REQUEST", "RESPONSE"}
      /\ x \in {"RESTART", "CONNECTING"} => sBe \notin {"REQUEST", "RESPONSE"}
      /\ sBe = "RESPONSE" \/ (sBe = "REQUEST" /\ "eapResp" \in sf) => x \in {"AUTHENTICATING", "LOGOFF"}
  BY <1>1, PaeAnswering DEF PaeStates
<1>5. "eapRestart" \notin sf /\ "suppAbort" \notin sf
  BY <1>1, <1>2 DEF SFlow
<1>6. SFlow'
  <2>1. x # "DISCONNECTED" => SUp
    BY <1>1, <1>2, PaeFrom
  <2>2. x = "RESTART" => "eapolEap" \in sf
    BY <1>1, <1>2, PaeFrom
  <2>3. x = "LOGOFF" => "userLogoff" \in sf
    BY <1>1, <1>2, PaeFrom
  <2> QED BY <1>1, <1>3, <1>4, <1>5, <2>1, <2>2, <2>3 DEF SFlow, PaeEffect
<1>7. SResults'
  BY <1>1, <1>2, <1>3 DEF SResults, PaeEffect
<1>8. SAnswering'
  BY <1>1, <1>2, <1>3, <1>4, <1>5 DEF SAnswering, PaeEffect
<1>9. SReceiving'
  <2> SUFFICES ASSUME sBe = "RECEIVE", "eapolEap" \in sf
               PROVE  x \in {"RESTART", "AUTHENTICATING", "LOGOFF", "DISCONNECTED"}
    BY <1>1, <1>2, <1>3 DEF SReceiving, PaeEffect
  <2>1. Fit /\ "eapSuccess" \notin sf /\ "eapFail" \notin sf
    BY <1>2 DEF SReceiving, Fit, SResults
  <2>2. /\ sPae = "CONNECTING" => "startWhen" \in sTmr
        /\ sPae = "HELD" => "heldWhile" \in sTmr
        /\ sPae = "AUTHENTICATING" => "suppTimeout" \notin sf
        /\ sPae # "DISCONNECTED"
    BY <1>1, <1>2 DEF SWaiting, SFlow
  <2> QED BY <1>1, <1>2, <2>1, <2>2, PaeFrom DEF PaeStates
<1>a. SStarting'
  <2>1. ASSUME sBe = "IDLE", x = "AUTHENTICATING"
        PROVE  /\ "eapolEap" \in sf \/ "eapSuccess" \in sf \/ "eapFail" \in sf
               /\ "eapolEap" \in sf /\ "eapFail" \notin sf => Fit /\ ("eapResp" \in sf => SeenBefore)
    <3>1. \/ sPae = "CONNECTING" /\ ("eapSuccess" \in sf \/ "eapFail" \in sf)
          \/ sPae = "RESTART" /\ "eapRestart" \notin sf
      BY <1>1, <1>2, <2>1, PaeFrom
    <3>2. CASE sPae = "CONNECTING" /\ ("eapSuccess" \in sf \/ "eapFail" \in sf)
      BY <1>2, <3>2 DEF SWaiting
    <3>3. CASE sPae = "RESTART" /\ "eapRestart" \notin sf
      BY <1>2, <3>3 DEF SStarting, SFlow, SResults
    <3> QED BY <3>1, <3>2, <3>3
  <2>2. sBe = "IDLE" => "suppStart" \notin sf
    BY <1>1, <1>2 DEF SStarting
  <2> QED BY <1>1, <1>3, <1>5, <2>1, <2>2 DEF SStarting, PaeEffect
<1>b. SWaiting'
  BY <1>1 DEF SWaiting, PaeEffect
<1>c. SOwed' /\ STicking' /\ SEnd'
  BY <1>1, <1>2 DEF SOwed, STicking, SEnd, PaeEffect
<1> QED BY <1>6, <1>7, <1>8, <1>9, <1>a, <1>b, <1>c DEF SuppInv
LEMMA PaeStep ==
  ASSUME SuppInv, SuppPae PROVE SuppInv'
<1>t. /\ SuppTypeOK
      /\ sf \subseteq SFlags /\ sTmr \subseteq STimers /\ sTick \in BOOLEAN /\ sPort \in BOOLEAN
      /\ startCount \in 0 .. MaxStart /\ 0 \in 0 .. MaxStart
  BY EapolSuppAssumption DEF SuppInv, SuppTypeOK
<1>k. sTmr # {} => sTick = TRUE
  BY DEF SuppInv, STicking
<1>1. CASE SuppLogoff
  <2>1. PaeEnter("LOGOFF") /\ "LOGOFF" \in PaeStates
    BY <1>1 DEF SuppLogoff, PaeStates
  <2>2. PaeEffect("LOGOFF")
    BY <1>1, <1>k DEF SuppLogoff, PaeEffect
  <2>3. SuppTypeOK'
    BY <1>1, <1>t, <2>1, PaeType DEF SuppLogoff, SFlags, STimers
  <2> QED BY <2>1, <2>2, <2>3, PaeEntered
<1>2. CASE SuppDisconnected
  <2>1. PaeEnter("DISCONNECTED") /\ "DISCONNECTED" \in PaeStates
    BY <1>2 DEF SuppDisconnected, PaeStates
  <2>2. PaeEffect("DISCONNECTED")
    BY <1>2, <1>k DEF SuppDisconnected, PaeEffect
  <2>3. SuppTypeOK'
    BY <1>2, <1>t, <2>1, PaeType DEF SuppDisconnected, SFlags, STimers
  <2> QED BY <2>1, <2>2, <2>3, PaeEntered
<1>3. CASE SuppConnecting
  <2>1. PaeEnter("CONNECTING") /\ "CONNECTING" \in PaeStates
    BY <1>3 DEF SuppConnecting, PaeStates
  <2>a. startCount' \in 0 .. MaxStart
    BY <1>3, <1>t, EapolSuppAssumption DEF SuppConnecting
  <2>2. PaeEffect("CONNECTING")
    BY <1>3, <1>k DEF SuppConnecting, PaeEffect
  <2>b. sf' \subseteq SFlags /\ sTmr' \subseteq STimers /\ sTick' \in BOOLEAN /\ sPort' \in BOOLEAN
    BY <1>3, <1>t DEF SuppConnecting, SFlags, STimers
  <2>3. SuppTypeOK'
    BY <1>t, <2>1, <2>a, <2>b, PaeType
  <2> QED BY <2>1, <2>2, <2>3, PaeEntered
<1>4. CASE SuppAuthenticating
  <2>1. PaeEnter("AUTHENTICATING") /\ "AUTHENTICATING" \in PaeStates
    BY <1>4 DEF SuppAuthenticating, PaeStates
  <2>2. PaeEffect("AUTHENTICATING")
    BY <1>4, <1>k DEF SuppAuthenticating, PaeEffect
  <2>3. SuppTypeOK'
    BY <1>4, <1>t, <2>1, PaeType DEF SuppAuthenticating, SFlags, STimers
  <2> QED BY <2>1, <2>2, <2>3, PaeEntered
<1>5. CASE SuppHeld
  <2>1. PaeEnter("HELD") /\ "HELD" \in PaeStates
    BY <1>5 DEF SuppHeld, PaeStates
  <2>2. PaeEffect("HELD")
    BY <1>5, <1>k DEF SuppHeld, PaeEffect
  <2>3. SuppTypeOK'
    BY <1>5, <1>t, <2>1, PaeType DEF SuppHeld, SFlags, STimers
  <2> QED BY <2>1, <2>2, <2>3, PaeEntered
<1>6. CASE SuppAuthenticated
  <2>1. PaeEnter("AUTHENTICATED") /\ "AUTHENTICATED" \in PaeStates
    BY <1>6 DEF SuppAuthenticated, PaeStates
  <2>2. PaeEffect("AUTHENTICATED")
    BY <1>6, <1>k DEF SuppAuthenticated, PaeEffect
  <2>3. SuppTypeOK'
    BY <1>6, <1>t, <2>1, PaeType DEF SuppAuthenticated, SFlags, STimers
  <2> QED BY <2>1, <2>2, <2>3, PaeEntered
<1>7. CASE SuppRestart
  <2>1. PaeEnter("RESTART") /\ "RESTART" \in PaeStates
    BY <1>7 DEF SuppRestart, PaeStates
  <2>2. PaeEffect("RESTART")
    BY <1>7, <1>k DEF SuppRestart, PaeEffect
  <2>3. SuppTypeOK'
    BY <1>7, <1>t, <2>1, PaeType DEF SuppRestart, SFlags, STimers
  <2> QED BY <2>1, <2>2, <2>3, PaeEntered
<1> QED
  BY <1>1, <1>2, <1>3, <1>4, <1>5, <1>6, <1>7 DEF SuppPae

-----------------------------------------------------------------------------
(* SUPP_BE.                                                                    *)

BeStates == {"REQUEST", "RESPONSE", "SUCCESS", "FAIL", "TIMEOUT", "IDLE",
             "INITIALIZE", "RECEIVE"}

\* The loop reaches SUPP_BE from SUPP_PAE, or because SUPP_PAE stays.
LEMMA AtBeFacts ==
  ASSUME SuppInv, AtBe
  PROVE  /\ spc \in {"pae", "be"}
         /\ spc = "pae" => PaeNext = "stay" /\ sPae # "DISCONNECTED"
         /\ ~SUp => "suppAbort" \in sf
         /\ sPae = "DISCONNECTED" => "suppAbort" \in sf
         /\ sPae = "RESTART" => "eapRestart" \in sf /\ spc = "be"
         /\ sPae = "LOGOFF" => "userLogoff" \in sf
         /\ sPae = "CONNECTING" => "eapolEap" \notin sf
         /\ sPae = "AUTHENTICATING" => "suppTimeout" \notin sf
         /\ "eapolEap" \in sf => sPae \notin {"HELD", "AUTHENTICATED"} \/ spc = "be"
<1>1. SuppTypeOK /\ SFlow /\ SWaiting
  BY DEF SuppInv
<1>2. spc \in {"pae", "be"} /\ (spc = "pae" => PaeNext = "stay")
  BY DEF AtBe
<1>3. CASE spc = "pae"
  BY <1>1, <1>2, <1>3, PaeStay DEF SFlow
<1>4. CASE spc = "be"
  BY <1>1, <1>4 DEF SFlow, SWaiting
<1> QED BY <1>2, <1>3, <1>4

\* What SM_STEP(SUPP_BE) requires of the state it enters.
LEMMA BeFrom ==
  ASSUME SuppInv, AtBe
  PROVE  /\ BeNext = "INITIALIZE" <=> "suppAbort" \in sf
         /\ BeNext = "REQUEST" =>
              /\ "eapolEap" \in sf
              /\ sBe = "RECEIVE" \/ (sBe = "IDLE" /\ "suppStart" \in sf /\ "eapFail" \notin sf)
         /\ BeNext = "RESPONSE" => sBe = "REQUEST" /\ "eapResp" \in sf
         /\ BeNext = "SUCCESS" =>
              "eapSuccess" \in sf /\ sBe \in {"IDLE", "RECEIVE"} /\ "eapolEap" \notin sf
         /\ BeNext = "FAIL" => "eapFail" \in sf /\ sBe \in {"IDLE", "RECEIVE"}
         /\ BeNext = "TIMEOUT" => sBe = "RECEIVE"
         /\ BeNext = "IDLE" => sBe \in {"SUCCESS", "FAIL", "TIMEOUT", "INITIALIZE"}
         /\ BeNext = "RECEIVE" =>
              sBe = "RESPONSE" \/ (sBe = "REQUEST" /\ "eapResp" \notin sf)
         /\ BeNext = "stay" =>
              \/ sBe = "IDLE" /\ "suppStart" \notin sf
              \/ /\ sBe = "RECEIVE" /\ "eapolEap" \notin sf /\ "eapFail" \notin sf
                 /\ "eapSuccess" \notin sf
<1>1. sBe \in BeStates
  BY DEF SuppInv, SuppTypeOK, BeStates
<1>2. spc \in {"pae", "be"}
  BY DEF AtBe
<1>3. sBe = "REQUEST" => "eapResp" \in sf \/ "eapNoResp" \in sf
  BY <1>2 DEF SuppInv, SAnswering
<1>4. sBe = "IDLE" /\ "suppStart" \in sf =>
        "eapolEap" \in sf \/ "eapSuccess" \in sf \/ "eapFail" \in sf
  BY DEF SuppInv, SStarting
<1> QED BY <1>1, <1>3, <1>4 DEF BeNext, BeStates

LEMMA BeType ==
  ASSUME SuppTypeOK, NEW x \in BeStates, BeEnter(x), sf' \subseteq SFlags,
         sTmr' \subseteq STimers, sTick' \in BOOLEAN, owed' \in BOOLEAN,
         reqData' \in ToSuppFrames \cup {None},
         peer' \in [sel : {"none", "m"}, meth : {"NONE", "MAY_CONT", "DONE"},
               dec : Decisions, lastId : Ids \cup {-1},
               lastReq : Requests \cup {None},
               lastResp : Responses \cup {None}, resp : Responses \cup {None},
               key : Nonces \cup {None}]
  PROVE  SuppTypeOK'
BY DEF SuppTypeOK, BeEnter, BeStates

\* The position of the loop after SUPP_BE has entered a state.
LEMMA BeFlow ==
  ASSUME SuppInv, NEW x \in BeStates, BeEnter(x), x # "INITIALIZE",
         \A g \in {"portEnabled", "eapRestart", "suppAbort", "logoffSent", "userLogoff"} :
            g \in sf' <=> g \in sf,
         "eapolEap" \in sf' <=> "eapolEap" \in sf /\ x # "RECEIVE"
  PROVE  SFlow' /\ SEnd' /\ SUp /\ SUp' /\ "suppAbort" \notin sf
<1>1. /\ AtBe /\ BeNext = x /\ spc' = "eap" /\ sch' = (sch \/ sBe # x) /\ sBe' = x
      /\ sPae' = sPae /\ sEap' = sEap
  BY DEF BeEnter
<1>2. SuppTypeOK /\ SFlow /\ SAnswering
  BY DEF SuppInv
<1>3. "suppAbort" \notin sf
  BY <1>1, BeFrom
<1>4. /\ SUp /\ sPae # "DISCONNECTED"
      /\ sPae = "LOGOFF" => "userLogoff" \in sf
      /\ sPae = "RESTART" => "eapRestart" \in sf
      /\ spc \in {"pae", "be"}
  BY <1>1, <1>3, AtBeFacts
<1>5. sBe # x
  BY <1>1, BeFrom DEF BeStates
<1>6. sch' = TRUE
  BY <1>1, <1>2, <1>5 DEF SuppTypeOK
<1>7. /\ "portEnabled" \in sf' <=> "portEnabled" \in sf
      /\ "eapRestart" \in sf' <=> "eapRestart" \in sf
      /\ "suppAbort" \in sf' <=> "suppAbort" \in sf
      /\ "logoffSent" \in sf' <=> "logoffSent" \in sf
      /\ "userLogoff" \in sf' <=> "userLogoff" \in sf
  OBVIOUS
<1>8. x = "RECEIVE" => sPae # "RESTART"
  BY <1>1, <1>2, <1>4, BeFrom DEF SAnswering
<1>9. SUp'
  BY <1>4, <1>7 DEF SUp
<1>a. SFlow'
  BY <1>1, <1>2, <1>3, <1>4, <1>6, <1>7, <1>8, <1>9 DEF SFlow
<1>b. SEnd'
  BY <1>1 DEF SEnd
<1> QED BY <1>3, <1>4, <1>9, <1>a, <1>b
LEMMA BeStep ==
  ASSUME SuppInv, SuppBe PROVE SuppInv'
<1>t. /\ sf \subseteq SFlags /\ sTmr \subseteq STimers /\ sTick \in BOOLEAN /\ owed \in BOOLEAN
      /\ reqData \in ToSuppFrames \cup {None}
      /\ peer \in [sel : {"none", "m"}, meth : {"NONE", "MAY_CONT", "DONE"},
               dec : Decisions, lastId : Ids \cup {-1},
               lastReq : Requests \cup {None},
               lastResp : Responses \cup {None}, resp : Responses \cup {None},
               key : Nonces \cup {None}]
  BY DEF SuppInv, SuppTypeOK
<1>p. /\ SuppTypeOK /\ SFlow /\ SResults /\ SAnswering /\ SReceiving /\ SStarting /\ SWaiting
      /\ SOwed /\ STicking
  BY DEF SuppInv
<1>e. ASSUME NEW x, BeEnter(x)
      PROVE  /\ AtBe /\ BeNext = x /\ spc' = "eap" /\ sBe' = x /\ sPae' = sPae /\ sEap' = sEap
             /\ spc \in {"pae", "be"}
             /\ spc = "pae" => PaeNext = "stay" /\ sPae # "DISCONNECTED"
             /\ sPae = "DISCONNECTED" => "suppAbort" \in sf
             /\ sPae = "RESTART" => "eapRestart" \in sf /\ spc = "be"
             /\ sPae = "CONNECTING" => "eapolEap" \notin sf
             /\ sPae = "AUTHENTICATING" => "suppTimeout" \notin sf
             /\ "eapolEap" \in sf => sPae \notin {"HELD", "AUTHENTICATED"} \/ spc = "be"
  BY <1>e, AtBeFacts DEF BeEnter
<1>1. CASE SuppBeRequest
  <2>1. /\ BeEnter("REQUEST") /\ sTmr' = sTmr \ {"authWhile"} /\ sf' = sf \cup {"eapReq"}
        /\ UNCHANGED <<sTick, peer, reqData, owed>>
    BY <1>1 DEF SuppBeRequest
  <2>2. SuppTypeOK'
    BY <1>p, <1>t, <2>1, BeType DEF BeStates, SFlags
  <2>3. SFlow' /\ SEnd' /\ SUp' /\ "suppAbort" \notin sf
    BY <2>1, BeFlow DEF BeStates
  <2>4. /\ "eapolEap" \in sf
        /\ sBe = "RECEIVE" \/ (sBe = "IDLE" /\ "suppStart" \in sf /\ "eapFail" \notin sf)
    BY <1>e, <2>1, BeFrom
  <2>5. Fit /\ ("eapResp" \in sf => SeenBefore)
    BY <1>p, <2>4 DEF SReceiving, SStarting
  <2>6. sPae \in {"RESTART", "AUTHENTICATING", "LOGOFF"}
    <3>1. CASE sBe = "IDLE"
      BY <1>p, <2>4, <3>1 DEF SStarting
    <3>2. CASE sBe = "RECEIVE" /\ spc = "be"
      BY <1>e, <1>p, <2>1, <2>3, <2>4, <3>2 DEF SReceiving
    <3>3. CASE spc = "pae"
      BY <1>e, <1>p, <2>1, <2>3, <2>4, <3>3 DEF SuppTypeOK
    <3> QED BY <1>e, <2>1, <2>4, <3>1, <3>2, <3>3
  <2>7. Fit' /\ (SeenBefore' <=> SeenBefore)
    BY <1>e, <2>1, <2>5 DEF Fit, Stale, SeenBefore, Duplicate
  <2>8. SResults'
    BY <1>e, <1>p, <2>1, <2>5 DEF SResults, Fit, Stale
  <2>9. SAnswering'
    BY <1>e, <2>1, <2>3, <2>5, <2>6, <2>7 DEF SAnswering
  <2>a. SReceiving' /\ SStarting'
    BY <1>e, <2>1 DEF SReceiving, SStarting
  <2>b. SWaiting'
    BY <1>e, <1>p, <2>1 DEF SWaiting
  <2>c. SOwed' /\ STicking'
    BY <1>p, <2>1, <2>4 DEF SOwed, STicking
  <2> QED BY <2>2, <2>3, <2>8, <2>9, <2>a, <2>b, <2>c DEF SuppInv
<1>2. CASE SuppBeResponse
  <2>1. /\ BeEnter("RESPONSE") /\ owed' = (IF peer.resp = None THEN owed ELSE FALSE)
        /\ peer' = [peer EXCEPT !.resp = None]
        /\ sf' = sf \ {"eapResp"} /\ UNCHANGED <<sTmr, sTick, reqData>>
    BY <1>2 DEF SuppBeResponse
  <2>2. SuppTypeOK'
    <3>1. owed' \in BOOLEAN /\ sf' \subseteq SFlags
      BY <1>t, <2>1
    <3>2. peer' \in [sel : {"none", "m"}, meth : {"NONE", "MAY_CONT", "DONE"},
               dec : Decisions, lastId : Ids \cup {-1},
               lastReq : Requests \cup {None},
               lastResp : Responses \cup {None}, resp : Responses \cup {None},
               key : Nonces \cup {None}]
      BY <1>t, <2>1
    <3> QED BY <1>p, <1>t, <2>1, <3>1, <3>2, BeType DEF BeStates
  <2>3. SFlow' /\ SEnd' /\ SUp'
    BY <2>1, BeFlow DEF BeStates
  <2>4. sBe = "REQUEST" /\ "eapResp" \in sf
    BY <1>e, <2>1, BeFrom
  <2>5. /\ Fit /\ "eapReq" \notin sf /\ "eapRestart" \notin sf
        /\ sPae \in {"RESTART", "AUTHENTICATING", "LOGOFF"}
    BY <1>e, <1>p, <2>1, <2>4 DEF SAnswering
  <2>6. /\ peer'.lastReq = peer.lastReq /\ peer'.lastResp = peer.lastResp
        /\ peer'.dec = peer.dec /\ peer'.resp = None
    BY <1>t, <2>1
  <2>7. Fit' /\ (Stale' <=> Stale)
    BY <1>e, <2>1, <2>5, <2>6 DEF Fit, Stale
  <2>8. SResults'
    BY <1>e, <1>p, <2>1, <2>5, <2>6, <2>7 DEF SResults, Fit
  <2>9. SAnswering' /\ SReceiving'
    BY <1>e, <2>1, <2>3, <2>5, <2>7 DEF SAnswering, SReceiving
  <2>a. SStarting' /\ SWaiting'
    BY <1>e, <1>p, <2>1, <2>5 DEF SStarting, SWaiting
  <2>b. SOwed' /\ STicking'
    BY <1>e, <1>p, <2>1, <2>5, <2>6 DEF SOwed, STicking
  <2> QED BY <2>2, <2>3, <2>8, <2>9, <2>a, <2>b DEF SuppInv
<1>3. ASSUME NEW x \in {"SUCCESS", "FAIL"}, BeEnter(x),
             UNCHANGED <<sf, sTmr, sTick, peer, reqData, owed>>
      PROVE  SuppInv'
  <2>2. SuppTypeOK'
    BY <1>p, <1>t, <1>3, BeType DEF BeStates
  <2>3. SFlow' /\ SEnd'
    BY <1>3, BeFlow DEF BeStates
  <2>4. /\ sBe \in {"IDLE", "RECEIVE"}
        /\ x = "SUCCESS" => "eapSuccess" \in sf
        /\ x = "FAIL" => "eapFail" \in sf
    BY <1>e, <1>3, BeFrom
  <2>5. Stale' <=> Stale
    BY <1>3 DEF Stale
  <2>6. SResults'
    BY <1>e, <1>p, <1>3, <2>4, <2>5 DEF SResults
  <2>7. SAnswering' /\ SReceiving' /\ SStarting'
    BY <1>e, <1>3 DEF SAnswering, SReceiving, SStarting
  <2>8. SWaiting' /\ SOwed' /\ STicking'
    BY <1>e, <1>p, <1>3, <2>4 DEF SWaiting, SOwed, STicking
  <2> QED BY <2>2, <2>3, <2>6, <2>7, <2>8 DEF SuppInv
<1>4. CASE SuppBeTimeout
  <2>1. /\ BeEnter("TIMEOUT") /\ sf' = sf \cup {"suppTimeout"}
        /\ UNCHANGED <<sTmr, sTick, peer, reqData, owed>>
    BY <1>4 DEF SuppBeTimeout
  <2>2. SuppTypeOK'
    BY <1>p, <1>t, <2>1, BeType DEF BeStates, SFlags
  <2>3. SFlow' /\ SEnd'
    BY <2>1, BeFlow DEF BeStates
  <2>4. sBe = "RECEIVE"
    BY <1>e, <2>1, BeFrom
  <2>5. Stale' <=> Stale
    BY <2>1 DEF Stale
  <2>6. SResults'
    BY <1>e, <1>p, <2>1, <2>4, <2>5 DEF SResults
  <2>7. SAnswering' /\ SReceiving' /\ SStarting'
    BY <1>e, <2>1 DEF SAnswering, SReceiving, SStarting
  <2>8. SWaiting' /\ SOwed' /\ STicking'
    BY <1>e, <1>p, <2>1, <2>4 DEF SWaiting, SOwed, STicking
  <2> QED BY <2>2, <2>3, <2>6, <2>7, <2>8 DEF SuppInv
<1>5. CASE SuppBeIdle
  <2>1. /\ BeEnter("IDLE") /\ sf' = sf \ {"suppStart"}
        /\ UNCHANGED <<sTmr, sTick, peer, reqData, owed>>
    BY <1>5 DEF SuppBeIdle
  <2>2. SuppTypeOK'
    BY <1>p, <1>t, <2>1, BeType DEF BeStates
  <2>3. SFlow' /\ SEnd'
    BY <2>1, BeFlow DEF BeStates
  <2>4. sBe \in {"SUCCESS", "FAIL", "TIMEOUT", "INITIALIZE"}
    BY <1>e, <2>1, BeFrom
  <2>5. Stale' <=> Stale
    BY <2>1 DEF Stale
  <2>6. SResults'
    BY <1>e, <1>p, <2>1, <2>4, <2>5 DEF SResults
  <2>7. SAnswering' /\ SReceiving' /\ SStarting'
    BY <1>e, <2>1 DEF SAnswering, SReceiving, SStarting
  <2>8. SWaiting' /\ SOwed' /\ STicking'
    BY <1>e, <1>p, <2>1, <2>4 DEF SWaiting, SOwed, STicking
  <2> QED BY <2>2, <2>3, <2>6, <2>7, <2>8 DEF SuppInv
<1>6. CASE SuppBeInitialize
  <2>1. /\ BeEnter("INITIALIZE") /\ reqData' = None
        /\ peer' = [peer EXCEPT !.lastResp = None, !.resp = None, !.key = None]
        /\ sf' = sf \ {"suppAbort", "eapSuccess"}
        /\ sTmr' = sTmr \ {"authWhile"} /\ UNCHANGED <<sTick, owed>>
    BY <1>6 DEF SuppBeInitialize
  <2>2. SuppTypeOK'
    <3>1. peer' \in [sel : {"none", "m"}, meth : {"NONE", "MAY_CONT", "DONE"},
               dec : Decisions, lastId : Ids \cup {-1},
               lastReq : Requests \cup {None},
               lastResp : Responses \cup {None}, resp : Responses \cup {None},
               key : Nonces \cup {None}]
      BY <1>t, <2>1
    <3> QED BY <1>p, <1>t, <2>1, <3>1, BeType DEF BeStates
  <2>3. spc = "be" /\ sPae = "DISCONNECTED" /\ sBe \notin {"REQUEST", "RESPONSE"}
    BY <1>e, <1>p, <2>1, BeFrom DEF SFlow
  <2>4. SUp => sch' = TRUE
    BY <1>p, <2>1, <2>3 DEF SFlow, SuppTypeOK, BeEnter
  <2>5. SFlow' /\ SEnd'
    BY <1>e, <1>p, <2>1, <2>3, <2>4 DEF SFlow, SEnd, SUp
  <2>6. peer'.dec = peer.dec /\ peer'.resp = None
    BY <1>t, <2>1
  <2>7. SResults'
    BY <1>e, <1>p, <2>1, <2>6 DEF SResults
  <2>8. SAnswering' /\ SReceiving' /\ SStarting' /\ SWaiting'
    BY <1>e, <2>1, <2>3 DEF SAnswering, SReceiving, SStarting, SWaiting
  <2>9. SOwed' /\ STicking'
    BY <1>p, <2>1, <2>3, <2>6 DEF SOwed, STicking
  <2> QED BY <2>2, <2>5, <2>7, <2>8, <2>9 DEF SuppInv
<1>7. CASE SuppBeReceive
  <2>1. /\ BeEnter("RECEIVE") /\ sTmr' = sTmr \cup {"authWhile"} /\ sTick' = TRUE
        /\ sf' = sf \ {"eapolEap", "eapNoResp"} /\ UNCHANGED <<peer, reqData, owed>>
    BY <1>7 DEF SuppBeReceive
  <2>2. SuppTypeOK'
    BY <1>p, <1>t, <2>1, BeType DEF BeStates, STimers
  <2>3. SFlow' /\ SEnd'
    BY <2>1, BeFlow DEF BeStates
  <2>4. sBe = "RESPONSE" \/ (sBe = "REQUEST" /\ "eapResp" \notin sf)
    BY <1>e, <2>1, BeFrom
  <2>5. "eapReq" \notin sf /\ "eapResp" \notin sf /\ "eapRestart" \notin sf
    BY <1>e, <1>p, <2>1, <2>4 DEF SAnswering
  <2>6. Stale' <=> Stale
    BY <2>1 DEF Stale
  <2>7. SResults'
    BY <1>e, <1>p, <2>1, <2>4, <2>6 DEF SResults
  <2>8. SAnswering' /\ SReceiving' /\ SStarting'
    BY <1>e, <2>1, <2>5 DEF SAnswering, SReceiving, SStarting
  <2>9. SWaiting' /\ SOwed' /\ STicking'
    BY <1>e, <1>p, <2>1, <2>4 DEF SWaiting, SOwed, STicking
  <2> QED BY <2>2, <2>3, <2>7, <2>8, <2>9 DEF SuppInv
<1>8. CASE SuppBeDone
  BY <1>3, <1>8 DEF SuppBeDone
<1> QED BY <1>1, <1>2, <1>4, <1>5, <1>6, <1>7, <1>8 DEF SuppBe

-----------------------------------------------------------------------------
(* The EAP peer.                                                               *)

\* The loop reaches the EAP peer from SUPP_BE, or because SUPP_BE stays: it then
\* has no packet to hand over.
LEMMA AtEapFacts ==
  ASSUME SuppInv, AtEap
  PROVE  /\ spc # "idle" /\ "suppAbort" \notin sf
         /\ ~SUp => spc = "eap"
         /\ sPae = "DISCONNECTED" => sBe = "INITIALIZE"
         /\ spc = "be" => SUp /\ sch = TRUE
         /\ sPae = "RESTART" => spc \in {"be", "eap"}
         /\ sPae = "LOGOFF" => "userLogoff" \in sf
         /\ sPae = "CONNECTING" => "eapolEap" \notin sf
         /\ sBe = "RECEIVE" => "eapolEap" \notin sf /\ "eapReq" \notin sf
         /\ sBe = "IDLE" => "suppStart" \notin sf
         /\ sBe \in {"REQUEST", "RESPONSE"} => spc = "eap"
         /\ spc = "pae" => /\ PaeNext = "stay" /\ sBe \in {"IDLE", "RECEIVE"}
                           /\ sBe = "RECEIVE" => "eapFail" \notin sf /\ "eapSuccess" \notin sf
<1>p. /\ SuppTypeOK /\ SFlow /\ SReceiving /\ SStarting /\ SWaiting
  BY DEF SuppInv
<1>1. CASE spc = "eap"
  BY <1>p, <1>1 DEF SFlow, SReceiving, SStarting, SWaiting
<1>2. CASE spc # "eap"
  <2>1. AtBe /\ BeNext = "stay"
    BY <1>2 DEF AtEap
  <2>2. \/ sBe = "IDLE" /\ "suppStart" \notin sf
        \/ /\ sBe = "RECEIVE" /\ "eapolEap" \notin sf /\ "eapFail" \notin sf
           /\ "eapSuccess" \notin sf
    BY <2>1, BeFrom
  <2>3. "suppAbort" \notin sf
    BY <2>1, BeFrom
  <2>4. /\ spc \in {"pae", "be"}
        /\ spc = "pae" => PaeNext = "stay"
        /\ ~SUp => "suppAbort" \in sf
        /\ sPae = "DISCONNECTED" => "suppAbort" \in sf
        /\ sPae = "RESTART" => spc = "be"
        /\ sPae = "LOGOFF" => "userLogoff" \in sf
        /\ sPae = "CONNECTING" => "eapolEap" \notin sf
    BY <2>1, AtBeFacts
  <2> QED BY <1>p, <2>2, <2>3, <2>4 DEF SFlow, SReceiving
<1> QED BY <1>1, <1>2

LEMMA EapType ==
  ASSUME SuppTypeOK, NEW x \in {"DISABLED", "IDLE", "SUCCESS", "FAILURE"}, EapPass(x),
         sf' \subseteq SFlags, sTmr' \subseteq STimers, sTick' \in BOOLEAN,
         peer' \in [sel : {"none", "m"}, meth : {"NONE", "MAY_CONT", "DONE"},
               dec : Decisions, lastId : Ids \cup {-1},
               lastReq : Requests \cup {None},
               lastResp : Responses \cup {None}, resp : Responses \cup {None},
               key : Nonces \cup {None}]
  PROVE  SuppTypeOK'
BY DEF SuppTypeOK, EapPass

\* A pass of the EAP peer leaves the loop with the EAP peer.
LEMMA EapFlow ==
  ASSUME SuppInv, AtEap, NEW x, EapPass(x),
         \A g \in {"portEnabled", "suppAbort", "logoffSent", "userLogoff", "eapolEap"} :
            g \in sf' <=> g \in sf,
         "eapRestart" \in sf' => "eapRestart" \in sf,
         ~SUp => sf' = sf
  PROVE  SFlow' /\ SEnd'
<1>1. spc' = "eap" /\ sch' = TRUE /\ sEap' = x /\ UNCHANGED <<sPae, sBe, reqData>>
  BY DEF EapPass
<1>2. /\ "portEnabled" \in sf' <=> "portEnabled" \in sf
      /\ "suppAbort" \in sf' <=> "suppAbort" \in sf
      /\ "logoffSent" \in sf' <=> "logoffSent" \in sf
      /\ "userLogoff" \in sf' <=> "userLogoff" \in sf
      /\ "eapolEap" \in sf' <=> "eapolEap" \in sf
  OBVIOUS
<1>3. /\ spc # "idle" /\ "suppAbort" \notin sf
      /\ ~SUp => spc = "eap"
      /\ sPae = "DISCONNECTED" => sBe = "INITIALIZE"
      /\ sPae = "LOGOFF" => "userLogoff" \in sf
  BY AtEapFacts
<1>4. SFlow'
  BY <1>1, <1>2, <1>3 DEF SuppInv, SFlow, SUp
<1>5. SEnd'
  BY <1>1 DEF SEnd
<1> QED BY <1>4, <1>5

\* What SUPP_PAE waits for is not the business of the EAP peer.
LEMMA EapWaiting ==
  ASSUME SuppInv, AtEap, NEW x, EapPass(x),
         \A g \in {"eapolEap", "suppTimeout"} : g \in sf' <=> g \in sf,
         "heldWhile" \in sTmr' <=> "heldWhile" \in sTmr
  PROVE  SWaiting'
<1>1. spc' = "eap" /\ UNCHANGED <<sPae, sBe>>
  BY DEF EapPass
<1>2. /\ "eapolEap" \in sf' <=> "eapolEap" \in sf
      /\ "suppTimeout" \in sf' <=> "suppTimeout" \in sf
  OBVIOUS
<1>3. sPae = "CONNECTING" => "eapolEap" \notin sf
  BY AtEapFacts
<1> QED BY <1>1, <1>2, <1>3 DEF SuppInv, SWaiting
\* The type of the EAP peer's session data.
Sessions == [sel : {"none", "m"}, meth : {"NONE", "MAY_CONT", "DONE"},
               dec : Decisions, lastId : Ids \cup {-1},
               lastReq : Requests \cup {None},
               lastResp : Responses \cup {None}, resp : Responses \cup {None},
               key : Nonces \cup {None}]

\* A packet is consumed without a response, or the Authenticator is given up.
LEMMA NoResponseStep ==
  ASSUME SuppInv, EapIdle, NEW x \in {"IDLE", "SUCCESS", "FAILURE"}, NEW flags,
         EapNoResponse(x, flags),
         flags = IF x = "IDLE" THEN {} ELSE IF x = "SUCCESS" THEN {"eapSuccess"} ELSE {"eapFail"},
         peer' \in Sessions, peer'.resp \in {None, peer.resp},
         peer'.lastReq = peer.lastReq, peer'.lastResp = peer.lastResp, peer'.lastId = peer.lastId,
         reqData = None => peer'.dec = peer.dec,
         "eapReq" \in sf /\ "eapResp" \in sf => ~SeenBefore,
         "eapReq" \notin sf => "idleWhile" \notin sTmr,
         x = "SUCCESS" => peer.dec # "FAIL"
  PROVE  SuppInv'
<1>p. /\ SuppTypeOK /\ SFlow /\ SResults /\ SAnswering /\ SReceiving /\ SStarting /\ SWaiting
      /\ SOwed /\ STicking
  BY DEF SuppInv
<1>1. /\ spc' = "eap" /\ sEap' = x /\ UNCHANGED <<sPae, sBe, reqData, owed, sTmr, sTick>>
      /\ sf' = (sf \ {"eapReq"}) \cup {"eapNoResp"} \cup flags
      /\ EapPass(x)
  BY DEF EapNoResponse, EapPass
<1>2. AtEap /\ SUp /\ "eapRestart" \notin sf /\ sEap = "IDLE"
  BY DEF EapIdle, SUp
<1>3. /\ \A g \in SFlags \ {"eapReq", "eapNoResp", "eapSuccess", "eapFail"} : g \in sf' <=> g \in sf
      /\ "eapSuccess" \in sf' <=> "eapSuccess" \in sf \/ x = "SUCCESS"
      /\ "eapFail" \in sf' <=> "eapFail" \in sf \/ x = "FAILURE"
      /\ "eapReq" \notin sf' /\ "eapNoResp" \in sf'
  BY <1>1
<1>4. /\ "portEnabled" \in sf' <=> "portEnabled" \in sf
      /\ "suppAbort" \in sf' <=> "suppAbort" \in sf
      /\ "logoffSent" \in sf' <=> "logoffSent" \in sf
      /\ "userLogoff" \in sf' <=> "userLogoff" \in sf
      /\ "eapolEap" \in sf' <=> "eapolEap" \in sf
      /\ "eapRestart" \in sf' <=> "eapRestart" \in sf
      /\ "eapResp" \in sf' <=> "eapResp" \in sf
      /\ "suppTimeout" \in sf' <=> "suppTimeout" \in sf
      /\ "suppStart" \in sf' <=> "suppStart" \in sf
      /\ "cachedPmk" \in sf' <=> "cachedPmk" \in sf
  BY <1>3 DEF SFlags
<1>5. SuppTypeOK'
  <2>1. sf' \subseteq SFlags /\ sTmr' \subseteq STimers /\ sTick' \in BOOLEAN
    BY <1>p, <1>1 DEF SuppTypeOK, SFlags
  <2> QED BY <1>p, <1>1, <2>1, EapType DEF Sessions
<1>6. SFlow' /\ SEnd'
  BY <1>1, <1>2, <1>4, EapFlow
<1>7. SWaiting'
  BY <1>1, <1>2, <1>4, EapWaiting
<1>8. (Stale' <=> Stale) /\ (SeenBefore' <=> SeenBefore)
  BY <1>1 DEF Stale, SeenBefore, Duplicate
<1>9. /\ sBe = "RECEIVE" => "eapolEap" \notin sf /\ "eapReq" \notin sf
      /\ sBe = "IDLE" => "suppStart" \notin sf
  BY <1>2, AtEapFacts
<1>a. "cachedPmk" \in sf => x # "SUCCESS" /\ "eapSuccess" \notin sf /\ reqData = None
                           /\ peer'.dec = "FAIL"
  BY <1>p, <1>2 DEF SResults
<1>b. SResults'
  BY <1>p, <1>1, <1>2, <1>3, <1>4, <1>8, <1>a DEF SResults
<1>c. sBe = "REQUEST" => "eapResp" \notin sf
  BY <1>p DEF SAnswering, Fit
<1>d. sBe # "RESPONSE"
  BY <1>p DEF SAnswering, Fit
<1>e. SAnswering'
  <2>1. sBe = "REQUEST" => spc = "eap" /\ SUp'
    BY <1>2, <1>4, AtEapFacts DEF SUp
  <2> QED BY <1>p, <1>1, <1>3, <1>4, <1>2, <1>c, <1>d, <2>1 DEF SAnswering
<1>f. SReceiving'
  BY <1>p, <1>1, <1>3, <1>4, <1>9 DEF SReceiving
<1>g. SStarting'
  <2>1. ASSUME sPae = "RESTART"
        PROVE  x = "FAILURE" \/ (Fit' /\ ("eapResp" \in sf' => SeenBefore'))
    <3>1. Fit /\ ("eapReq" \in sf => peer = NoSession) /\ ("eapResp" \in sf => SeenBefore)
      BY <1>p, <1>2, <2>1 DEF SStarting
    <3>2. peer = NoSession
      BY <3>1 DEF Fit
    <3>3. x # "SUCCESS"
      BY <3>2 DEF NoSession
    <3> QED BY <1>1, <1>3, <1>4, <1>8, <3>1, <3>3 DEF Fit
  <2> QED BY <1>1, <1>2, <1>3, <1>4, <1>9, <2>1 DEF SStarting
<1>h. SOwed' /\ STicking'
  BY <1>p, <1>1, <1>3, <1>4 DEF SOwed, STicking
<1> QED BY <1>5, <1>6, <1>7, <1>b, <1>e, <1>f, <1>g, <1>h DEF SuppInv

\* The request is answered, or is a duplicate whose response has been freed.
LEMMA ResponseStep ==
  ASSUME SuppInv, Received("Req"), NEW p \in Sessions, NEW r, SendResponse(p, r),
         p.lastReq = peer.lastReq, p.lastId = peer.lastId,
         \/ r \in Responses
         \/ r = None /\ Duplicate /\ peer.lastResp = None
  PROVE  SuppInv'
<1>p. /\ SuppTypeOK /\ SFlow /\ SResults /\ SAnswering /\ SReceiving /\ SStarting /\ SWaiting
      /\ SOwed /\ STicking
  BY DEF SuppInv
<1>1. /\ spc' = "eap" /\ sEap' = "IDLE" /\ UNCHANGED <<sPae, sBe, reqData, owed>>
      /\ sf' = (sf \ {"eapReq"}) \cup (IF r = None THEN {} ELSE {"eapResp"})
      /\ sTmr' = sTmr \cup {"idleWhile"} /\ sTick' = TRUE
      /\ EapPass("IDLE")
      /\ peer' = IF r = None THEN [p EXCEPT !.resp = None, !.lastResp = None]
              ELSE [p EXCEPT !.resp = r, !.lastResp = r,
                             !.lastId = reqData.id, !.lastReq = reqData]
  BY DEF SendResponse, EapPass
<1>2. /\ AtEap /\ SUp /\ "eapRestart" \notin sf /\ sEap = "IDLE"
      /\ "eapReq" \in sf /\ reqData # None /\ reqData.t = "Req"
  BY DEF Received, EapIdle, SUp
<1>3. reqData \in Requests /\ reqData.id \in Ids
  <2>1. reqData \in ToSuppFrames
    BY <1>p, <1>2 DEF SuppTypeOK
  <2>2. reqData \in Requests
    BY <1>2, <2>1 DEF ToSuppFrames, Success, Failure, Frame
  <2> QED BY <2>2 DEF Requests, Frame
<1>4. r = None <=> r \notin Responses
  BY NoneAssumption DEF ToAuthFrames
<1>5. /\ peer' \in Sessions
      /\ r # None => peer'.lastReq = reqData /\ peer'.lastId = reqData.id /\ peer'.lastResp = r
      /\ r = None => peer'.lastReq = peer.lastReq /\ peer'.lastResp = None
      /\ peer'.resp = r
  <2>1. CASE r = None
    BY <1>1, <2>1 DEF Sessions
  <2>2. CASE r # None
    BY <1>1, <1>3, <1>4, <2>2 DEF Sessions
  <2> QED BY <2>1, <2>2
<1>6. /\ \A g \in SFlags \ {"eapReq", "eapResp"} : g \in sf' <=> g \in sf
      /\ "eapReq" \notin sf'
      /\ r # None => "eapResp" \in sf'
      /\ r = None => ("eapResp" \in sf' <=> "eapResp" \in sf)
  BY <1>1
<1>7. /\ "portEnabled" \in sf' <=> "portEnabled" \in sf
      /\ "suppAbort" \in sf' <=> "suppAbort" \in sf
      /\ "logoffSent" \in sf' <=> "logoffSent" \in sf
      /\ "userLogoff" \in sf' <=> "userLogoff" \in sf
      /\ "eapolEap" \in sf' <=> "eapolEap" \in sf
      /\ "eapRestart" \in sf' <=> "eapRestart" \in sf
      /\ "eapSuccess" \in sf' <=> "eapSuccess" \in sf
      /\ "eapFail" \in sf' <=> "eapFail" \in sf
      /\ "suppTimeout" \in sf' <=> "suppTimeout" \in sf
      /\ "suppStart" \in sf' <=> "suppStart" \in sf
      /\ "cachedPmk" \in sf' <=> "cachedPmk" \in sf
  BY <1>6 DEF SFlags
<1>8. SuppTypeOK'
  <2>1. sf' \subseteq SFlags /\ sTmr' \subseteq STimers /\ sTick' \in BOOLEAN
    BY <1>p, <1>1 DEF SuppTypeOK, SFlags, STimers
  <2> QED BY <1>p, <1>1, <1>5, <2>1, EapType DEF Sessions
<1>9. SFlow' /\ SEnd'
  BY <1>1, <1>2, <1>7, EapFlow
<1>a. SWaiting'
  BY <1>1, <1>2, <1>7, EapWaiting
<1>b. /\ sBe # "RECEIVE"
      /\ sBe = "IDLE" => "suppStart" \notin sf
      /\ sBe = "REQUEST" => spc = "eap"
  BY <1>2, AtEapFacts
<1>c. r = None => Stale
  BY <1>2, <1>4 DEF Stale, Duplicate
<1>d. (r # None => ~Stale' /\ SeenBefore') /\ (r = None => Stale')
  BY <1>1, <1>2, <1>4, <1>5, <1>c DEF Stale, SeenBefore, Duplicate
<1>e. "cachedPmk" \notin sf
  BY <1>p, <1>2 DEF SResults
<1>f. SResults'
  BY <1>p, <1>1, <1>2, <1>7, <1>c, <1>d, <1>e DEF SResults
<1>g. sBe # "RESPONSE"
  BY <1>p, <1>2 DEF SAnswering
<1>h. SAnswering'
  <2>1. ASSUME sBe = "REQUEST"
        PROVE  r # None /\ Fit' /\ SUp'
    <3>1. Fit
      BY <1>p, <1>2, <2>1 DEF SAnswering
    <3>2. r # None
      BY <1>c, <3>1 DEF Fit
    <3> QED BY <1>1, <1>2, <1>7, <1>d, <3>1, <3>2 DEF Fit, SUp
  <2> QED BY <1>p, <1>1, <1>2, <1>6, <1>7, <1>b, <1>g, <2>1 DEF SAnswering
<1>i. SStarting'
  <2>1. ASSUME sPae = "RESTART"
        PROVE  Fit' /\ SeenBefore'
    <3>1. Fit
      BY <1>p, <1>2, <2>1 DEF SStarting
    <3>2. r # None
      BY <1>c, <3>1 DEF Fit
    <3> QED BY <1>1, <1>7, <1>d, <3>1, <3>2 DEF Fit
  <2> QED BY <1>1, <1>6, <1>7, <1>b, <2>1 DEF SStarting
<1>j. SReceiving' /\ SOwed' /\ STicking'
  BY <1>p, <1>1, <1>2, <1>6, <1>7, <1>b DEF SReceiving, SOwed, STicking
<1> QED BY <1>8, <1>9, <1>a, <1>f, <1>h, <1>i, <1>j DEF SuppInv
LEMMA EapInitializeStep ==
  ASSUME SuppInv, SuppEapInitialize PROVE SuppInv'
<1>p. /\ SuppTypeOK /\ SFlow /\ SResults /\ SAnswering /\ SReceiving /\ SStarting /\ SWaiting
      /\ SOwed /\ STicking
  BY DEF SuppInv
<1>1. /\ spc' = "eap" /\ sEap' = "IDLE" /\ UNCHANGED <<sPae, sBe, reqData, owed>>
      /\ sf' = sf \ {"eapSuccess", "eapFail", "eapRestart", "eapResp", "eapNoResp"}
      /\ sTmr' = sTmr \cup {"idleWhile"} /\ sTick' = TRUE
      /\ EapPass("IDLE") /\ peer' = NoSession
  BY DEF SuppEapInitialize, EapPass
<1>2. AtEap /\ SUp /\ ("eapRestart" \in sf \/ sEap = "DISABLED")
  BY DEF SuppEapInitialize, SUp
<1>3. SuppTypeOK'
  <2>1. sf' \subseteq SFlags /\ sTmr' \subseteq STimers /\ sTick' \in BOOLEAN
    BY <1>p, <1>1 DEF SuppTypeOK, STimers
  <2>2. peer' \in Sessions
    BY <1>1 DEF Sessions, NoSession, Decisions
  <2> QED BY <1>p, <1>1, <2>1, <2>2, EapType DEF Sessions
<1>4. SFlow' /\ SEnd'
  BY <1>1, <1>2, EapFlow
<1>5. SWaiting'
  BY <1>1, <1>2, EapWaiting
<1>6. /\ sBe = "RECEIVE" => "eapolEap" \notin sf /\ "eapReq" \notin sf
      /\ sBe = "IDLE" => "suppStart" \notin sf
  BY <1>2, AtEapFacts
<1>7. peer'.lastReq = None /\ peer'.dec = "FAIL" /\ peer'.resp = None
  BY <1>1 DEF NoSession
<1>8. Fit' /\ ~Stale'
  BY <1>1, <1>7 DEF Fit, Stale
<1>9. SResults'
  BY <1>p, <1>1, <1>7, <1>8 DEF SResults
<1>a. sBe # "RESPONSE" /\ (sBe = "REQUEST" => "eapReq" \in sf /\ spc = "eap")
  BY <1>p, <1>2 DEF SAnswering, Fit, SResults
<1>b. SUp'
  BY <1>1, <1>2 DEF SUp
<1>c. SAnswering'
  BY <1>p, <1>1, <1>8, <1>a, <1>b DEF SAnswering
<1>d. SReceiving' /\ SStarting'
  BY <1>1, <1>6, <1>8 DEF SReceiving, SStarting
<1>e. SOwed' /\ STicking'
  BY <1>p, <1>1, <1>7 DEF SOwed, STicking
<1> QED BY <1>3, <1>4, <1>5, <1>9, <1>c, <1>d, <1>e DEF SuppInv

LEMMA EapDisabledStep ==
  ASSUME SuppInv, SuppEapDisabled PROVE SuppInv'
<1>p. /\ SuppTypeOK /\ SFlow /\ SResults /\ SAnswering /\ SReceiving /\ SStarting /\ SWaiting
      /\ SOwed /\ STicking
  BY DEF SuppInv
<1>1. /\ spc' = "eap" /\ sEap' = "DISABLED" /\ sTmr' = sTmr \ {"idleWhile"}
      /\ UNCHANGED <<sPae, sBe, reqData, owed, sf, sTick, peer>>
      /\ EapPass("DISABLED")
  BY DEF SuppEapDisabled, EapPass
<1>2. AtEap /\ ~SUp
  BY DEF SuppEapDisabled, SUp
<1>3. SuppTypeOK'
  <2>1. sf' \subseteq SFlags /\ sTmr' \subseteq STimers /\ sTick' \in BOOLEAN /\ peer' \in Sessions
    BY <1>p, <1>1 DEF SuppTypeOK, Sessions
  <2> QED BY <1>p, <1>1, <2>1, EapType DEF Sessions
<1>4. SFlow' /\ SEnd'
  BY <1>1, <1>2, EapFlow
<1>5. SWaiting'
  BY <1>1, <1>2, EapWaiting
<1>6. sPae = "DISCONNECTED" /\ sBe = "INITIALIZE"
  BY <1>p, <1>2, AtEapFacts DEF SFlow
<1>7. SResults'
  BY <1>p, <1>1, <1>6 DEF SResults
<1>8. SAnswering' /\ SReceiving' /\ SStarting'
  BY <1>1, <1>6 DEF SAnswering, SReceiving, SStarting
<1>9. SOwed' /\ STicking'
  BY <1>p, <1>1 DEF SOwed, STicking
<1> QED BY <1>3, <1>4, <1>5, <1>7, <1>8, <1>9 DEF SuppInv

\* The loop goes round again, or ends with every machine at rest.
LEMMA EapStayStep ==
  ASSUME SuppInv, SuppEapStay PROVE SuppInv'
<1>p. /\ SuppTypeOK /\ SFlow /\ SResults /\ SAnswering /\ SReceiving /\ SStarting /\ SWaiting
      /\ SOwed /\ STicking
  BY DEF SuppInv
<1>1. /\ UNCHANGED <<plain, sPae, sBe, sEap, sf, sTick, startCount, sPort, peer, reqData, owed>>
      /\ sch' = FALSE /\ AtEap
      /\ spc' = (IF sch THEN "pae" ELSE "idle")
      /\ sRound' = (IF sch THEN sRound + 1 ELSE 0)
      /\ sTmr' = (IF sch THEN sTmr ELSE ReadTimers)
  BY DEF SuppEapStay
<1>2. /\ SUp => /\ "eapRestart" \notin sf /\ sEap # "DISABLED"
                /\ sEap = "IDLE" => "eapReq" \notin sf /\ "idleWhile" \in sTmr
      /\ ~SUp => sEap = "DISABLED"
  BY DEF SuppEapStay, SUp
<1>3. /\ spc # "idle" /\ "suppAbort" \notin sf
      /\ ~SUp => spc = "eap"
      /\ sPae = "DISCONNECTED" => sBe = "INITIALIZE"
      /\ spc = "be" => SUp /\ sch = TRUE
      /\ sPae = "CONNECTING" => "eapolEap" \notin sf
      /\ sBe = "RECEIVE" => "eapolEap" \notin sf /\ "eapReq" \notin sf
      /\ sBe = "IDLE" => "suppStart" \notin sf
      /\ sBe \in {"REQUEST", "RESPONSE"} => spc = "eap"
      /\ sPae = "RESTART" => spc \in {"be", "eap"}
      /\ sPae = "LOGOFF" => "userLogoff" \in sf
      /\ spc = "pae" => /\ PaeNext = "stay" /\ sBe \in {"IDLE", "RECEIVE"}
                        /\ sBe = "RECEIVE" => "eapFail" \notin sf /\ "eapSuccess" \notin sf
  BY <1>1, AtEapFacts
<1>4. sch \in BOOLEAN /\ sRound \in Nat /\ spc \in {"idle", "pae", "be", "eap"}
  BY <1>p DEF SuppTypeOK
<1>5. SuppTypeOK'
  <2>0. sTmr \subseteq STimers
    BY <1>p DEF SuppTypeOK
  <2>a. sTmr' \subseteq STimers
    BY <1>1, <1>4, <2>0 DEF ReadTimers
  <2>b. sRound' \in Nat /\ sch' = FALSE
    BY <1>1, <1>4
  <2>c. spc' \in {"idle", "pae", "be", "eap"}
    BY <1>1, <1>4
  <2>1. /\ sTmr' \subseteq STimers /\ sRound' \in Nat /\ sch' \in BOOLEAN
        /\ spc' \in {"idle", "pae", "be", "eap"}
    BY <2>a, <2>b, <2>c
  <2>2. UNCHANGED <<plain, sPae, sBe, sEap, sf, sTick, startCount, sPort, peer, reqData, owed>>
    BY <1>1
  <2> QED BY <1>p, <2>1, <2>2 DEF SuppTypeOK
<1>6. (SeenBefore' <=> SeenBefore) /\ (Stale' <=> Stale) /\ (SUp' <=> SUp)
  BY <1>1 DEF SeenBefore, Duplicate, Stale, SUp
<1>7. SResults' /\ SOwed' /\ STicking'
  <2>1. sEap = "DISABLED" => sBe = "INITIALIZE"
    BY <1>p, <1>2, <1>3 DEF SFlow
  <2>2. sTmr' \subseteq sTmr
    BY <1>1 DEF ReadTimers
  <2>3. UNCHANGED <<sPae, sBe, sEap, sf, sTick, peer, reqData, owed>>
    BY <1>1
  <2> QED BY <1>p, <1>6, <2>1, <2>2, <2>3 DEF SResults, SOwed, STicking
<1>8. sBe = "REQUEST" => "eapReq" \notin sf
  BY <1>p, <1>2 DEF SAnswering, Fit
<1>9. CASE sch = TRUE
  <2>1. spc' = "pae" /\ sTmr' = sTmr /\ UNCHANGED <<sPae, sBe, sEap, sf, peer, reqData>>
    BY <1>1, <1>9
  <2>2. Fit' <=> Fit
    BY <1>6, <2>1 DEF Fit
  <2>3. SFlow' /\ SEnd'
    BY <1>p, <1>2, <1>3, <1>6, <2>1 DEF SFlow, SEnd
  <2>4. SAnswering'
    BY <1>p, <1>3, <1>6, <1>8, <2>1, <2>2 DEF SAnswering
  <2>5. SReceiving' /\ SStarting'
    BY <1>p, <1>3, <1>6, <2>1, <2>2 DEF SReceiving, SStarting
  <2>6. SWaiting'
    BY <1>p, <1>3, <2>1 DEF SWaiting
  <2> QED BY <1>5, <1>7, <2>3, <2>4, <2>5, <2>6 DEF SuppInv
<1>a. CASE sch = FALSE
  <2>1. spc' = "idle" /\ sTmr' = ReadTimers /\ UNCHANGED <<sPae, sBe, sEap, sf, peer, reqData>>
    BY <1>1, <1>a
  <2>2. SUp => spc = "pae"
    BY <1>p, <1>3, <1>4, <1>a DEF SFlow
  <2>3. SUp => sBe \in {"IDLE", "RECEIVE"} /\ sPae \notin {"DISCONNECTED", "RESTART"}
    BY <1>p, <1>3, <2>2, PaeStay
  <2>4. ~SUp => sBe = "INITIALIZE" /\ sPae = "DISCONNECTED"
    BY <1>p, <1>3 DEF SFlow
  <2>5. SFlow'
    BY <1>p, <1>2, <1>3, <1>6, <2>1, <2>3, <2>4 DEF SFlow
  <2>6. SEnd'
    BY <1>6, <2>1, <2>3, <2>4 DEF SEnd
  <2>7. SAnswering' /\ SStarting'
    BY <1>3, <2>1, <2>3, <2>4 DEF SAnswering, SStarting
  <2>8. SReceiving'
    <3>1. ASSUME sBe = "RECEIVE" PROVE Fit'
      <4>1. SUp /\ "eapFail" \notin sf /\ "eapSuccess" \notin sf
        BY <1>3, <2>2, <2>4, <3>1
      <4>2. sEap = "IDLE" /\ ~Stale
        BY <1>p, <1>2, <3>1, <4>1 DEF SResults, SuppTypeOK
      <4>3. "idleWhile" \in ReadTimers
        BY <1>2, <4>1, <4>2 DEF ReadTimers
      <4> QED BY <1>6, <2>1, <4>1, <4>2, <4>3 DEF Fit
    <3> QED BY <1>p, <1>3, <2>1, <3>1 DEF SReceiving
  <2>9. SWaiting'
    <3>1. ASSUME sPae = "CONNECTING"
          PROVE  /\ "startWhen" \in ReadTimers /\ "eapSuccess" \notin sf /\ "eapFail" \notin sf
      <4>1. PaeNext = "stay"
        BY <1>3, <2>2, <2>4, <3>1
      <4> QED BY <1>p, <3>1, <4>1, PaeStay DEF ReadTimers
    <3>2. ASSUME sPae = "HELD" PROVE "heldWhile" \in ReadTimers /\ "eapolEap" \notin sf
      <4>1. PaeNext = "stay"
        BY <1>3, <2>2, <2>4, <3>2
      <4> QED BY <1>p, <3>2, <4>1, PaeStay DEF ReadTimers
    <3>3. sPae = "AUTHENTICATING" => "suppTimeout" \notin sf
      BY <1>p, <1>3, <2>2, <2>4, PaeStay
    <3> QED BY <1>3, <2>1, <3>1, <3>2, <3>3 DEF SWaiting
  <2> QED BY <1>5, <1>7, <2>5, <2>6, <2>7, <2>8, <2>9 DEF SuppInv
<1> QED BY <1>4, <1>9, <1>a

\* A request, its answer, and the packets that are none.
LEMMA FrameFacts ==
  ASSUME NEW f \in ToSuppFrames
  PROVE  /\ f.t \in {"Req", "Success", "Failure"}
         /\ f.t = "Req" <=> f \in Requests
         /\ f.t = "Req" => /\ [f EXCEPT !.t = "Resp"] \in Responses
                           /\ f.ty \in {"id", "m"} /\ f.id \in Ids
                           /\ f.ty = "m" => f.n \in Nonces
                           /\ f.ty = "id" => f.n = None
         /\ f.t # "Req" => f.n = None
<1>1. CASE \E id \in Ids : f = Frame("Req", "id", id, None)
  BY <1>1 DEF Requests, Responses, Frame
<1>2. CASE \E id \in Ids, n \in Nonces : f = Frame("Req", "m", id, n)
  BY <1>2 DEF Requests, Responses, Frame
<1>3. CASE \E id \in Ids : f = Success(id) \/ f = Failure(id)
  BY <1>3 DEF Requests, Success, Failure, Frame
<1> QED BY <1>1, <1>2, <1>3 DEF ToSuppFrames, Requests

LEMMA NoResponseCases ==
  ASSUME SuppInv, EapIdle, EapDiscard \/ EapFailure \/ (EapSuccess /\ peer.dec # "FAIL"),
         peer' \in Sessions, peer'.resp \in {None, peer.resp},
         peer'.lastReq = peer.lastReq, peer'.lastResp = peer.lastResp, peer'.lastId = peer.lastId,
         reqData = None => peer'.dec = peer.dec,
         "eapReq" \in sf => ~SeenBefore,
         "eapReq" \notin sf => "idleWhile" \notin sTmr
  PROVE  SuppInv'
<1>1. CASE EapDiscard
  <2>1. EapNoResponse("IDLE", {})
    BY <1>1 DEF EapDiscard
  <2> QED BY <2>1, NoResponseStep
<1>2. CASE EapFailure
  <2>1. EapNoResponse("FAILURE", {"eapFail"})
    BY <1>2 DEF EapFailure
  <2> QED BY <2>1, NoResponseStep
<1>3. CASE EapSuccess /\ peer.dec # "FAIL"
  <2>1. EapNoResponse("SUCCESS", {"eapSuccess"})
    BY <1>3 DEF EapSuccess
  <2> QED BY <1>3, <2>1, NoResponseStep
<1> QED BY <1>1, <1>2, <1>3

LEMMA EapStep ==
  ASSUME SuppInv, SuppEap PROVE SuppInv'
<1>t. peer \in Sessions /\ reqData \in ToSuppFrames \cup {None}
  BY DEF SuppInv, SuppTypeOK, Sessions
<1>u. ASSUME UNCHANGED peer
      PROVE  /\ peer' \in Sessions /\ peer'.resp \in {None, peer.resp}
             /\ peer'.lastReq = peer.lastReq /\ peer'.lastResp = peer.lastResp
             /\ peer'.lastId = peer.lastId /\ peer'.dec = peer.dec
  BY <1>t, <1>u
<1>v. ASSUME NEW t \in {"Success", "Failure"}, Received(t)
      PROVE  EapIdle /\ "eapReq" \in sf /\ ~SeenBefore
  <2>1. EapIdle /\ "eapReq" \in sf /\ reqData # None /\ reqData.t = t
    BY <1>v DEF Received
  <2>2. reqData \notin Requests
    BY <1>t, <2>1, FrameFacts
  <2>3. peer.lastReq \in Requests \cup {None}
    BY <1>t DEF Sessions
  <2> QED BY <2>1, <2>2, <2>3 DEF SeenBefore, Duplicate
<1>1. CASE SuppEapRxSuccess
  <2>1. /\ Received("Success") /\ UNCHANGED peer
        /\ EapDiscard \/ EapFailure \/ (EapSuccess /\ peer.dec # "FAIL")
    BY <1>1 DEF SuppEapRxSuccess
  <2> QED BY <1>u, <1>v, <2>1, NoResponseCases
<1>2. CASE SuppEapRxFailure
  <2>1. Received("Failure") /\ UNCHANGED peer /\ (EapDiscard \/ EapFailure)
    BY <1>2 DEF SuppEapRxFailure
  <2> QED BY <1>u, <1>v, <2>1, NoResponseCases
<1>3. CASE SuppEapDiscard
  <2>1. EapIdle /\ "eapReq" \in sf /\ ~SeenBefore /\ EapDiscard /\ UNCHANGED peer
    BY <1>3 DEF SuppEapDiscard, SeenBefore, Received
  <2> QED BY <1>u, <2>1, NoResponseCases
<1>4. CASE SuppEapIdleTimeout
  <2>1. /\ EapIdle /\ "eapReq" \notin sf /\ "idleWhile" \notin sTmr /\ UNCHANGED peer
        /\ EapFailure \/ (EapSuccess /\ peer.dec # "FAIL")
    BY <1>4 DEF SuppEapIdleTimeout
  <2> QED BY <1>u, <2>1, NoResponseCases
<1>5. CASE SuppEapRetransmit
  <2>1. Received("Req") /\ Duplicate /\ SendResponse(peer, peer.lastResp)
    BY <1>5 DEF SuppEapRetransmit
  <2>2. peer.lastResp \in Responses \cup {None}
    BY <1>t DEF Sessions
  <2> QED BY <1>t, <2>1, <2>2, ResponseStep
<1>r. ASSUME Received("Req")
      PROVE  /\ EapIdle /\ "eapReq" \in sf /\ Answer \in Responses
             /\ reqData # None /\ reqData.ty = "m" => reqData.n \in Nonces
  BY <1>t, <1>r, FrameFacts DEF Received, Answer
<1>6. CASE SuppEapIdentity
  <2>1. Received("Req") /\ SendResponse(peer, Answer)
    BY <1>6 DEF SuppEapIdentity
  <2> QED BY <1>t, <1>r, <2>1, ResponseStep
<1>7. ASSUME NEW o \in Outcomes, SuppEapMethod(o) PROVE SuppInv'
  <2>1. o \in {"pending", "fail", "COND_SUCC", "UNCOND_SUCC"}
    BY EapolSuppAssumption
  <2>2. Received("Req") /\ ~Duplicate /\ reqData.ty = "m"
    BY <1>7 DEF SuppEapMethod
  <2>3. EapIdle /\ "eapReq" \in sf /\ Answer \in Responses /\ reqData # None /\ reqData.n \in Nonces
    BY <1>r, <2>2 DEF Received
  <2>4. ~SeenBefore
    BY <2>2 DEF SeenBefore
  <2>5. CASE o = "pending"
    <3>1. EapDiscard /\ peer' = [peer EXCEPT !.sel = "m", !.resp = None]
      BY <1>7, <2>5 DEF SuppEapMethod
    <3>2. /\ peer' \in Sessions /\ peer'.resp \in {None, peer.resp}
          /\ peer'.lastReq = peer.lastReq /\ peer'.lastResp = peer.lastResp
          /\ peer'.lastId = peer.lastId
      BY <1>t, <3>1 DEF Sessions
    <3> QED BY <2>3, <2>4, <3>1, <3>2, NoResponseCases
  <2>6. CASE o = "fail"
    <3>1. /\ EapFailure
          /\ peer' = [peer EXCEPT !.sel = "m", !.meth = "DONE", !.dec = "FAIL", !.resp = None]
      BY <1>7, <2>6 DEF SuppEapMethod
    <3>2. /\ peer' \in Sessions /\ peer'.resp \in {None, peer.resp}
          /\ peer'.lastReq = peer.lastReq /\ peer'.lastResp = peer.lastResp
          /\ peer'.lastId = peer.lastId
      BY <1>t, <3>1 DEF Sessions, Decisions
    <3> QED BY <2>3, <2>4, <3>1, <3>2, NoResponseCases
  <2>7. CASE o \in {"COND_SUCC", "UNCOND_SUCC"}
    <3> DEFINE p == [peer EXCEPT !.sel = "m", !.dec = o, !.key = reqData.n,
                                 !.meth = IF o = "COND_SUCC" THEN "MAY_CONT" ELSE "DONE"]
    <3>1. SendResponse(p, Answer)
      BY <1>7, <2>7 DEF SuppEapMethod
    <3>2. p \in Sessions /\ p.lastReq = peer.lastReq /\ p.lastId = peer.lastId
      BY <1>t, <2>3, <2>7 DEF Sessions, Decisions
    <3> HIDE DEF p
    <3> QED BY <2>2, <2>3, <3>1, <3>2, ResponseStep
  <2> QED BY <2>1, <2>5, <2>6, <2>7
<1> QED BY <1>1, <1>2, <1>3, <1>4, <1>5, <1>6, <1>7, EapInitializeStep, EapDisabledStep,
           EapStayStep DEF SuppEap

\* One step of eapol_sm_step.
LEMMA SuppRunStep ==
  ASSUME SuppInv, SuppRun PROVE SuppInv'
BY PaeStep, BeStep, EapStep DEF SuppRun

-----------------------------------------------------------------------------
(* Events.                                                                     *)

\* Between two runs of the loop.
LEMMA SuppIdleFacts ==
  ASSUME SuppInv, spc = "idle"
  PROVE  /\ "eapRestart" \notin sf /\ "suppAbort" \notin sf /\ sPae # "RESTART"
         /\ sBe \in {"IDLE", "RECEIVE", "INITIALIZE"}
         /\ sBe = "INITIALIZE" <=> ~SUp
         /\ sEap = "DISABLED" <=> ~SUp
         /\ ~SUp => "eapSuccess" \notin sf /\ reqData = None
         /\ sBe = "IDLE" => "suppStart" \notin sf
         /\ sBe = "RECEIVE" => /\ Fit /\ "eapolEap" \notin sf /\ "eapReq" \notin sf
                               /\ "eapResp" \notin sf
         /\ sPae = "CONNECTING" => /\ "startWhen" \in sTmr /\ "eapSuccess" \notin sf
                                   /\ "eapolEap" \notin sf
         /\ sPae = "HELD" => "heldWhile" \in sTmr /\ "eapolEap" \notin sf
         /\ sPae = "AUTHENTICATING" => "suppTimeout" \notin sf
         /\ sPae = "DISCONNECTED" => sBe = "INITIALIZE"
         /\ "cachedPmk" \in sf => "eapSuccess" \notin sf /\ reqData = None
         /\ "cachedPmk" \in sf /\ SUp => peer.dec = "FAIL"
<1>1. SFlow /\ SEnd /\ SReceiving /\ SWaiting /\ SStarting /\ SResults
  BY DEF SuppInv
<1> QED BY <1>1 DEF SFlow, SEnd, SReceiving, SWaiting, SStarting, SResults

\* What an event may change for the run that it starts.
LEMMA SuppEventStep ==
  ASSUME SuppInv, spc = "idle", spc' = "pae", SuppTypeOK', STicking',
         UNCHANGED <<sBe, sEap, peer>>,
         "eapRestart" \in sf' <=> "eapRestart" \in sf,
         "suppAbort" \in sf' <=> "suppAbort" \in sf,
         "suppStart" \in sf' <=> "suppStart" \in sf,
         "eapFail" \in sf' <=> "eapFail" \in sf,
         "eapResp" \in sf' <=> "eapResp" \in sf,
         "logoffSent" \in sf' <=> "logoffSent" \in sf,
         "suppTimeout" \in sf' <=> "suppTimeout" \in sf,
         "eapSuccess" \in sf => "eapSuccess" \in sf',
         sPae' \in {sPae, "CONNECTING"},
         "cachedPmk" \in sf' => /\ "eapSuccess" \notin sf' /\ reqData' = None
                                /\ peer.dec = "FAIL" \/ sEap = "DISABLED",
         \/ owed' = TRUE
         \/ /\ owed' = owed
            /\ "eapolEap" \in sf' => "eapolEap" \in sf
            /\ "eapReq" \in sf' => "eapReq" \in sf,
         owed = TRUE => owed' = TRUE,
         "eapReq" \in sf' => "eapReq" \in sf \/ "eapolEap" \in sf',
         "eapolEap" \in sf' =>
            /\ sPae' = "CONNECTING" => "startWhen" \in sTmr' /\ "eapSuccess" \notin sf'
            /\ sPae' = "HELD" => "heldWhile" \in sTmr'
            /\ sBe = "RECEIVE" => "idleWhile" \in sTmr' /\ "eapSuccess" \notin sf'
  PROVE  SuppInv'
<1>p. SFlow /\ SResults /\ SAnswering /\ SReceiving /\ SStarting /\ SWaiting /\ SOwed
  BY DEF SuppInv
<1>i. /\ "eapRestart" \notin sf /\ "suppAbort" \notin sf /\ sPae # "RESTART"
      /\ sBe \in {"IDLE", "RECEIVE", "INITIALIZE"}
      /\ sBe = "IDLE" => "suppStart" \notin sf
      /\ sBe = "RECEIVE" => /\ Fit /\ "eapolEap" \notin sf /\ "eapReq" \notin sf
                            /\ "eapResp" \notin sf
      /\ sPae = "AUTHENTICATING" => "suppTimeout" \notin sf
      /\ sPae = "DISCONNECTED" => sBe = "INITIALIZE"
  BY SuppIdleFacts
<1>1. SFlow'
  BY <1>p, <1>i DEF SFlow
<1>2. Stale' <=> Stale
  BY DEF Stale
<1>3. SResults'
  BY <1>p, <1>i, <1>2 DEF SResults
<1>4. SAnswering' /\ SStarting' /\ SEnd'
  BY <1>i DEF SAnswering, SStarting, SEnd
<1>5. sBe = "RECEIVE" /\ "eapolEap" \in sf' => Fit'
  BY <1>i, <1>2 DEF Fit
<1>6. SReceiving'
  BY <1>i, <1>5 DEF SReceiving
<1>7. SWaiting'
  BY <1>i DEF SWaiting
<1>8. SOwed'
  BY <1>p, <1>i DEF SOwed
<1> QED BY <1>1, <1>3, <1>4, <1>6, <1>7, <1>8 DEF SuppInv

LEMMA SuppTickStep ==
  ASSUME SuppInv, NEW E, SuppTick(E) PROVE SuppInv'
<1>1. /\ spc = "idle" /\ spc' = "pae" /\ sTmr' = sTmr \ E /\ sTick' = (sTmr' # {})
      /\ UNCHANGED <<sPae, sBe, sEap, sf, peer, reqData, owed>>
  BY DEF SuppTick, SStep
<1>2. SuppTypeOK'
  <2>1. SuppTypeOK /\ sTmr' \subseteq STimers /\ sTick' \in BOOLEAN /\ sch' \in BOOLEAN /\ sRound' \in Nat
    BY <1>1 DEF SuppInv, SuppTypeOK, SuppTick, SStep
  <2>2. UNCHANGED <<plain, startCount, sPort>>
    BY DEF SuppTick
  <2> QED BY <1>1, <2>1, <2>2 DEF SuppTypeOK
<1>3. STicking'
  BY <1>1 DEF STicking
<1>4. /\ "eapolEap" \in sf => sBe # "RECEIVE" /\ sPae \notin {"CONNECTING", "HELD"}
      /\ "cachedPmk" \in sf => /\ "eapSuccess" \notin sf /\ reqData = None
                               /\ peer.dec = "FAIL" \/ sEap = "DISABLED"
  BY <1>1, SuppIdleFacts
<1> QED BY <1>1, <1>2, <1>3, <1>4, SuppEventStep

\* A change of the variables that the rest of wpa_supplicant sets.
LEMMA SuppNotifyStep ==
  ASSUME SuppInv, NEW add, NEW del, SuppNotify(add, del),
         add \subseteq {"portEnabled", "portValid", "userLogoff", "cachedPmk"},
         del \subseteq {"portEnabled", "portValid", "userLogoff"},
         "cachedPmk" \in add => ~SUp
  PROVE  SuppInv'
<1>1. /\ spc = "idle" /\ spc' = "pae" /\ sTmr' \subseteq sTmr
      /\ sf' = (sf \cup add) \ del
      /\ UNCHANGED <<sPae, sBe, sEap, peer, reqData, owed, sTick>>
  BY DEF SuppNotify, SStep
<1>2. SuppTypeOK'
  <2>1. sf' \subseteq SFlags /\ sTmr' \subseteq STimers
    BY <1>1 DEF SuppInv, SuppTypeOK, SFlags
  <2>2. UNCHANGED <<plain, startCount, sPort>> /\ sch' \in BOOLEAN /\ sRound' \in Nat
    BY DEF SuppNotify, SStep
  <2> QED BY <1>1, <2>1, <2>2 DEF SuppInv, SuppTypeOK
<1>3. STicking'
  BY <1>1 DEF SuppInv, STicking
<1>4. /\ "eapRestart" \in sf' <=> "eapRestart" \in sf
      /\ "suppAbort" \in sf' <=> "suppAbort" \in sf
      /\ "suppStart" \in sf' <=> "suppStart" \in sf
      /\ "eapFail" \in sf' <=> "eapFail" \in sf
      /\ "eapResp" \in sf' <=> "eapResp" \in sf
      /\ "eapReq" \in sf' <=> "eapReq" \in sf
      /\ "logoffSent" \in sf' <=> "logoffSent" \in sf
      /\ "suppTimeout" \in sf' <=> "suppTimeout" \in sf
      /\ "eapSuccess" \in sf' <=> "eapSuccess" \in sf
      /\ "eapolEap" \in sf' <=> "eapolEap" \in sf
      /\ "cachedPmk" \in sf' => "cachedPmk" \in sf \/ ~SUp
  BY <1>1
<1>5. /\ "eapolEap" \in sf => sBe # "RECEIVE" /\ sPae \notin {"CONNECTING", "HELD"}
      /\ "cachedPmk" \in sf \/ ~SUp => /\ "eapSuccess" \notin sf /\ reqData = None
                                       /\ peer.dec = "FAIL" \/ sEap = "DISABLED"
  BY <1>1, SuppIdleFacts
<1> QED BY <1>1, <1>2, <1>3, <1>4, <1>5, SuppEventStep

\* An EAP packet is received.
LEMMA SuppRxEapStep ==
  ASSUME SuppInv, SUp, NEW f \in ToSuppFrames, SuppRxEap(f) PROVE SuppInv'
<1>1. /\ spc = "idle" /\ spc' = "pae" /\ owed' = TRUE /\ reqData' = f
      /\ sf' = (sf \ {"cachedPmk"}) \cup {"eapolEap"}
      /\ UNCHANGED <<sBe, sEap, peer>>
  BY DEF SuppRxEap, SStep
<1>2. \/ "cachedPmk" \in sf /\ sPae' = "CONNECTING" /\ sTmr' = sTmr \cup {"startWhen"}
           /\ sTick' = TRUE /\ sPort' = FALSE
      \/ UNCHANGED <<sPae, sTmr, sTick, sPort>>
  BY DEF SuppRxEap
<1>3. SuppTypeOK'
  <2>0. SuppTypeOK
    BY DEF SuppInv
  <2>1. /\ sf' \subseteq SFlags /\ sTmr' \subseteq STimers /\ sTick' \in BOOLEAN
        /\ sPort' \in BOOLEAN
        /\ sPae' \in {"LOGOFF", "DISCONNECTED", "CONNECTING", "AUTHENTICATING", "HELD",
                      "AUTHENTICATED", "RESTART"}
    BY <1>1, <1>2, <2>0 DEF SuppTypeOK, SFlags, STimers
  <2>2. UNCHANGED <<plain, startCount>> /\ sch' \in BOOLEAN /\ sRound' \in Nat
    BY DEF SuppRxEap, SStep
  <2> QED BY <1>1, <2>0, <2>1, <2>2 DEF SuppTypeOK
<1>4. STicking'
  BY <1>2 DEF SuppInv, STicking
<1>5. /\ "eapRestart" \in sf' <=> "eapRestart" \in sf
      /\ "suppAbort" \in sf' <=> "suppAbort" \in sf
      /\ "suppStart" \in sf' <=> "suppStart" \in sf
      /\ "eapFail" \in sf' <=> "eapFail" \in sf
      /\ "eapResp" \in sf' <=> "eapResp" \in sf
      /\ "eapReq" \in sf' <=> "eapReq" \in sf
      /\ "logoffSent" \in sf' <=> "logoffSent" \in sf
      /\ "suppTimeout" \in sf' <=> "suppTimeout" \in sf
      /\ "eapSuccess" \in sf' <=> "eapSuccess" \in sf
      /\ "cachedPmk" \notin sf'
  BY <1>1
<1>6. /\ sPae = "CONNECTING" => "startWhen" \in sTmr /\ "eapSuccess" \notin sf
      /\ sPae = "HELD" => "heldWhile" \in sTmr
      /\ sBe = "RECEIVE" => "idleWhile" \in sTmr /\ "eapSuccess" \notin sf
      /\ "cachedPmk" \in sf => "eapSuccess" \notin sf
  BY <1>1, SuppIdleFacts DEF Fit
<1>7. /\ sPae' \in {sPae, "CONNECTING"}
      /\ sPae' = "CONNECTING" => "startWhen" \in sTmr' /\ "eapSuccess" \notin sf
      /\ sPae' = "HELD" => "heldWhile" \in sTmr'
      /\ "idleWhile" \in sTmr => "idleWhile" \in sTmr'
  BY <1>2, <1>6
<1> QED BY <1>1, <1>3, <1>4, <1>5, <1>6, <1>7, SuppEventStep

\* A pending request is tried again.
LEMMA SuppRetryPendingStep ==
  ASSUME SuppInv, SuppRetryPending PROVE SuppInv'
<1>1. /\ spc = "idle" /\ spc' = "pae" /\ owed' = TRUE /\ reqData # None
      /\ sf' = sf \cup {"eapolEap", "eapReq"}
      /\ UNCHANGED <<sPae, sBe, sEap, peer, sTmr, sTick, reqData>>
  BY DEF SuppRetryPending, SStep
<1>2. SuppTypeOK'
  <2>1. sf' \subseteq SFlags
    BY <1>1 DEF SuppInv, SuppTypeOK, SFlags
  <2>2. UNCHANGED <<plain, startCount, sPort>> /\ sch' \in BOOLEAN /\ sRound' \in Nat
    BY DEF SuppRetryPending, SStep
  <2> QED BY <1>1, <2>1, <2>2 DEF SuppInv, SuppTypeOK
<1>3. STicking'
  BY <1>1 DEF SuppInv, STicking
<1>4. /\ "eapRestart" \in sf' <=> "eapRestart" \in sf
      /\ "suppAbort" \in sf' <=> "suppAbort" \in sf
      /\ "suppStart" \in sf' <=> "suppStart" \in sf
      /\ "eapFail" \in sf' <=> "eapFail" \in sf
      /\ "eapResp" \in sf' <=> "eapResp" \in sf
      /\ "logoffSent" \in sf' <=> "logoffSent" \in sf
      /\ "suppTimeout" \in sf' <=> "suppTimeout" \in sf
      /\ "eapSuccess" \in sf' <=> "eapSuccess" \in sf
      /\ "cachedPmk" \in sf' <=> "cachedPmk" \in sf
      /\ "eapolEap" \in sf'
  BY <1>1
<1>5. /\ sPae = "CONNECTING" => "startWhen" \in sTmr /\ "eapSuccess" \notin sf
      /\ sPae = "HELD" => "heldWhile" \in sTmr
      /\ sBe = "RECEIVE" => "idleWhile" \in sTmr /\ "eapSuccess" \notin sf
      /\ "cachedPmk" \notin sf
  BY <1>1, SuppIdleFacts DEF Fit
<1> QED BY <1>1, <1>2, <1>3, <1>4, <1>5, SuppEventStep

\* An EAPOL-Key frame makes up for a lost EAP-Success.
LEMMA SuppLowerLayerSuccessStep ==
  ASSUME SuppInv, SUp, peer.dec # "FAIL", SuppLowerLayerSuccess PROVE SuppInv'
<1>1. /\ spc = "idle" /\ spc' = "pae" /\ sf' \in {sf, sf \cup {"eapSuccess"}}
      /\ UNCHANGED <<sPae, sBe, sEap, peer, sTmr, sTick, reqData, owed>>
  BY DEF SuppLowerLayerSuccess, SStep
<1>2. SuppTypeOK'
  <2>1. sf' \subseteq SFlags
    BY <1>1 DEF SuppInv, SuppTypeOK, SFlags
  <2>2. UNCHANGED <<plain, startCount, sPort>> /\ sch' \in BOOLEAN /\ sRound' \in Nat
    BY DEF SuppLowerLayerSuccess, SStep
  <2> QED BY <1>1, <2>1, <2>2 DEF SuppInv, SuppTypeOK
<1>3. STicking'
  BY <1>1 DEF SuppInv, STicking
<1>4. /\ "eapRestart" \in sf' <=> "eapRestart" \in sf
      /\ "suppAbort" \in sf' <=> "suppAbort" \in sf
      /\ "suppStart" \in sf' <=> "suppStart" \in sf
      /\ "eapFail" \in sf' <=> "eapFail" \in sf
      /\ "eapResp" \in sf' <=> "eapResp" \in sf
      /\ "eapReq" \in sf' <=> "eapReq" \in sf
      /\ "eapolEap" \in sf' <=> "eapolEap" \in sf
      /\ "logoffSent" \in sf' <=> "logoffSent" \in sf
      /\ "suppTimeout" \in sf' <=> "suppTimeout" \in sf
      /\ "eapSuccess" \in sf => "eapSuccess" \in sf'
      /\ "cachedPmk" \in sf' <=> "cachedPmk" \in sf
  BY <1>1
<1>5. /\ "eapolEap" \in sf => sBe # "RECEIVE" /\ sPae \notin {"CONNECTING", "HELD"}
      /\ "cachedPmk" \notin sf
  BY <1>1, SuppIdleFacts
<1> QED BY <1>1, <1>2, <1>3, <1>4, <1>5, SuppEventStep

LEMMA SuppStutter ==
  ASSUME SuppInv, UNCHANGED supp PROVE SuppInv'
<1>1. UNCHANGED <<spc, sch, sPae, sBe, sEap, sf, sTmr, sTick, peer, reqData, owed>>
  BY DEF supp
<1>2. SuppTypeOK'
  BY DEF SuppInv, SuppTypeOK, supp
<1>3. (SUp' <=> SUp) /\ (Stale' <=> Stale) /\ (Fit' <=> Fit) /\ (SeenBefore' <=> SeenBefore)
  BY <1>1 DEF SUp, Stale, Fit, SeenBefore, Duplicate
<1>4. SFlow' /\ SResults' /\ SEnd'
  BY <1>1, <1>3 DEF SuppInv, SFlow, SResults, SEnd
<1>5. SAnswering' /\ SReceiving' /\ SStarting'
  BY <1>1, <1>3 DEF SuppInv, SAnswering, SReceiving, SStarting
<1>6. SWaiting' /\ SOwed' /\ STicking'
  BY <1>1 DEF SuppInv, SWaiting, SOwed, STicking
<1> QED BY <1>2, <1>4, <1>5, <1>6 DEF SuppInv

\* What the invariant says of the Supplicant at rest and of the packets it answers.
LEMMA SuppInvSafe ==
  ASSUME SuppInv
  PROVE  /\ spc = "idle" => /\ sBe \in {"IDLE", "RECEIVE", "INITIALIZE"}
                            /\ sPae # "RESTART" /\ "eapRestart" \notin sf
                            /\ sBe = "INITIALIZE" <=> "portEnabled" \notin sf
         /\ peer.resp # None => owed
         /\ sTmr # {} => sTick
BY SuppIdleFacts DEF SuppInv, SOwed, STicking, SUp

-----------------------------------------------------------------------------
(* The loop of eapol_sm_step ends.  SuppLeft bounds the number of changes of   *)
(* state that are still to come in this run: what each machine has before it  *)
(* from its state, and what the flags and expired timers can still set off.   *)
(* No step of the loop makes the rounds done, this bound and the round that a *)
(* change already made will cost (sch) more in all.                           *)

Cnt(b) == IF b THEN 1 ELSE 0

\* What SUPP_PAE has before it, the results of the EAP peer that it has not taken
\* included.
SuppPaeLeft ==
  CASE sPae = "LOGOFF" -> IF "userLogoff" \in sf THEN 0 ELSE 10
    [] sPae = "DISCONNECTED" -> 8
    [] sPae = "CONNECTING" -> (IF "startWhen" \in sTmr THEN 3 ELSE 4)
                              + (IF "eapSuccess" \in sf \/ "eapFail" \in sf THEN 4 ELSE 0)
    [] sPae = "HELD" -> IF "heldWhile" \in sTmr THEN 3 ELSE 8
    [] sPae = "AUTHENTICATED" -> IF "portValid" \in sf THEN 3 ELSE 10
    [] sPae = "RESTART" -> IF "eapRestart" \in sf THEN 2
                           ELSE IF "eapSuccess" \in sf \/ "eapFail" \in sf THEN 6 ELSE 2
    [] sPae = "AUTHENTICATING" -> (IF "suppTimeout" \in sf THEN 4 ELSE 0)
                              + (IF "eapSuccess" \in sf \/ "eapFail" \in sf THEN 4 ELSE 0)

\* What SUPP_BE has before it.
SuppBeLeft ==
  CASE sBe = "REQUEST" -> 4
    [] sBe = "RESPONSE" -> 3
    [] sBe = "RECEIVE" -> IF "authWhile" \in sTmr THEN 2 ELSE 6
    [] sBe = "IDLE" -> IF "suppStart" \in sf THEN 1 ELSE 0
    [] sBe \in {"SUCCESS", "FAIL", "TIMEOUT", "INITIALIZE"} -> 1

\* What the flags and the idle timer can set off: a packet that is not being
\* answered yet costs the way through REQUEST and RESPONSE.
SuppDue ==
  Cnt("suppAbort" \in sf) + Cnt(sPae # "LOGOFF" /\ "userLogoff" \in sf)
  + 8 * Cnt("eapolEap" \in sf /\ sBe \notin {"REQUEST", "RESPONSE"})
  + 5 * Cnt("eapReq" \in sf) + 5 * Cnt(sEap = "IDLE" /\ "idleWhile" \notin sTmr)

\* With the port down every machine goes to its first state and stays there.
SuppLeft ==
  IF SUp THEN SuppPaeLeft + SuppBeLeft + SuppDue
  ELSE Cnt(sPae # "DISCONNECTED") + Cnt(sBe # "INITIALIZE") + Cnt(sEap # "DISABLED")

LEMMA SuppLeftParts ==
  ASSUME SuppTypeOK
  PROVE  SuppPaeLeft \in 0 .. 10 /\ SuppBeLeft \in 0 .. 6 /\ SuppDue \in 0 .. 20
<1>1. SuppPaeLeft \in 0 .. 10
  BY DEF SuppTypeOK, SuppPaeLeft
<1>2. SuppBeLeft \in 0 .. 6
  BY DEF SuppTypeOK, SuppBeLeft
<1>3. SuppDue \in 0 .. 20
  BY DEF SuppDue, Cnt
<1> QED BY <1>1, <1>2, <1>3

LEMMA SuppLeftPartsNext ==
  ASSUME SuppTypeOK'
  PROVE  SuppPaeLeft' \in 0 .. 10 /\ SuppBeLeft' \in 0 .. 6 /\ SuppDue' \in 0 .. 20
<1>1. SuppPaeLeft' \in 0 .. 10
  BY DEF SuppTypeOK, SuppPaeLeft
<1>2. SuppBeLeft' \in 0 .. 6
  BY DEF SuppTypeOK, SuppBeLeft
<1>3. SuppDue' \in 0 .. 20
  BY DEF SuppDue, Cnt
<1> QED BY <1>1, <1>2, <1>3

LEMMA SuppLeftRange == ASSUME SuppTypeOK PROVE SuppLeft \in 0 .. 36
<1> QED BY SuppLeftParts DEF SuppLeft, Cnt

\* Entries of SUPP_PAE.
LEMMA PaeLoop ==
  ASSUME SuppInv, SuppPae
  PROVE  SuppLeft' + Cnt(sch') <= SuppLeft + Cnt(sch)
<1>t. SuppTypeOK
  BY DEF SuppInv
<1>0. SUp' <=> SUp
  BY DEF SuppPae, SuppLogoff, SuppDisconnected, SuppConnecting, SuppAuthenticating, SuppHeld,
         SuppAuthenticated, SuppRestart, SUp
<1>1. CASE SuppLogoff
  BY <1>0, <1>1, <1>t, PaeFrom
  DEF SuppLogoff, PaeEnter, SuppLeft, SuppPaeLeft, SuppBeLeft, SuppDue, Cnt, SuppTypeOK
<1>2. CASE SuppConnecting
  BY <1>0, <1>2, <1>t, PaeFrom
  DEF SuppConnecting, PaeEnter, SuppLeft, SuppPaeLeft, SuppBeLeft, SuppDue, Cnt, SuppTypeOK
<1>3. CASE SuppDisconnected
  <2>1. SUp => \/ sPae = "LOGOFF" /\ "userLogoff" \notin sf
               \/ sPae = "AUTHENTICATED" /\ "portValid" \notin sf
    BY <1>3, <1>t, PaeFrom DEF SuppDisconnected, PaeEnter, PaeNext, SUp
  <2> QED BY <1>0, <1>3, <1>t, <2>1
    DEF SuppDisconnected, PaeEnter, SuppLeft, SuppPaeLeft, SuppBeLeft, SuppDue, Cnt, SuppTypeOK
<1>4. CASE SuppAuthenticating
  BY <1>0, <1>4, <1>t, PaeFrom
  DEF SuppAuthenticating, PaeEnter, SuppLeft, SuppPaeLeft, SuppBeLeft, SuppDue, Cnt, SuppTypeOK
<1>5. CASE SuppHeld
  BY <1>0, <1>5, <1>t, PaeFrom
  DEF SuppHeld, PaeEnter, SuppLeft, SuppPaeLeft, SuppBeLeft, SuppDue, Cnt, SuppTypeOK
<1>6. CASE SuppAuthenticated
  BY <1>0, <1>6, <1>t, PaeFrom
  DEF SuppAuthenticated, PaeEnter, SuppLeft, SuppPaeLeft, SuppBeLeft, SuppDue, Cnt, SuppTypeOK
<1>7. CASE SuppRestart
  <2>1. sBe \notin {"REQUEST", "RESPONSE"}
    BY <1>7, PaeAnswering DEF SuppRestart, PaeEnter
  <2> QED BY <1>0, <1>7, <1>t, <2>1, PaeFrom
    DEF SuppRestart, PaeEnter, SuppLeft, SuppPaeLeft, SuppBeLeft, SuppDue, Cnt, SuppTypeOK
<1> QED BY <1>1, <1>2, <1>3, <1>4, <1>5, <1>6, <1>7 DEF SuppPae

\* Entries of SUPP_BE.
LEMMA BeLoop ==
  ASSUME SuppInv, SuppBe
  PROVE  SuppLeft' + Cnt(sch') <= SuppLeft + Cnt(sch)
<1>t. SuppTypeOK /\ AtBe
  BY DEF SuppInv, SuppBe, SuppBeRequest, SuppBeResponse, SuppBeDone, SuppBeTimeout, SuppBeIdle,
         SuppBeInitialize, SuppBeReceive, BeEnter
<1>0. SUp' <=> SUp
  BY DEF SuppBe, SuppBeRequest, SuppBeResponse, SuppBeDone, SuppBeTimeout, SuppBeIdle,
         SuppBeInitialize, SuppBeReceive, SUp
<1>b. spc = "be" /\ SUp => sch = TRUE
  BY DEF SuppInv, SFlow
<1>s. /\ sBe = "IDLE" /\ "suppStart" \in sf => spc = "be"
      /\ "suppAbort" \in sf => spc = "be" /\ sBe \notin {"REQUEST", "RESPONSE"}
  BY DEF SuppInv, SFlow, SStarting
<1>1. CASE SuppBeRequest
  BY <1>b, <1>s, <1>0, <1>1, <1>t, BeFrom, AtBeFacts
  DEF SuppBeRequest, BeEnter, SuppLeft, SuppPaeLeft, SuppBeLeft, SuppDue, Cnt, SuppTypeOK
<1>2. CASE SuppBeResponse
  BY <1>0, <1>2, <1>t, BeFrom, AtBeFacts
  DEF SuppBeResponse, BeEnter, SuppLeft, SuppPaeLeft, SuppBeLeft, SuppDue, Cnt, SuppTypeOK
<1>3. CASE SuppBeDone
  <2>1. sBe = "IDLE" => "suppStart" \in sf
    BY <1>3 DEF SuppBeDone, BeEnter, BeNext
  <2> QED BY <2>1, <1>b, <1>s, <1>0, <1>3, <1>t, BeFrom, AtBeFacts
    DEF SuppBeDone, BeEnter, SuppLeft, SuppPaeLeft, SuppBeLeft, SuppDue, Cnt, SuppTypeOK
<1>4. CASE SuppBeTimeout
  <2>1. sBe = "RECEIVE" /\ "authWhile" \notin sTmr
    BY <1>4, <1>t DEF SuppBeTimeout, BeEnter, BeNext, SuppTypeOK
  <2> QED BY <2>1, <1>0, <1>4, <1>t, BeFrom, AtBeFacts
    DEF SuppBeTimeout, BeEnter, SuppLeft, SuppPaeLeft, SuppBeLeft, SuppDue, Cnt, SuppTypeOK
<1>5. CASE SuppBeIdle
  BY <1>0, <1>5, <1>t, BeFrom, AtBeFacts
  DEF SuppBeIdle, BeEnter, SuppLeft, SuppPaeLeft, SuppBeLeft, SuppDue, Cnt, SuppTypeOK
<1>6. CASE SuppBeInitialize
  BY <1>b, <1>s, <1>0, <1>6, <1>t, BeFrom, AtBeFacts
  DEF SuppBeInitialize, BeEnter, SuppLeft, SuppPaeLeft, SuppBeLeft, SuppDue, Cnt, SuppTypeOK
<1>7. CASE SuppBeReceive
  BY <1>0, <1>7, <1>t, BeFrom, AtBeFacts
  DEF SuppBeReceive, BeEnter, SuppLeft, SuppPaeLeft, SuppBeLeft, SuppDue, Cnt, SuppTypeOK
<1> QED BY <1>1, <1>2, <1>3, <1>4, <1>5, <1>6, <1>7 DEF SuppBe

\* A pass of the EAP peer with the port up, for which the flags pay.
LEMMA EapPassLoop ==
  ASSUME SuppTypeOK, SuppTypeOK', SUp, SUp', NEW x, EapPass(x),
         NEW k \in Nat, SuppPaeLeft' <= SuppPaeLeft + k, SuppDue' <= SuppDue - k - 1 + Cnt(sch),
         SuppBeLeft' = SuppBeLeft
  PROVE  spc' # "idle" /\ sRound' + SuppLeft' + Cnt(sch') <= sRound + SuppLeft + Cnt(sch)
<1>1. sRound \in Nat /\ Cnt(sch) \in Nat /\ Cnt(sch') = 1 /\ sRound' = sRound /\ spc' = "eap"
  BY DEF SuppTypeOK, EapPass, Cnt
<1>2. /\ SuppPaeLeft \in Nat /\ SuppBeLeft \in Nat /\ SuppDue \in Nat
      /\ SuppPaeLeft' \in Nat /\ SuppBeLeft' \in Nat /\ SuppDue' \in Nat
  BY SuppLeftParts, SuppLeftPartsNext
<1> QED BY <1>1, <1>2 DEF SuppLeft

\* The EAP peer has consumed a request, or its idle timer.
LEMMA NoResponseLoop ==
  ASSUME SuppTypeOK, SuppTypeOK', EapIdle, EapDiscard \/ EapSuccess \/ EapFailure,
         "eapReq" \in sf \/ ("idleWhile" \notin sTmr /\ ~EapDiscard)
  PROVE  spc' # "idle" /\ sRound' + SuppLeft' + Cnt(sch') <= sRound + SuppLeft + Cnt(sch)
<1>p. SuppPaeLeft \in Nat /\ SuppDue \in Nat /\ SuppPaeLeft' \in Nat /\ SuppDue' \in Nat
      /\ Cnt(sch) \in Nat
  BY SuppLeftParts, SuppLeftPartsNext DEF Cnt
<1>1. PICK x, F : /\ EapNoResponse(x, F)
                  /\ \/ x = "IDLE" /\ F = {} /\ "eapReq" \in sf
                     \/ x = "SUCCESS" /\ F = {"eapSuccess"}
                     \/ x = "FAILURE" /\ F = {"eapFail"}
  BY DEF EapDiscard, EapSuccess, EapFailure
<1>2. /\ sf' = (sf \ {"eapReq"}) \cup {"eapNoResp"} \cup F
      /\ sEap' = x /\ UNCHANGED <<sTmr, sPae, sBe>> /\ EapPass(x)
  BY <1>1 DEF EapNoResponse, EapPass
<1>3. /\ \A g \in {"portEnabled", "userLogoff", "eapolEap", "suppAbort", "suppStart", "suppTimeout",
                   "eapRestart", "portValid"} : g \in sf' <=> g \in sf
      /\ "eapReq" \notin sf'
      /\ x = "IDLE" => \A g \in {"eapSuccess", "eapFail"} : g \in sf' <=> g \in sf
  BY <1>1, <1>2
<1>4. SUp /\ SUp' /\ sEap = "IDLE"
  BY <1>3 DEF EapIdle, SUp
<1>5. SuppBeLeft' = SuppBeLeft
  BY <1>2, <1>3 DEF SuppBeLeft
<1>6. SuppPaeLeft' <= SuppPaeLeft + (IF x = "IDLE" THEN 0 ELSE 4)
  BY <1>2, <1>3 DEF SuppPaeLeft, SuppTypeOK
<1>7. SuppDue' <= SuppDue - 5
  BY <1>1, <1>2, <1>3, <1>4 DEF SuppDue, Cnt
<1>8. SuppPaeLeft' <= SuppPaeLeft + 4 /\ SuppDue' <= SuppDue - 4 - 1 + Cnt(sch)
  BY <1>p, <1>6, <1>7
<1> QED BY <1>2, <1>4, <1>5, <1>8, EapPassLoop

\* The EAP peer has answered a request.
LEMMA ResponseLoop ==
  ASSUME SuppTypeOK, SuppTypeOK', EapIdle, "eapReq" \in sf, NEW p, NEW r, SendResponse(p, r)
  PROVE  spc' # "idle" /\ sRound' + SuppLeft' + Cnt(sch') <= sRound + SuppLeft + Cnt(sch)
<1>p. SuppPaeLeft \in Nat /\ SuppDue \in Nat /\ SuppPaeLeft' \in Nat /\ SuppDue' \in Nat
      /\ Cnt(sch) \in Nat
  BY SuppLeftParts, SuppLeftPartsNext DEF Cnt
<1>2. /\ sf' = (sf \ {"eapReq"}) \cup (IF r = None THEN {} ELSE {"eapResp"})
      /\ sTmr' = sTmr \cup {"idleWhile"}
      /\ sEap' = "IDLE" /\ UNCHANGED <<sPae, sBe>> /\ EapPass("IDLE")
  BY DEF SendResponse, EapPass
<1>3. /\ \A g \in SFlags \ {"eapReq", "eapResp"} : g \in sf' <=> g \in sf
      /\ "eapReq" \notin sf'
      /\ \A g \in STimers \ {"idleWhile"} : g \in sTmr' <=> g \in sTmr
      /\ "idleWhile" \in sTmr'
  BY <1>2
<1>4. SUp /\ SUp'
  BY <1>3 DEF EapIdle, SUp, SFlags
<1>5. SuppBeLeft' = SuppBeLeft
  BY <1>2, <1>3 DEF SuppBeLeft, SFlags, STimers
<1>6. SuppPaeLeft' = SuppPaeLeft
  BY <1>2, <1>3 DEF SuppPaeLeft, SFlags, STimers
<1>7. SuppDue' <= SuppDue - 5
  BY <1>2, <1>3 DEF SuppDue, Cnt, SFlags, STimers
<1>8. SuppPaeLeft' <= SuppPaeLeft + 4 /\ SuppDue' <= SuppDue - 4 - 1 + Cnt(sch)
  BY <1>p, <1>6, <1>7
<1> QED BY <1>2, <1>4, <1>5, <1>8, EapPassLoop

\* Steps of the EAP peer, and the end of a round.
LEMMA EapLoop ==
  ASSUME SuppInv, SuppInv', SuppEap
  PROVE  IF spc' = "idle" THEN sRound' = 0
         ELSE sRound' + SuppLeft' + Cnt(sch') <= sRound + SuppLeft + Cnt(sch)
<1>t. SuppTypeOK /\ SuppTypeOK'
  BY DEF SuppInv
<1>1. CASE SuppEapInitialize
  <2>1. AtEap /\ SUp /\ ("eapRestart" \in sf \/ sEap = "DISABLED")
    BY <1>1 DEF SuppEapInitialize, SUp
  <2>2. spc \in {"be", "eap"}
    <3>1. CASE "eapRestart" \in sf
      BY <3>1 DEF SuppInv, SFlow
    <3>2. CASE sEap = "DISABLED"
      <4>1. sBe = "INITIALIZE" \/ spc = "eap"
        BY <3>2 DEF SuppInv, SResults
      <4> QED BY <1>t, <2>1, <4>1, AtEapFacts DEF SuppTypeOK
    <3> QED BY <2>1, <3>1, <3>2
  <2>3. sch = TRUE
    BY <2>1, <2>2 DEF SuppInv, SFlow
  <2>4. SUp'
    BY <1>1, <2>1 DEF SuppEapInitialize, SUp
  <2>5. SuppPaeLeft' <= SuppPaeLeft
    BY <1>1, <1>t DEF SuppEapInitialize, EapPass, SuppPaeLeft, SuppTypeOK
  <2>6. SuppBeLeft' = SuppBeLeft
    BY <1>1, <1>t DEF SuppEapInitialize, EapPass, SuppBeLeft, SuppTypeOK
  <2>7. SuppDue' <= SuppDue
    BY <1>1, <1>t DEF SuppEapInitialize, EapPass, SuppDue, Cnt, SuppTypeOK
  <2>8. EapPass("IDLE") /\ Cnt(sch) = 1
    BY <1>1, <2>3 DEF SuppEapInitialize, Cnt
  <2>9. SuppPaeLeft \in Nat /\ SuppDue \in Nat /\ SuppPaeLeft' \in Nat /\ SuppDue' \in Nat
    BY <1>t, SuppLeftParts, SuppLeftPartsNext
  <2>10. SuppPaeLeft' <= SuppPaeLeft + 0 /\ SuppDue' <= SuppDue - 0 - 1 + Cnt(sch)
    BY <2>5, <2>7, <2>8, <2>9
  <2> QED BY <1>t, <2>1, <2>4, <2>6, <2>8, <2>10, EapPassLoop
<1>2. CASE SuppEapDisabled
  BY <1>2, <1>t DEF SuppEapDisabled, EapPass, SuppLeft, Cnt, SuppTypeOK, SUp
<1>3. CASE SuppEapStay
  BY <1>3, <1>t DEF SuppEapStay, SuppLeft, SuppPaeLeft, SuppBeLeft, SuppDue, Cnt, SuppTypeOK, SUp
<1>4. CASE SuppEapRxSuccess
  BY <1>4, <1>t, NoResponseLoop DEF SuppEapRxSuccess, Received
<1>5. CASE SuppEapRxFailure
  BY <1>5, <1>t, NoResponseLoop DEF SuppEapRxFailure, Received
<1>6. CASE SuppEapDiscard
  BY <1>6, <1>t, NoResponseLoop DEF SuppEapDiscard, Received
<1>7. CASE SuppEapIdleTimeout
  <2>1. EapIdle /\ "idleWhile" \notin sTmr /\ (EapSuccess \/ EapFailure)
    BY <1>7 DEF SuppEapIdleTimeout
  <2>2. sEap' # "IDLE"
    BY <2>1 DEF EapSuccess, EapFailure, EapNoResponse, EapPass
  <2>3. ~EapDiscard
    BY <2>2 DEF EapDiscard, EapNoResponse, EapPass
  <2> QED BY <1>t, <2>1, <2>3, NoResponseLoop
<1>8. CASE SuppEapRetransmit
  BY <1>8, <1>t, ResponseLoop DEF SuppEapRetransmit, Received
<1>9. CASE SuppEapIdentity
  BY <1>9, <1>t, ResponseLoop DEF SuppEapIdentity, Received
<1>10. ASSUME NEW o \in Outcomes, SuppEapMethod(o)
       PROVE  spc' # "idle" /\ sRound' + SuppLeft' + Cnt(sch') <= sRound + SuppLeft + Cnt(sch)
  <2>1. o \in {"pending", "fail", "COND_SUCC", "UNCOND_SUCC"}
    BY EapolSuppAssumption
  <2>2. EapIdle /\ "eapReq" \in sf
    BY <1>10 DEF SuppEapMethod, Received
  <2>3. EapDiscard \/ EapFailure \/ \E p, r : SendResponse(p, r)
    BY <1>10, <2>1 DEF SuppEapMethod
  <2> QED BY <1>t, <2>2, <2>3, NoResponseLoop, ResponseLoop
<1> QED BY <1>1, <1>2, <1>3, <1>4, <1>5, <1>6, <1>7, <1>8, <1>9, <1>10 DEF SuppEap

\* The rounds done and those that may still come.
SuppLoop == IF spc = "idle" THEN sRound = 0
            ELSE sRound + SuppLeft + Cnt(sch) <= 37

LEMMA SuppLoopStep ==
  ASSUME SuppInv, SuppInv', SuppRun, SuppLoop PROVE SuppLoop'
<1>t. SuppTypeOK /\ SuppTypeOK'
  BY DEF SuppInv
<1>n. sRound \in Nat /\ SuppLeft \in Nat /\ Cnt(sch) \in Nat
  BY <1>t, SuppLeftRange DEF SuppTypeOK, Cnt
<1>m. sRound' \in Nat /\ SuppLeft' \in Nat /\ Cnt(sch') \in Nat
  BY <1>t, SuppLeftPartsNext DEF SuppTypeOK, Cnt, SuppLeft
<1>1. CASE SuppPae
  <2>1. SuppLeft' + Cnt(sch') <= SuppLeft + Cnt(sch)
    BY <1>1, PaeLoop
  <2>2. spc # "idle" /\ spc' # "idle" /\ sRound' = sRound
    BY <1>1 DEF SuppPae, SuppLogoff, SuppDisconnected, SuppConnecting, SuppAuthenticating, SuppHeld,
                SuppAuthenticated, SuppRestart, PaeEnter
  <2> QED BY <1>n, <1>m, <2>1, <2>2 DEF SuppLoop
<1>2. CASE SuppBe
  <2>1. SuppLeft' + Cnt(sch') <= SuppLeft + Cnt(sch)
    BY <1>2, BeLoop
  <2>2. spc # "idle" /\ spc' # "idle" /\ sRound' = sRound
    BY <1>2 DEF SuppBe, SuppBeRequest, SuppBeResponse, SuppBeDone, SuppBeTimeout, SuppBeIdle,
                SuppBeInitialize, SuppBeReceive, BeEnter, AtBe
  <2> QED BY <1>n, <1>m, <2>1, <2>2 DEF SuppLoop
<1>3. CASE AtEap /\ SuppEap
  <2>1. IF spc' = "idle" THEN sRound' = 0
        ELSE sRound' + SuppLeft' + Cnt(sch') <= sRound + SuppLeft + Cnt(sch)
    BY <1>3, EapLoop
  <2>2. spc # "idle"
    BY <1>3, AtEapFacts
  <2> QED BY <1>n, <1>m, <2>1, <2>2 DEF SuppLoop
<1> QED BY <1>1, <1>2, <1>3 DEF SuppRun

\* A run starts with its first round.
LEMMA SuppLoopStart ==
  ASSUME SuppTypeOK', SStep PROVE SuppLoop'
<1>1. SuppPaeLeft' \in 0 .. 10 /\ SuppBeLeft' \in 0 .. 6 /\ SuppDue' \in 0 .. 20
  BY SuppLeftPartsNext
<1>a. \A a \in 0 .. 10, b \in 0 .. 6, c \in 0 .. 20 : a + b + c \in 0 .. 36
  OBVIOUS
<1>b. \A a \in 0 .. 36 : 1 + a + 0 <= 37
  OBVIOUS
<1>2. SuppLeft' \in 0 .. 36
  <2>1. CASE SUp'
    BY <1>1, <1>a, <2>1 DEF SuppLeft
  <2>2. CASE ~SUp'
    BY <2>2 DEF SuppLeft, Cnt
  <2> QED BY <2>1, <2>2
<1>3. sRound' = 1 /\ Cnt(sch') = 0 /\ spc' = "pae"
  BY DEF SStep, Cnt
<1> QED BY <1>b, <1>2, <1>3 DEF SuppLoop
=============================================================================
