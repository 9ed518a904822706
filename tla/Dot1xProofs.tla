----------------------------- MODULE Dot1xProofs -----------------------------
(* Theorems about a Supplicant and an Authenticator joined by a lossy link,    *)
(* for every capacity of the link, every limit of the code's counters and any  *)
(* number of events and challenges.                                            *)
(*                                                                             *)
(* Each side keeps its own invariant (of the Supplicant: EapolSuppProofs; of   *)
(* the Authenticator: the first part of this module).  That the two sides      *)
(* agree on the key needs one more, about a challenge on its way round: behind *)
(* a request of the current conversation the link holds only frames of that    *)
(* conversation, so the Supplicant, once it has answered the server's current  *)
(* challenge, cannot come to hold the key of an older one.                     *)
EXTENDS Dot1x, EapolSuppProofs

------------------------------------------------------------------------------
(* What every step of the Authenticator's 802.1X machines preserves, whatever  *)
(* the limits, the Identifiers and the verdicts of the server's method: lemmas *)
(* about single actions of EapolAuth.                                          *)

AUp == "portEnabled" \in af

\* Where the loop of eapol_sm_step_run is, and what AUTH_PAE has done by then:
\* with the port down it is in INITIALIZE, and with the port up the loop reaches
\* the EAP server only when AUTH_PAE has nothing to do.
AuthFlow ==
  /\ apc = "be" /\ AUp => ach = TRUE
  /\ apc \in {"reauth", "eap"} /\ ach = FALSE /\ AUp => AuthPaeNext = "stay"
  /\ apc = "eap" /\ AUp => aPae \notin {"INITIALIZE", "DISCONNECTED"}
  /\ apc \in {"be", "reauth", "eap"} /\ ~AUp => aPae = "INITIALIZE"
  /\ "authAbort" \in af => apc = "be"

\* A restart of the EAP server that AUTH_PAE has asked for is not lost, and
\* between two runs of the loop AUTH_PAE waits neither for a restart nor, in
\* CONNECTING, with something of the server's to look at.
AuthRestarts ==
  /\ "eapRestart" \in af => aPae \in {"RESTART", "INITIALIZE", "DISCONNECTED"}
  /\ aEap = "DISABLED" => \/ aPae \in {"INITIALIZE", "DISCONNECTED"}
                          \/ aPae = "RESTART" /\ "eapRestart" \in af
  /\ apc = "idle" => aPae # "RESTART"
  /\ apc = "idle" /\ aPae = "CONNECTING" =>
       "eapReq" \notin af /\ "eapSuccess" \notin af /\ "eapFail" \notin af

\* The server's key is the challenge of the method it has just completed.
AuthServer ==
  /\ srv.key \in {None, srv.nonce}
  /\ aEap = "IDLE" => srv.key = None
  /\ "eapSuccess" \in af => aEap \in {"SUCCESS", "DISABLED"} /\ srv.key # None
  /\ srv.nonce # None /\ srv.nonce = rsn.pmk => srv.key = srv.nonce

\* BE_AUTH is not in the course of an authentication.
BeDone == aBe \in {"SUCCESS", "INITIALIZE"} \/ (aBe = "IDLE" /\ "authStart" \notin af)

\* keyRun is set while the key of a success waits for the 4-way handshake.  In
\* the run of the loop that restarts the server, or that sees the port go down, it
\* outlives the key; AUTHENTICATING or INITIALIZE clears it before the run ends.
AuthKeyRun ==
  "keyRun" \in af =>
    /\ "authAbort" \notin af
    /\ aBe = "SUCCESS" \/ (aBe = "IDLE" /\ "authStart" \notin af)
    /\ apc = "reauth" => ach = TRUE
    /\ ~AUp => apc \notin {"be", "eap"}
    /\ \/ "eapSuccess" \in af /\ srv.key # None /\ srv.key # rsn.pmk
       \/ /\ apc # "idle" /\ AUp /\ "eapReq" \in af
          /\ aPae \in {"RESTART", "CONNECTING", "DISCONNECTED"}
       \/ ~AUp /\ apc \in {"reauth", "pae"}

\* A key that a handshake has been started with is not offered again before the
\* server has been restarted.
AuthKeyUsed ==
  srv.key # None /\ srv.key = rsn.pmk =>
    /\ BeDone
    /\ aPae # "CONNECTING"
    /\ aPae = "RESTART" => "eapRestart" \in af

\* What the ranges of the counters rest on.
AuthCounts ==
  /\ reAuthCount = ReAuthMax + 1 => aPae \in {"CONNECTING", "INITIALIZE"}
  /\ aEap = "IDLE" => srv.retrans <= MaxRetrans
  /\ "eapolEap" \in af => respNew = TRUE

AuthInv ==
  /\ AuthTypeOK /\ AuthFlow /\ AuthRestarts /\ AuthServer
  /\ AuthKeyRun /\ AuthKeyUsed /\ AuthCounts

LEMMA AuthInvInit == AuthInit => AuthInv
<1> SUFFICES ASSUME AuthInit PROVE AuthInv
  OBVIOUS
<1>a. 0 \in 0 .. ReAuthMax + 1 /\ 0 \in 0 .. MaxRetrans + 1
  BY EapolAuthAssumption
<1>b. af \subseteq AFlags
  BY DEF AuthInit, AFlags
<1>1. AuthTypeOK
  BY <1>a, <1>b DEF AuthInit, AuthTypeOK, NoServerSession
<1>2. AuthFlow /\ AuthRestarts /\ AuthServer
  BY DEF AuthInit, AuthFlow, AuthRestarts, AuthServer, NoServerSession
<1>3. AuthKeyRun /\ AuthKeyUsed /\ AuthCounts
  BY EapolAuthAssumption DEF AuthInit, AuthKeyRun, AuthKeyUsed, AuthCounts, NoServerSession
<1> QED BY <1>1, <1>2, <1>3 DEF AuthInv

\* Reaching the EAP server.
LEMMA AtAuthEapFacts ==
  ASSUME AuthTypeOK, AuthFlow, AtAuthEap
  PROVE  /\ AUp => aPae \notin {"INITIALIZE", "DISCONNECTED"}
         /\ AUp /\ ach = FALSE => AuthPaeNext = "stay"
         /\ ~AUp => aPae = "INITIALIZE" /\ apc # "pae"
         /\ apc # "idle"
         /\ apc = "eap" \/ ach = FALSE
         /\ "authAbort" \notin af
<1>1. apc \in {"pae", "be", "reauth", "eap"} /\ (apc = "eap" \/ ach = FALSE)
  BY DEF AtAuthEap, AtReauth, AtAuthBe, AuthTypeOK
<1>2. "authAbort" \notin af
  BY DEF AtAuthEap, AtReauth, AtAuthBe, AuthFlow, AuthBeNext
<1>3. apc = "pae" => AuthPaeNext = "stay"
  BY DEF AtAuthEap, AtReauth, AtAuthBe
<1>4. apc = "pae" => AUp
  BY <1>3 DEF AUp, AuthPaeNext
<1>5. AuthPaeNext = "stay" => aPae \notin {"INITIALIZE", "DISCONNECTED"}
  BY DEF AuthPaeNext
<1> QED BY <1>1, <1>2, <1>3, <1>4, <1>5 DEF AuthFlow

\* What SM_STEP(AUTH_PAE) requires of the state it enters.
LEMMA AuthPaeFrom ==
  ASSUME AuthTypeOK
  PROVE  /\ AuthPaeNext = "INITIALIZE" => ~AUp
         /\ AuthPaeNext # "INITIALIZE" => AUp
         /\ AuthPaeNext = "DISCONNECTED" =>
              aPae \in {"INITIALIZE", "CONNECTING", "AUTHENTICATED", "ABORTING"}
         /\ AuthPaeNext = "RESTART" =>
              aPae \in {"DISCONNECTED", "HELD", "AUTHENTICATED", "ABORTING"}
         /\ AuthPaeNext = "CONNECTING" => aPae = "RESTART" /\ "eapRestart" \notin af
         /\ AuthPaeNext = "AUTHENTICATING" => aPae = "CONNECTING" /\ ~(reAuthCount > ReAuthMax)
         /\ AuthPaeNext \in {"AUTHENTICATED", "HELD", "ABORTING"} => aPae = "AUTHENTICATING"
<1>1. aPae \in {"INITIALIZE", "DISCONNECTED", "RESTART", "CONNECTING",
               "AUTHENTICATING", "AUTHENTICATED", "ABORTING", "HELD"}
  BY DEF AuthTypeOK
<1> QED BY <1>1 DEF AuthPaeNext, AUp

\* An entry of AUTH_PAE keeps the types once the flags and the counter are known.
LEMMA AuthPaeType ==
  ASSUME AuthTypeOK, NEW x \in {"INITIALIZE", "DISCONNECTED", "RESTART", "CONNECTING",
                                "AUTHENTICATING", "AUTHENTICATED", "ABORTING", "HELD"},
         AuthPaeEnter(x), af' \subseteq AFlags, aTmr' \subseteq ATimers,
         reAuthCount' \in 0 .. ReAuthMax + 1, aPort' \in BOOLEAN, discDue' \in BOOLEAN
  PROVE  AuthTypeOK'
BY DEF AuthTypeOK, AuthPaeEnter

LEMMA AuthPaeStep ==
  ASSUME AuthInv, AuthPae PROVE AuthInv'
<1> USE DEF AuthInv
<1>1. apc = "pae"
  BY DEF AuthPae, AuthInitialize, AuthDisconnected, AuthRestart, AuthConnecting, AuthHeld,
         AuthAuthenticated, AuthAuthenticating, AuthAborting, AuthPaeEnter
<1>t. /\ af \subseteq AFlags /\ aTmr \subseteq ATimers /\ aPort \in BOOLEAN /\ discDue \in BOOLEAN
      /\ reAuthCount \in 0 .. ReAuthMax + 1 /\ 0 \in 0 .. ReAuthMax + 1
  BY EapolAuthAssumption DEF AuthTypeOK
<1>n. /\ 0 # ReAuthMax + 1
      /\ ~(reAuthCount > ReAuthMax) => reAuthCount # ReAuthMax + 1
  BY <1>t, EapolAuthAssumption
<1>2. CASE AuthInitialize
  <2>1. ~AUp
    BY <1>2, AuthPaeFrom DEF AuthInitialize, AuthPaeEnter
  <2>2. AuthTypeOK'
    BY <1>2, <1>t, AuthPaeType DEF AuthInitialize
  <2>3. AuthFlow' /\ AuthCounts'
    BY <1>2, <1>1, <2>1 DEF AuthInitialize, AuthPaeEnter, AuthFlow, AuthCounts, AUp
  <2>4. AuthRestarts' /\ AuthServer'
    BY <1>2, <1>1, <2>1 DEF AuthInitialize, AuthPaeEnter, AuthRestarts, AuthServer
  <2>5. AuthKeyRun' /\ AuthKeyUsed'
    BY <1>2 DEF AuthInitialize, AuthPaeEnter, AuthKeyRun, AuthKeyUsed, BeDone
  <2> QED BY <2>2, <2>3, <2>4, <2>5
<1>3. CASE AuthDisconnected
  <2>1. AUp /\ aPae \in {"INITIALIZE", "CONNECTING", "AUTHENTICATED", "ABORTING"}
    BY <1>3, AuthPaeFrom DEF AuthDisconnected, AuthPaeEnter
  <2>2. AuthTypeOK'
    BY <1>3, <1>t, AuthPaeType DEF AuthDisconnected
  <2>3. AuthFlow' /\ AuthCounts'
    BY <1>3, <1>1, <1>n, <2>1
    DEF AuthDisconnected, AuthPaeEnter, AuthFlow, AuthCounts, AUp
  <2>4. AuthRestarts' /\ AuthServer'
    BY <1>3, <1>1, <2>1 DEF AuthDisconnected, AuthPaeEnter, AuthRestarts, AuthServer
  <2>5. AuthKeyRun' /\ AuthKeyUsed'
    BY <1>3, <1>1, <2>1 DEF AuthDisconnected, AuthPaeEnter, AuthKeyRun, AuthKeyUsed, BeDone, AUp
  <2> QED BY <2>2, <2>3, <2>4, <2>5
<1>4. CASE AuthRestart
  <2>1. AUp /\ aPae \in {"DISCONNECTED", "HELD", "AUTHENTICATED", "ABORTING"}
    BY <1>4, AuthPaeFrom DEF AuthRestart, AuthPaeEnter
  <2>2. AuthTypeOK'
    BY <1>4, <1>t, AuthPaeType DEF AuthRestart, AFlags
  <2>3. AuthFlow' /\ AuthCounts'
    BY <1>4, <1>1, <2>1 DEF AuthRestart, AuthPaeEnter, AuthFlow, AuthCounts, AUp
  <2>4. AuthRestarts' /\ AuthServer'
    BY <1>4, <1>1, <2>1 DEF AuthRestart, AuthPaeEnter, AuthRestarts, AuthServer
  <2>5. AuthKeyRun' /\ AuthKeyUsed'
    BY <1>4, <1>1, <2>1 DEF AuthRestart, AuthPaeEnter, AuthKeyRun, AuthKeyUsed, BeDone, AUp
  <2> QED BY <2>2, <2>3, <2>4, <2>5
<1>5. CASE AuthConnecting
  <2>1. AUp /\ aPae = "RESTART" /\ "eapRestart" \notin af
    BY <1>5, AuthPaeFrom DEF AuthConnecting, AuthPaeEnter
  <2>2. reAuthCount + 1 \in 0 .. ReAuthMax + 1
    BY <1>t, <2>1, EapolAuthAssumption DEF AuthCounts
  <2>3. AuthTypeOK'
    BY <1>5, <1>t, <2>2, AuthPaeType DEF AuthConnecting
  <2>4. AuthFlow' /\ AuthCounts'
    BY <1>5, <1>1, <2>1 DEF AuthConnecting, AuthPaeEnter, AuthFlow, AuthCounts, AUp
  <2>5. AuthRestarts' /\ AuthServer'
    BY <1>5, <1>1, <2>1 DEF AuthConnecting, AuthPaeEnter, AuthRestarts, AuthServer
  <2>6. AuthKeyRun' /\ AuthKeyUsed'
    BY <1>5, <1>1, <2>1 DEF AuthConnecting, AuthPaeEnter, AuthKeyRun, AuthKeyUsed, BeDone, AUp
  <2> QED BY <2>3, <2>4, <2>5, <2>6
<1>6. CASE AuthHeld
  <2>1. AUp /\ aPae = "AUTHENTICATING"
    BY <1>6, AuthPaeFrom DEF AuthHeld, AuthPaeEnter
  <2>2. AuthTypeOK'
    BY <1>6, <1>t, AuthPaeType DEF AuthHeld, ATimers
  <2>3. AuthFlow' /\ AuthCounts'
    BY <1>6, <1>1, <2>1 DEF AuthHeld, AuthPaeEnter, AuthFlow, AuthCounts, AUp
  <2>4. AuthRestarts' /\ AuthServer'
    BY <1>6, <1>1, <2>1 DEF AuthHeld, AuthPaeEnter, AuthRestarts, AuthServer
  <2>5. AuthKeyRun' /\ AuthKeyUsed'
    BY <1>6, <1>1, <2>1 DEF AuthHeld, AuthPaeEnter, AuthKeyRun, AuthKeyUsed, BeDone, AUp
  <2> QED BY <2>2, <2>3, <2>4, <2>5
<1>7. CASE AuthAuthenticated
  <2>1. AUp /\ aPae = "AUTHENTICATING"
    BY <1>7, AuthPaeFrom DEF AuthAuthenticated, AuthPaeEnter
  <2>2. AuthTypeOK'
    BY <1>7, <1>t, AuthPaeType DEF AuthAuthenticated
  <2>3. AuthFlow' /\ AuthCounts'
    BY <1>7, <1>1, <1>n, <2>1
    DEF AuthAuthenticated, AuthPaeEnter, AuthFlow, AuthCounts, AUp
  <2>4. AuthRestarts' /\ AuthServer'
    BY <1>7, <1>1, <2>1 DEF AuthAuthenticated, AuthPaeEnter, AuthRestarts, AuthServer
  <2>5. AuthKeyRun' /\ AuthKeyUsed'
    BY <1>7, <1>1, <2>1 DEF AuthAuthenticated, AuthPaeEnter, AuthKeyRun, AuthKeyUsed, BeDone, AUp
  <2> QED BY <2>2, <2>3, <2>4, <2>5
<1>8. CASE AuthAuthenticating
  <2>1. AUp /\ aPae = "CONNECTING" /\ ~(reAuthCount > ReAuthMax)
    BY <1>8, AuthPaeFrom DEF AuthAuthenticating, AuthPaeEnter
  <2>2. AuthTypeOK'
    BY <1>8, <1>t, AuthPaeType DEF AuthAuthenticating, AFlags
  <2>3. AuthFlow' /\ AuthCounts'
    BY <1>8, <1>1, <1>n, <2>1
    DEF AuthAuthenticating, AuthPaeEnter, AuthFlow, AuthCounts, AUp
  <2>4. AuthRestarts' /\ AuthServer'
    BY <1>8, <1>1, <2>1 DEF AuthAuthenticating, AuthPaeEnter, AuthRestarts, AuthServer
  <2>5. AuthKeyRun' /\ AuthKeyUsed'
    BY <1>8, <1>1, <2>1 DEF AuthAuthenticating, AuthPaeEnter, AuthKeyRun, AuthKeyUsed, AUp
  <2> QED BY <2>2, <2>3, <2>4, <2>5
<1>9. CASE AuthAborting
  <2>1. AUp /\ aPae = "AUTHENTICATING"
    BY <1>9, AuthPaeFrom DEF AuthAborting, AuthPaeEnter
  <2>2. AuthTypeOK'
    BY <1>9, <1>t, AuthPaeType DEF AuthAborting, AFlags
  <2>3. AuthFlow' /\ AuthCounts'
    BY <1>9, <1>1, <2>1 DEF AuthAborting, AuthPaeEnter, AuthFlow, AuthCounts, AUp
  <2>4. AuthRestarts' /\ AuthServer'
    BY <1>9, <1>1, <2>1 DEF AuthAborting, AuthPaeEnter, AuthRestarts, AuthServer
  <2>5. AuthKeyRun' /\ AuthKeyUsed'
    BY <1>9, <1>1, <2>1 DEF AuthAborting, AuthPaeEnter, AuthKeyRun, AuthKeyUsed, BeDone, AUp
  <2> QED BY <2>2, <2>3, <2>4, <2>5
<1> QED
  BY <1>2, <1>3, <1>4, <1>5, <1>6, <1>7, <1>8, <1>9 DEF AuthPae

\* What SM_STEP(BE_AUTH) requires of the state it enters.
LEMMA AuthBeFrom ==
  ASSUME AuthTypeOK
  PROVE  /\ AuthBeNext = "INITIALIZE" <=> "authAbort" \in af
         /\ AuthBeNext = "REQUEST" =>
              ~BeDone /\ aBe \in {"REQUEST", "IGNORE", "RESPONSE", "IDLE"}
         /\ AuthBeNext = "RESPONSE" => aBe \in {"REQUEST", "IGNORE"} /\ "eapolEap" \in af
         /\ AuthBeNext = "SUCCESS" =>
              ~BeDone /\ aBe \in {"RESPONSE", "IDLE"} /\ "eapSuccess" \in af
         /\ AuthBeNext = "FAIL" => ~BeDone /\ aBe \in {"RESPONSE", "IDLE"}
         /\ AuthBeNext = "TIMEOUT" => aBe \in {"REQUEST", "IGNORE", "RESPONSE"}
         /\ AuthBeNext = "IDLE" => aBe \in {"INITIALIZE", "SUCCESS", "FAIL", "TIMEOUT"}
         /\ AuthBeNext = "IGNORE" => aBe = "RESPONSE"
<1>1. aBe \in {"INITIALIZE", "IDLE", "REQUEST", "RESPONSE", "SUCCESS", "FAIL",
              "TIMEOUT", "IGNORE"}
  BY DEF AuthTypeOK
<1> QED BY <1>1 DEF AuthBeNext, BeDone

LEMMA AuthBeType ==
  ASSUME AuthTypeOK, NEW x \in {"INITIALIZE", "IDLE", "REQUEST", "RESPONSE", "SUCCESS",
                                "FAIL", "TIMEOUT", "IGNORE"},
         AuthBeEnter(x), af' \subseteq AFlags, aTmr' \subseteq ATimers, respNew' \in BOOLEAN
  PROVE  AuthTypeOK'
BY DEF AuthTypeOK, AuthBeEnter

\* The loop reaches BE_AUTH from AUTH_PAE, or because AUTH_PAE stays.
LEMMA AtAuthBeFacts ==
  ASSUME AuthTypeOK, AuthFlow, AtAuthBe
  PROVE  /\ apc \in {"pae", "be"}
         /\ AUp /\ ach = FALSE => AuthPaeNext = "stay" /\ apc = "pae"
         /\ ~AUp => aPae = "INITIALIZE" /\ apc = "be"
<1>1. apc = "pae" => AuthPaeNext = "stay" /\ AUp
  BY DEF AtAuthBe, AUp, AuthPaeNext
<1> QED BY <1>1 DEF AtAuthBe, AuthFlow

LEMMA AuthBeFlow ==
  ASSUME AuthTypeOK, AuthFlow,
         NEW x \in {"INITIALIZE", "IDLE", "REQUEST", "RESPONSE", "SUCCESS",
                    "FAIL", "TIMEOUT", "IGNORE"},
         AuthBeEnter(x), "quietWhile" \in aTmr' <=> "quietWhile" \in aTmr,
         "portEnabled" \in af' <=> "portEnabled" \in af,
         aBe = x => af' \subseteq af /\ af \ af' \subseteq {"eapReq", "eapolEap", "eapNoReq", "authAbort"},
         "authAbort" \notin af'
  PROVE  AuthFlow'
<1>1. /\ apc \in {"pae", "be"}
      /\ AUp /\ ach = FALSE => AuthPaeNext = "stay" /\ apc = "pae"
      /\ ~AUp => aPae = "INITIALIZE" /\ apc = "be"
  BY AtAuthBeFacts DEF AuthBeEnter
<1>2. ach \in BOOLEAN /\ ach' = (ach \/ aBe # x) /\ apc' = "reauth" /\ AUp' = AUp /\ aPae' = aPae
  BY DEF AuthTypeOK, AuthBeEnter, AUp
<1>3. ASSUME AUp', ach' = FALSE PROVE AuthPaeNext' = "stay"
  <2>1. AuthPaeNext = "stay" /\ aBe = x /\ apc = "pae" /\ "authAbort" \notin af
    BY <1>1, <1>2, <1>3 DEF AuthFlow
  <2>2. /\ \A g \in AFlags \ {"eapReq", "eapolEap", "eapNoReq"} : g \in af' <=> g \in af
        /\ "eapReq" \in af' => "eapReq" \in af
    BY <2>1
  <2>3. aPae' = aPae /\ ("quietWhile" \in aTmr' <=> "quietWhile" \in aTmr) /\ reAuthCount' = reAuthCount
    BY DEF AuthBeEnter
  <2>4. aPae \in {"INITIALIZE", "DISCONNECTED", "RESTART", "CONNECTING",
                 "AUTHENTICATING", "AUTHENTICATED", "ABORTING", "HELD"}
    BY DEF AuthTypeOK
  <2>5. /\ "eapRestart" \in af' <=> "eapRestart" \in af
        /\ "eapolLogoff" \in af' <=> "eapolLogoff" \in af
        /\ "eapSuccess" \in af' <=> "eapSuccess" \in af
        /\ "eapFail" \in af' <=> "eapFail" \in af
        /\ "eapolStart" \in af' <=> "eapolStart" \in af
        /\ "reAuthenticate" \in af' <=> "reAuthenticate" \in af
        /\ "portValid" \in af' <=> "portValid" \in af
        /\ "authSuccess" \in af' <=> "authSuccess" \in af
        /\ "authFail" \in af' <=> "authFail" \in af
        /\ "authTimeout" \in af' <=> "authTimeout" \in af
        /\ "authAbort" \in af' <=> "authAbort" \in af
        /\ "portEnabled" \in af' <=> "portEnabled" \in af
    BY <2>2 DEF AFlags
  <2> QED BY <2>1, <2>2, <2>3, <2>4, <2>5 DEF AuthPaeNext
<1> QED BY <1>1, <1>2, <1>3 DEF AuthFlow

LEMMA AuthBeStep ==
  ASSUME AuthInv, AuthBe PROVE AuthInv'
<1> USE DEF AuthInv
<1>t. af \subseteq AFlags /\ aTmr \subseteq ATimers /\ respNew \in BOOLEAN /\ ach \in BOOLEAN
  BY DEF AuthTypeOK
<1>0. ASSUME NEW x, AuthBeEnter(x)
      PROVE  /\ apc' = "reauth" /\ ach' = (ach \/ aBe # x) /\ aBe' = x /\ AuthBeNext = x
             /\ UNCHANGED <<rsn, aPae, aEap, reAuthCount, srv>>
             /\ apc \in {"pae", "be"}
             /\ ~AUp => aPae = "INITIALIZE" /\ apc = "be"
  BY <1>0, AtAuthBeFacts DEF AuthBeEnter
<1>2. CASE AuthBeInitialize
  <2>1. AuthTypeOK'
    BY <1>2, <1>t, AuthBeType DEF AuthBeInitialize
  <2>2. AuthFlow'
    BY <1>2, AuthBeFlow DEF AuthBeInitialize
  <2>3. "authAbort" \in af
    BY <1>2, AuthBeFrom DEF AuthBeInitialize, AuthBeEnter
  <2>4. AuthRestarts' /\ AuthServer' /\ AuthCounts'
    BY <1>2, <1>0 DEF AuthBeInitialize, AuthRestarts, AuthServer, AuthCounts
  <2>5. AuthKeyRun' /\ AuthKeyUsed'
    BY <1>2, <1>0, <2>3 DEF AuthBeInitialize, AuthKeyRun, AuthKeyUsed, BeDone
  <2> QED BY <2>1, <2>2, <2>4, <2>5
<1>3. CASE AuthBeRequest
  <2>0. "authAbort" \notin af /\ ~BeDone
    BY <1>3, AuthBeFrom DEF AuthBeRequest, AuthBeEnter
  <2>1. AuthTypeOK'
    BY <1>3, <1>t, AuthBeType DEF AuthBeRequest
  <2>2. AuthFlow'
    BY <1>3, <2>0, AuthBeFlow DEF AuthBeRequest, NoReqDone
  <2>4. AuthRestarts' /\ AuthServer' /\ AuthCounts'
    BY <1>3, <1>0 DEF AuthBeRequest, AuthRestarts, AuthServer, AuthCounts, NoReqDone
  <2>5. AuthKeyRun' /\ AuthKeyUsed'
    BY <1>3, <1>0, <2>0 DEF AuthBeRequest, AuthKeyRun, AuthKeyUsed, BeDone, NoReqDone
  <2> QED BY <2>1, <2>2, <2>4, <2>5
<1>4. CASE AuthBeResponse
  <2>0. "authAbort" \notin af /\ ~BeDone /\ aBe \in {"REQUEST", "IGNORE"}
    BY <1>4, AuthBeFrom DEF AuthBeResponse, AuthBeEnter, BeDone
  <2>1. AuthTypeOK'
    BY <1>4, <1>t, AuthBeType DEF AuthBeResponse, AFlags, ATimers
  <2>2. AuthFlow'
    BY <1>4, <2>0, AuthBeFlow DEF AuthBeResponse
  <2>4. AuthRestarts' /\ AuthServer' /\ AuthCounts'
    BY <1>4, <1>0 DEF AuthBeResponse, AuthRestarts, AuthServer, AuthCounts
  <2>5. AuthKeyRun' /\ AuthKeyUsed'
    BY <1>4, <1>0, <2>0 DEF AuthBeResponse, AuthKeyRun, AuthKeyUsed, BeDone
  <2> QED BY <2>1, <2>2, <2>4, <2>5
<1>5. CASE AuthBeSuccess
  <2>0. /\ "authAbort" \notin af /\ ~BeDone /\ aBe \in {"RESPONSE", "IDLE"}
        /\ "eapSuccess" \in af
    BY <1>5, AuthBeFrom DEF AuthBeSuccess, AuthBeEnter
  <2>1. AuthTypeOK'
    BY <1>5, <1>t, AuthBeType DEF AuthBeSuccess, AFlags
  <2>2. AuthFlow'
    BY <1>5, <2>0, AuthBeFlow DEF AuthBeSuccess, NoReqDone
  <2>4. AuthRestarts' /\ AuthServer' /\ AuthCounts'
    BY <1>5, <1>0 DEF AuthBeSuccess, AuthRestarts, AuthServer, AuthCounts, NoReqDone
  <2>5. srv.key # None /\ srv.key # rsn.pmk
    BY <2>0 DEF AuthServer, AuthKeyUsed
  <2>a. ach' = TRUE /\ apc' = "reauth" /\ aBe' = "SUCCESS"
    BY <1>5, <1>t, <2>0 DEF AuthBeSuccess, AuthBeEnter
  <2>6. AuthKeyRun'
    BY <1>5, <1>0, <2>a, <2>0, <2>5 DEF AuthBeSuccess, AuthKeyRun, NoReqDone
  <2>7. AuthKeyUsed'
    BY <1>5, <1>0, <2>5 DEF AuthKeyUsed, AuthBeSuccess
  <2> QED BY <2>1, <2>2, <2>4, <2>6, <2>7
<1>6. CASE AuthBeFail
  <2>0. "authAbort" \notin af /\ ~BeDone /\ aBe \in {"RESPONSE", "IDLE"}
    BY <1>6, AuthBeFrom DEF AuthBeFail, AuthBeEnter
  <2>1. AuthTypeOK'
    BY <1>6, <1>t, AuthBeType DEF AuthBeFail, AFlags
  <2>2. AuthFlow'
    BY <1>6, <2>0, AuthBeFlow DEF AuthBeFail, NoReqDone
  <2>4. AuthRestarts' /\ AuthServer' /\ AuthCounts'
    BY <1>6, <1>0 DEF AuthBeFail, AuthRestarts, AuthServer, AuthCounts, NoReqDone
  <2>5. AuthKeyRun' /\ AuthKeyUsed'
    BY <1>6, <1>0, <2>0 DEF AuthBeFail, AuthKeyRun, AuthKeyUsed, BeDone, NoReqDone
  <2> QED BY <2>1, <2>2, <2>4, <2>5
<1>7. CASE AuthBeTimeout
  <2>0. "authAbort" \notin af /\ ~BeDone /\ aBe \in {"REQUEST", "IGNORE", "RESPONSE"}
    BY <1>7, AuthBeFrom DEF AuthBeTimeout, AuthBeEnter, BeDone
  <2>1. AuthTypeOK'
    BY <1>7, <1>t, AuthBeType DEF AuthBeTimeout, AFlags
  <2>2. AuthFlow'
    BY <1>7, <2>0, AuthBeFlow DEF AuthBeTimeout, NoReqDone
  <2>4. AuthRestarts' /\ AuthServer' /\ AuthCounts'
    BY <1>7, <1>0 DEF AuthBeTimeout, AuthRestarts, AuthServer, AuthCounts, NoReqDone
  <2>5. AuthKeyRun' /\ AuthKeyUsed'
    BY <1>7, <1>0, <2>0 DEF AuthBeTimeout, AuthKeyRun, AuthKeyUsed, BeDone, NoReqDone
  <2> QED BY <2>1, <2>2, <2>4, <2>5
<1>8. CASE AuthBeIdle
  <2>0. "authAbort" \notin af /\ aBe \in {"INITIALIZE", "SUCCESS", "FAIL", "TIMEOUT"}
    BY <1>8, AuthBeFrom DEF AuthBeIdle, AuthBeEnter
  <2>1. AuthTypeOK'
    BY <1>8, <1>t, AuthBeType DEF AuthBeIdle
  <2>2. AuthFlow'
    BY <1>8, <2>0, AuthBeFlow DEF AuthBeIdle
  <2>4. AuthRestarts' /\ AuthServer' /\ AuthCounts'
    BY <1>8, <1>0 DEF AuthBeIdle, AuthRestarts, AuthServer, AuthCounts
  <2>a. ach' = TRUE /\ apc' = "reauth" /\ aBe' = "IDLE"
    BY <1>8, <1>t, <2>0 DEF AuthBeIdle, AuthBeEnter
  <2>b. AUp' <=> AUp
    BY <1>8 DEF AuthBeIdle, AUp
  <2>5. AuthKeyRun'
    <3>1. UNCHANGED <<rsn, srv, aPae>> /\ af' = af \ {"authStart"}
      BY <1>8 DEF AuthBeIdle, AuthBeEnter
    <3>2. apc # "idle"
      BY <1>8, <1>0 DEF AuthBeIdle
    <3> QED BY <2>a, <2>b, <2>0, <3>1, <3>2 DEF AuthKeyRun
  <2>6. AuthKeyUsed'
    BY <1>8, <1>0 DEF AuthBeIdle, AuthKeyUsed, BeDone
  <2> QED BY <2>1, <2>2, <2>4, <2>5, <2>6
<1>9. CASE AuthBeIgnore
  <2>0. "authAbort" \notin af /\ ~BeDone /\ aBe = "RESPONSE"
    BY <1>9, AuthBeFrom DEF AuthBeIgnore, AuthBeEnter, BeDone
  <2>1. AuthTypeOK'
    BY <1>9, <1>t, AuthBeType DEF AuthBeIgnore
  <2>2. AuthFlow'
    BY <1>9, <2>0, AuthBeFlow DEF AuthBeIgnore
  <2>4. AuthRestarts' /\ AuthServer' /\ AuthCounts'
    BY <1>9, <1>0 DEF AuthBeIgnore, AuthRestarts, AuthServer, AuthCounts
  <2>5. AuthKeyRun' /\ AuthKeyUsed'
    BY <1>9, <1>0, <2>0 DEF AuthBeIgnore, AuthKeyRun, AuthKeyUsed, BeDone
  <2> QED BY <2>1, <2>2, <2>4, <2>5
<1> QED
  BY <1>2, <1>3, <1>4, <1>5, <1>6, <1>7, <1>8, <1>9 DEF AuthBe

\* RSN events change the state of the RSN authenticator, never its PMK.
LEMMA RsnEventKeeps ==
  ASSUME AuthTypeOK, NEW b, RsnEvent(b)
  PROVE  /\ rsn'.pmk = rsn.pmk
         /\ rsn' \in [st : {"INITIALIZE", "AUTHENTICATION2", "PTKSTART", "PTKINITDONE"},
                      pmk : Nonces \cup {None}]
BY DEF AuthTypeOK, RsnEvent

LEMMA AuthReauthStep ==
  ASSUME AuthInv, AuthReauthTimer PROVE AuthInv'
<1> USE DEF AuthInv
<1> DEFINE changed == ach \/ ReauthNext \notin {"stay", aReauth}
<1>1. /\ AtReauth
      /\ aReauth' = IF ReauthNext = "stay" THEN aReauth ELSE ReauthNext
      /\ aTmr' = ReauthTimers
      /\ RsnEvent(ReauthNext = "REAUTHENTICATE")
      /\ af' = IF ReauthNext = "REAUTHENTICATE" THEN af \cup {"reAuthenticate"} ELSE af
      /\ apc' = IF changed THEN "pae" ELSE "eap"
      /\ aRound' = IF changed THEN aRound + 1 ELSE aRound
      /\ ach' = FALSE
      /\ UNCHANGED <<wpa, aPend, aPae, aBe, aEap, reAuthCount, aPort, srv, respData,
                     discDue, respNew>>
  BY DEF AuthReauthTimer
<1>2. ReauthNext \in {"INITIALIZE", "REAUTHENTICATE", "stay"}
  BY DEF ReauthNext
<1>3. ReauthNext = "REAUTHENTICATE" => changed
  BY DEF ReauthNext
<1>4. rsn'.pmk = rsn.pmk
  BY <1>1, RsnEventKeeps
<1>5. AuthTypeOK'
  <2>1. af' \subseteq AFlags /\ aTmr' \subseteq ATimers /\ aRound' \in Nat
    BY <1>1 DEF AuthTypeOK, AFlags, ATimers, ReauthTimers
  <2>2. rsn' \in [st : {"INITIALIZE", "AUTHENTICATION2", "PTKSTART", "PTKINITDONE"},
                 pmk : Nonces \cup {None}]
    BY <1>1, RsnEventKeeps
  <2>3. /\ aReauth' \in {"INITIALIZE", "REAUTHENTICATE"} /\ ach' \in BOOLEAN
        /\ apc' \in {"idle", "pae", "be", "reauth", "eap"}
    BY <1>1, <1>2 DEF AuthTypeOK
  <2>4. UNCHANGED <<wpa, aPend, aPae, aBe, aEap, reAuthCount, aPort, srv, respData,
                    discDue, respNew>>
    BY <1>1
  <2> HIDE DEF changed
  <2> QED BY <2>1, <2>2, <2>3, <2>4 DEF AuthTypeOK
<1>6. /\ apc \in {"pae", "be", "reauth"}
      /\ apc = "pae" => AuthPaeNext = "stay" /\ AUp
      /\ "authAbort" \notin af
  BY <1>1 DEF AtReauth, AtAuthBe, AuthBeNext, AuthPaeNext, AUp, AuthFlow
<1>7. AUp' <=> AUp
  BY <1>1 DEF AUp
<1>8. ASSUME apc' = "eap"
      PROVE  af' = af /\ ach = FALSE
  BY <1>1, <1>3, <1>8 DEF AuthTypeOK
<1>9. ASSUME apc' = "eap", AUp
      PROVE  /\ AuthPaeNext' = "stay"
             /\ aPae \notin {"INITIALIZE", "DISCONNECTED"}
  <2>1. AuthPaeNext = "stay"
    BY <1>6, <1>8, <1>9 DEF AuthFlow
  <2>2. /\ af' = af /\ aPae' = aPae /\ reAuthCount' = reAuthCount
        /\ "quietWhile" \in aTmr' <=> "quietWhile" \in aTmr
    BY <1>1, <1>8, <1>9 DEF ReauthTimers
  <2>3. AuthPaeNext' = AuthPaeNext
    BY <2>2 DEF AuthPaeNext
  <2> QED BY <2>1, <2>3 DEF AuthPaeNext
<1>a. apc' \in {"pae", "eap"}
  BY <1>1
<1>b. AuthFlow'
  BY <1>1, <1>6, <1>7, <1>8, <1>9, <1>a DEF AuthFlow
<1>c. AuthRestarts' /\ AuthServer' /\ AuthCounts'
  BY <1>1, <1>4, <1>a DEF AuthRestarts, AuthServer, AuthCounts
<1>d. AuthKeyUsed'
  BY <1>1, <1>4 DEF AuthKeyUsed, BeDone
<1>e. ASSUME apc' = "eap", ~AUp PROVE "keyRun" \notin af
  BY <1>6, <1>8, <1>e DEF AuthKeyRun
<1>f. AuthKeyRun'
  BY <1>1, <1>4, <1>6, <1>7, <1>a, <1>8, <1>e DEF AuthKeyRun
<1> QED BY <1>5, <1>b, <1>c, <1>d, <1>f

LEMMA NextIdType == ASSUME NEW i \in Int PROVE NextId(i) \in Ids
BY EapFramesAssumption DEF NextId, Ids

\* The server's session data keep their types when a request is sent.
LEMMA SendRequestType ==
  ASSUME AuthTypeOK, NEW f \in Requests, NEW n \in Nonces \cup {None}, NEW c,
         SendRequest(f, n, c)
  PROVE  /\ srv' \in [method : {"none", "id", "m"}, curId : Ids \cup {-1},
                       lastId : Ids \cup {-1}, nonce : Nonces \cup {None},
                       req : ToSuppFrames \cup {None}, lastReq : Requests \cup {None},
                       retrans : 0 .. MaxRetrans + 1, key : Nonces \cup {None}]
         /\ af' \subseteq AFlags /\ aTmr' \subseteq ATimers
         /\ srv'.nonce = n /\ srv'.key = None /\ srv'.retrans = 0
         /\ srv'.req = f /\ srv'.lastReq = f
         /\ "retransWhile" \in aTmr'
<1>1. f \in ToSuppFrames /\ f.ty \in {"id", "m"} /\ f.id \in Ids
  BY DEF Requests, ToSuppFrames, Frame
<1>2. 0 \in 0 .. MaxRetrans + 1
  BY EapolAuthAssumption
<1>3. srv' = [srv EXCEPT !.method = f.ty, !.curId = f.id, !.lastId = f.id,
                        !.nonce = n, !.req = f, !.lastReq = f, !.retrans = 0,
                        !.key = None]
  BY DEF SendRequest
<1>4. /\ srv' \in [method : {"none", "id", "m"}, curId : Ids \cup {-1},
                       lastId : Ids \cup {-1}, nonce : Nonces \cup {None},
                       req : ToSuppFrames \cup {None}, lastReq : Requests \cup {None},
                       retrans : 0 .. MaxRetrans + 1, key : Nonces \cup {None}]
      /\ srv'.nonce = n /\ srv'.key = None /\ srv'.retrans = 0
      /\ srv'.req = f /\ srv'.lastReq = f
  BY <1>1, <1>2, <1>3 DEF AuthTypeOK
<1>5. af' \subseteq AFlags /\ aTmr' \subseteq ATimers /\ "retransWhile" \in aTmr'
  BY DEF SendRequest, AuthTypeOK, AFlags, ATimers
<1> QED BY <1>4, <1>5

LEMMA SrvPassType ==
  ASSUME AuthTypeOK, NEW x \in {"DISABLED", "IDLE", "SUCCESS", "FAILURE", "TIMEOUT_FAILURE"},
         SrvPass(x), af' \subseteq AFlags, aTmr' \subseteq ATimers,
         srv' \in [method : {"none", "id", "m"}, curId : Ids \cup {-1},
              lastId : Ids \cup {-1}, nonce : Nonces \cup {None},
              req : ToSuppFrames \cup {None}, lastReq : Requests \cup {None},
              retrans : 0 .. MaxRetrans + 1, key : Nonces \cup {None}]
  PROVE  AuthTypeOK'
BY DEF AuthTypeOK, SrvPass

\* A pass of the EAP server leaves AUTH_PAE and BE_AUTH where they are.
LEMMA SrvPassFlow ==
  ASSUME AuthTypeOK, AuthFlow, NEW x, AtAuthEap, SrvPass(x),
         "authAbort" \in af' => "authAbort" \in af,
         "portEnabled" \in af' <=> "portEnabled" \in af
  PROVE  AuthFlow'
<1>1. /\ AUp => aPae \notin {"INITIALIZE", "DISCONNECTED"}
      /\ ~AUp => aPae = "INITIALIZE"
      /\ "authAbort" \notin af
  BY AtAuthEapFacts
<1>2. apc' = "eap" /\ ach' = TRUE /\ aPae' = aPae
  BY DEF SrvPass
<1> QED BY <1>1, <1>2 DEF AuthFlow, AUp

\* A response that matches comes from the last request.
LEMMA RespMatchesFacts ==
  ASSUME AuthTypeOK, RespMatches
  PROVE  /\ srv.curId \in Ids /\ srv.method \in {"id", "m"}
         /\ srv.method = "m" => srv.nonce \in Nonces
<1>1. respData \in Responses
  BY DEF RespMatches, AuthTypeOK
<1>2. respData.id \in Ids /\ respData.ty \in {"id", "m"} /\ (respData.ty = "m" => respData.n \in Nonces)
  BY <1>1 DEF Responses, Frame
<1> QED BY <1>2 DEF RespMatches

\* In IDLE there is no success to use: keyRun, if it is still set, is about to be
\* cleared, and the last handshake was not made with the present challenge.
LEMMA SrvIdleFacts ==
  ASSUME AuthInv, SrvIdle
  PROVE  /\ srv.key = None /\ "eapSuccess" \notin af /\ aEap = "IDLE"
         /\ srv.nonce # None => srv.nonce # rsn.pmk
         /\ AtAuthEap /\ AUp
         /\ "keyRun" \in af =>
              "eapReq" \in af /\ aPae \in {"RESTART", "CONNECTING", "DISCONNECTED"}
BY DEF AuthInv, AuthServer, SrvIdle, AUp, AuthKeyRun

\* A pass of the server out of IDLE, to any state but DISABLED.  A key it leaves
\* is the present challenge, which no handshake has used.
LEMMA SrvIdlePass ==
  ASSUME AuthInv, SrvIdle, NEW x \in {"IDLE", "SUCCESS", "FAILURE", "TIMEOUT_FAILURE"},
         SrvPass(x), AuthTypeOK',
         \A g \in {"portEnabled", "authAbort", "authStart", "keyRun", "eapRestart", "eapolEap"} :
            g \in af' <=> g \in af,
         "eapReq" \in af => "eapReq" \in af',
         "eapSuccess" \in af' => x = "SUCCESS" /\ srv'.key # None,
         x = "IDLE" => srv'.key = None /\ srv'.retrans <= MaxRetrans,
         srv'.key \in {None, srv'.nonce},
         srv'.nonce # None => srv'.nonce # rsn.pmk
  PROVE  AuthInv'
<1> USE DEF AuthInv
<1>1. /\ srv.key = None /\ "eapSuccess" \notin af /\ aEap = "IDLE"
      /\ AtAuthEap /\ AUp
      /\ "keyRun" \in af =>
              "eapReq" \in af /\ aPae \in {"RESTART", "CONNECTING", "DISCONNECTED"}
  BY SrvIdleFacts
<1>2. /\ apc' = "eap" /\ ach' = TRUE /\ aEap' = x
      /\ UNCHANGED <<rsn, aPae, aBe, reAuthCount, respNew>>
  BY DEF SrvPass
<1>3. /\ "portEnabled" \in af' <=> "portEnabled" \in af
      /\ "authAbort" \in af' <=> "authAbort" \in af
      /\ "authStart" \in af' <=> "authStart" \in af
      /\ "keyRun" \in af' <=> "keyRun" \in af
      /\ "eapRestart" \in af' <=> "eapRestart" \in af
      /\ "eapolEap" \in af' <=> "eapolEap" \in af
  OBVIOUS
<1>4. AuthFlow'
  BY <1>1, <1>3, SrvPassFlow
<1>5. AuthRestarts' /\ AuthCounts'
  BY <1>1, <1>2, <1>3 DEF AuthRestarts, AuthCounts
<1>6. AuthServer'
  BY <1>2 DEF AuthServer
<1>7. AuthKeyUsed'
  BY <1>2 DEF AuthKeyUsed
<1>8. AUp'
  BY <1>1, <1>3 DEF AUp
<1>9. AuthKeyRun'
  BY <1>1, <1>2, <1>3, <1>8 DEF AuthKeyRun
<1> QED BY <1>4, <1>5, <1>6, <1>7, <1>9

LEMMA AuthEapStep ==
  ASSUME AuthInv, AtAuthEap, NEW F, F \subseteq Nonces \ {rsn.pmk}, AuthEap(F)
  PROVE  AuthInv'
<1> USE DEF AuthInv
<1>f. /\ AUp => aPae \notin {"INITIALIZE", "DISCONNECTED"}
      /\ AUp /\ ach = FALSE => AuthPaeNext = "stay"
      /\ ~AUp => aPae = "INITIALIZE" /\ apc # "pae"
      /\ apc # "idle" /\ (apc = "eap" \/ ach = FALSE)
      /\ "authAbort" \notin af
  BY AtAuthEapFacts
<1>t. /\ srv \in [method : {"none", "id", "m"}, curId : Ids \cup {-1},
              lastId : Ids \cup {-1}, nonce : Nonces \cup {None},
              req : ToSuppFrames \cup {None}, lastReq : Requests \cup {None},
              retrans : 0 .. MaxRetrans + 1, key : Nonces \cup {None}]
      /\ af \subseteq AFlags /\ aTmr \subseteq ATimers
  BY DEF AuthTypeOK
<1>1. ASSUME NEW id \in RandIds, AuthEapInitialize(id) PROVE AuthInv'
  <2> DEFINE i == IF id # srv.lastId THEN id ELSE NextId(id)
             f == Frame("Req", "id", i, None)
             c == {"eapSuccess", "eapFail", "eapTimeout", "eapRestart"}
  <2>1. i \in Ids /\ f \in Requests
    <3>1. id \in Ids /\ id \in Int
      BY EapolAuthAssumption, EapFramesAssumption DEF Ids
    <3>2. i \in Ids
      BY <3>1, NextIdType
    <3> QED BY <3>2 DEF Requests
  <2>2. SendRequest(f, None, c) /\ SrvPass("IDLE") /\ AUp
    BY <1>1 DEF AuthEapInitialize, AUp
  <2> HIDE DEF i, f
  <2>3. /\ srv' \in [method : {"none", "id", "m"}, curId : Ids \cup {-1},
                       lastId : Ids \cup {-1}, nonce : Nonces \cup {None},
                       req : ToSuppFrames \cup {None}, lastReq : Requests \cup {None},
                       retrans : 0 .. MaxRetrans + 1, key : Nonces \cup {None}]
        /\ af' \subseteq AFlags /\ aTmr' \subseteq ATimers
        /\ srv'.nonce = None /\ srv'.key = None /\ srv'.retrans = 0
    BY <2>1, <2>2, SendRequestType
  <2>4. AuthTypeOK'
    BY <2>2, <2>3, SrvPassType
  <2>5. af' = (af \ {"eapSuccess", "eapFail", "eapTimeout", "eapRestart", "eapResp"}) \cup {"eapReq"}
    BY <2>2 DEF SendRequest
  <2>6. AuthFlow'
    BY <2>2, <2>5, SrvPassFlow
  <2>7. /\ apc' = "eap" /\ ach' = TRUE /\ aEap' = "IDLE"
        /\ UNCHANGED <<rsn, aPae, aBe, reAuthCount, respNew>>
    BY <2>2 DEF SrvPass
  <2>8. aPae = "RESTART"
    BY <1>1, <1>f, <2>2 DEF AuthEapInitialize, AuthRestarts
  <2>9. 0 <= MaxRetrans
    BY EapolAuthAssumption
  <2>a. AuthRestarts' /\ AuthCounts'
    BY <2>3, <2>5, <2>7, <2>8, <2>9 DEF AuthRestarts, AuthCounts
  <2>b. AuthServer' /\ AuthKeyUsed'
    BY <2>3, <2>5 DEF AuthServer, AuthKeyUsed
  <2>c. AuthKeyRun'
    BY <2>2, <2>5, <2>7, <2>8 DEF AuthKeyRun, AUp
  <2> QED BY <2>4, <2>6, <2>a, <2>b, <2>c
<1>2. CASE AuthEapDisabled
  <2>1. SrvPass("DISABLED") /\ UNCHANGED <<srv, af, aTmr>> /\ ~AUp
    BY <1>2 DEF AuthEapDisabled, AUp
  <2>2. AuthTypeOK'
    BY <1>t, <2>1, SrvPassType
  <2>3. AuthFlow'
    BY <2>1, SrvPassFlow
  <2>4. /\ apc' = "eap" /\ ach' = TRUE /\ aEap' = "DISABLED"
        /\ UNCHANGED <<rsn, aPae, aBe, reAuthCount, respNew>>
    BY <2>1 DEF SrvPass
  <2>5. "keyRun" \notin af
    BY <1>f, <2>1 DEF AuthKeyRun, AuthTypeOK
  <2>6. AuthRestarts' /\ AuthCounts'
    BY <1>f, <2>1, <2>4 DEF AuthRestarts, AuthCounts
  <2>7. AuthServer' /\ AuthKeyUsed' /\ AuthKeyRun'
    BY <2>1, <2>4, <2>5 DEF AuthServer, AuthKeyUsed, BeDone, AuthKeyRun
  <2> QED BY <2>2, <2>3, <2>6, <2>7
<1>3. CASE AuthEapRetransmit
  <2>1. SrvIdle
    BY <1>3 DEF AuthEapRetransmit
  <2>2. srv.key = None /\ (srv.nonce # None => srv.nonce # rsn.pmk) /\ "eapSuccess" \notin af
    BY <2>1, SrvIdleFacts
  <2>3. CASE srv.retrans < MaxRetrans
    <3>1. /\ SrvPass("IDLE")
          /\ srv' = [srv EXCEPT !.retrans = @ + 1, !.req = srv.lastReq]
          /\ af' = af \cup {"eapReq"} /\ aTmr' = aTmr \cup {"retransWhile"}
      BY <1>3, <2>3 DEF AuthEapRetransmit
    <3>2. srv.retrans + 1 \in 0 .. MaxRetrans + 1 /\ srv.retrans + 1 <= MaxRetrans
      BY <1>t, <2>3, EapolAuthAssumption
    <3>3. srv.lastReq \in ToSuppFrames \cup {None}
      BY <1>t DEF ToSuppFrames
    <3>4. /\ srv' \in [method : {"none", "id", "m"}, curId : Ids \cup {-1},
                       lastId : Ids \cup {-1}, nonce : Nonces \cup {None},
                       req : ToSuppFrames \cup {None}, lastReq : Requests \cup {None},
                       retrans : 0 .. MaxRetrans + 1, key : Nonces \cup {None}]
          /\ srv'.key = None /\ srv'.nonce = srv.nonce /\ srv'.retrans <= MaxRetrans
      BY <1>t, <2>2, <3>1, <3>2, <3>3
    <3>5. AuthTypeOK'
      BY <1>t, <3>1, <3>4, SrvPassType DEF AFlags, ATimers
    <3> QED BY <2>1, <2>2, <3>1, <3>4, <3>5, SrvIdlePass
  <2>4. CASE ~(srv.retrans < MaxRetrans)
    <3>1. /\ SrvPass("TIMEOUT_FAILURE") /\ srv' = [srv EXCEPT !.retrans = @ + 1]
          /\ af' = af \cup {"eapTimeout"} /\ UNCHANGED aTmr
      BY <1>3, <2>4 DEF AuthEapRetransmit
    <3>2. srv.retrans + 1 \in 0 .. MaxRetrans + 1
      BY <1>t, <2>1, EapolAuthAssumption DEF AuthCounts, SrvIdle
    <3>4. /\ srv' \in [method : {"none", "id", "m"}, curId : Ids \cup {-1},
                       lastId : Ids \cup {-1}, nonce : Nonces \cup {None},
                       req : ToSuppFrames \cup {None}, lastReq : Requests \cup {None},
                       retrans : 0 .. MaxRetrans + 1, key : Nonces \cup {None}]
          /\ srv'.key = None /\ srv'.nonce = srv.nonce
      BY <1>t, <2>2, <3>1, <3>2
    <3>5. AuthTypeOK'
      BY <1>t, <3>1, <3>4, SrvPassType DEF AFlags
    <3> QED BY <2>1, <2>2, <3>1, <3>4, <3>5, SrvIdlePass
  <2> QED BY <2>3, <2>4
<1>4. CASE AuthEapDiscard
  <2>1. SrvIdle /\ SrvPass("IDLE") /\ UNCHANGED srv
        /\ af' = (af \ {"eapResp"}) \cup {"eapNoReq"} /\ aTmr' = aTmr \cup {"retransWhile"}
    BY <1>4 DEF AuthEapDiscard, SrvReceived, SrvDiscard
  <2>2. srv.key = None /\ (srv.nonce # None => srv.nonce # rsn.pmk) /\ "eapSuccess" \notin af
    BY <2>1, SrvIdleFacts
  <2>3. AuthTypeOK'
    BY <1>t, <2>1, SrvPassType DEF AFlags, ATimers
  <2>4. srv.retrans <= MaxRetrans
    BY <2>1 DEF AuthCounts, SrvIdle
  <2> QED BY <2>1, <2>2, <2>3, <2>4, SrvIdlePass
<1>5. ASSUME NEW key \in Nonces \cup {None}, NEW f \in ToSuppFrames, NEW flag \in {"eapFail", "eapSuccess"},
             SrvIdle, SrvFinish(IF flag = "eapSuccess" THEN "SUCCESS" ELSE "FAILURE", f, key, flag),
             flag = "eapSuccess" => key = srv.nonce /\ key # None,
             flag = "eapFail" => key = None
      PROVE  AuthInv'
  <2> DEFINE x == IF flag = "eapSuccess" THEN "SUCCESS" ELSE "FAILURE"
  <2>1. /\ SrvPass(x) /\ srv' = [srv EXCEPT !.req = f, !.lastReq = None, !.key = key]
        /\ af' = af \cup {flag} /\ UNCHANGED aTmr
    BY <1>5 DEF SrvFinish
  <2>2. srv.key = None /\ (srv.nonce # None => srv.nonce # rsn.pmk) /\ "eapSuccess" \notin af
    BY <1>5, SrvIdleFacts
  <2>3. /\ srv' \in [method : {"none", "id", "m"}, curId : Ids \cup {-1},
                       lastId : Ids \cup {-1}, nonce : Nonces \cup {None},
                       req : ToSuppFrames \cup {None}, lastReq : Requests \cup {None},
                       retrans : 0 .. MaxRetrans + 1, key : Nonces \cup {None}]
        /\ srv'.key = key /\ srv'.nonce = srv.nonce
    BY <1>t, <2>1
  <2>4. x \in {"SUCCESS", "FAILURE"} /\ (x = "SUCCESS" <=> flag = "eapSuccess")
    OBVIOUS
  <2> HIDE DEF x
  <2>5. AuthTypeOK'
    BY <1>t, <2>1, <2>3, <2>4, SrvPassType DEF AFlags
  <2>6. /\ \A g \in {"portEnabled", "authAbort", "authStart", "keyRun", "eapRestart", "eapolEap"} :
            g \in af' <=> g \in af
        /\ "eapReq" \in af => "eapReq" \in af'
        /\ "eapSuccess" \in af' => x = "SUCCESS" /\ srv'.key # None
    BY <1>5, <2>1, <2>2, <2>3, <2>4
  <2>7. /\ srv'.key \in {None, srv'.nonce}
        /\ srv'.nonce # None => srv'.nonce # rsn.pmk
    BY <1>5, <2>2, <2>3
  <2> QED BY <1>5, <2>1, <2>4, <2>5, <2>6, <2>7, SrvIdlePass
<1>6. ASSUME NEW v \in Verdicts, NEW n \in F, AuthEapIdentity(v, n) PROVE AuthInv'
  <2>1. SrvIdle /\ srv.curId \in Ids
    BY <1>6, RespMatchesFacts DEF AuthEapIdentity, SrvReceived
  <2>2. CASE v = "fail"
    <3>1. SrvFinish("FAILURE", Failure(srv.curId), None, "eapFail")
      BY <1>6, <2>2 DEF AuthEapIdentity
    <3>2. Failure(srv.curId) \in ToSuppFrames
      BY <2>1 DEF ToSuppFrames
    <3> QED BY <1>5, <2>1, <3>1, <3>2
  <2>3. CASE v # "fail"
    <3> DEFINE f == Frame("Req", "m", NextId(srv.curId), n)
    <3>1. SrvPass("IDLE") /\ SendRequest(f, n, {})
      BY <1>6, <2>3 DEF AuthEapIdentity
    <3>2. n \in Nonces /\ n # rsn.pmk
      BY <1>6
    <3>3. f \in Requests
      <4>1. srv.curId \in Int
        BY <2>1, EapFramesAssumption DEF Ids
      <4>2. NextId(srv.curId) \in Ids
        BY <4>1, NextIdType
      <4> QED BY <3>2, <4>2 DEF Requests
    <3> HIDE DEF f
    <3>4. /\ srv' \in [method : {"none", "id", "m"}, curId : Ids \cup {-1},
                       lastId : Ids \cup {-1}, nonce : Nonces \cup {None},
                       req : ToSuppFrames \cup {None}, lastReq : Requests \cup {None},
                       retrans : 0 .. MaxRetrans + 1, key : Nonces \cup {None}]
          /\ af' \subseteq AFlags /\ aTmr' \subseteq ATimers
          /\ srv'.nonce = n /\ srv'.key = None /\ srv'.retrans = 0
      BY <3>1, <3>2, <3>3, SendRequestType
    <3>5. AuthTypeOK'
      BY <3>1, <3>4, SrvPassType
    <3>6. srv'.retrans <= MaxRetrans
      BY <3>4, EapolAuthAssumption
    <3>7. af' = (af \ {"eapResp"}) \cup {"eapReq"} /\ "eapSuccess" \notin af
      BY <2>1, <3>1, SrvIdleFacts DEF SendRequest
    <3> QED BY <2>1, <3>1, <3>2, <3>4, <3>5, <3>6, <3>7, SrvIdlePass
  <2> QED BY <2>2, <2>3
<1>7. ASSUME NEW v \in Verdicts, AuthEapMethod(v) PROVE AuthInv'
  <2>1. SrvIdle /\ srv.curId \in Ids /\ srv.nonce \in Nonces /\ srv.nonce # None
    BY <1>7, RespMatchesFacts, EapFramesAssumption DEF AuthEapMethod, SrvReceived
  <2>2. Failure(srv.curId) \in ToSuppFrames /\ Success(srv.curId) \in ToSuppFrames
    BY <2>1 DEF ToSuppFrames
  <2>3. \/ SrvFinish("FAILURE", Failure(srv.curId), None, "eapFail")
        \/ SrvFinish("SUCCESS", Success(srv.curId), srv.nonce, "eapSuccess")
    BY <1>7 DEF AuthEapMethod, MethodKey
  <2> QED BY <1>5, <2>1, <2>2, <2>3
<1>8. CASE AuthEapStay
  <2>1. /\ apc' = IF ach THEN "pae" ELSE "idle"
        /\ aRound' = IF ach THEN aRound + 1 ELSE 0
        /\ ach' = FALSE
        /\ aTmr' = IF ach THEN aTmr ELSE AuthReadTimers
        /\ UNCHANGED <<wpa, rsn, aPend, aPae, aBe, aReauth, aEap, af, reAuthCount, aPort,
                       srv, respData, discDue, respNew>>
        /\ AUp => "eapRestart" \notin af /\ aEap # "DISABLED"
    BY <1>8 DEF AuthEapStay, AUp
  <2>2. ach \in BOOLEAN /\ aRound \in Nat
    BY DEF AuthTypeOK
  <2>3. AuthTypeOK'
    <3>1. aTmr' \subseteq ATimers /\ aRound' \in Nat /\ apc' \in {"idle", "pae"}
      BY <1>t, <2>1, <2>2 DEF AuthReadTimers
    <3>2. /\ ach' \in BOOLEAN
          /\ UNCHANGED <<wpa, rsn, aPend, aPae, aBe, aReauth, aEap, af, reAuthCount, aPort,
                         srv, respData, discDue, respNew>>
      BY <2>1
    <3> QED BY <3>1, <3>2 DEF AuthTypeOK
  <2>4. AuthFlow'
    BY <1>f, <2>1 DEF AuthFlow
  <2>5. ASSUME apc' = "idle"
        PROVE  /\ AUp => /\ aPae # "RESTART"
                         /\ aPae = "CONNECTING" =>
                              "eapReq" \notin af /\ "eapSuccess" \notin af /\ "eapFail" \notin af
               /\ AUp => aPae # "DISCONNECTED"
               /\ ~AUp => aPae = "INITIALIZE"
    <3>1. ach = FALSE
      BY <2>1, <2>2, <2>5
    <3> QED BY <1>f, <2>1, <3>1 DEF AuthPaeNext
  <2>6. AuthRestarts' /\ AuthServer' /\ AuthCounts' /\ AuthKeyUsed'
    BY <2>1, <2>5 DEF AuthRestarts, AuthServer, AuthCounts, AuthKeyUsed, BeDone
  <2>7. ~AUp => "keyRun" \notin af
    BY <1>f, <2>1 DEF AuthKeyRun, AuthTypeOK
  <2>8. apc' \in {"idle", "pae"} /\ (AUp' <=> AUp)
    BY <2>1 DEF AUp
  <2>9. AuthKeyRun'
    BY <2>1, <2>5, <2>7, <2>8 DEF AuthKeyRun
  <2> QED BY <2>3, <2>4, <2>6, <2>9
<1> QED
  BY <1>1, <1>2, <1>3, <1>4, <1>6, <1>7, <1>8 DEF AuthEap

\* One step of eapol_sm_step_run.  Fresh challenges differ from the PMK in use.
LEMMA AuthRunStep ==
  ASSUME AuthInv, NEW F, F \subseteq Nonces \ {rsn.pmk}, AuthRun(F)
  PROVE  AuthInv'
BY AuthPaeStep, AuthBeStep, AuthReauthStep, AuthEapStep DEF AuthRun

LEMMA RsnInitPmkStep ==
  ASSUME AuthInv, RsnInitPmk PROVE AuthInv'
<1> USE DEF AuthInv
<1>1. /\ rsn' = [st |-> "PTKSTART", pmk |-> srv.key] /\ af' = af \ {"keyRun"}
      /\ apc = "idle" /\ "keyRun" \in af
      /\ UNCHANGED <<wpa, apc, ach, aRound, aPend, aPae, aBe, aReauth, aEap, aTmr,
                     reAuthCount, aPort, srv, respData, discDue, respNew>>
  BY DEF RsnInitPmk, RsnReady, InitPmkClears
<1>2. BeDone /\ "eapSuccess" \in af
  BY <1>1 DEF AuthKeyRun, BeDone
<1>3. aPae # "CONNECTING" /\ aPae # "RESTART"
  BY <1>1, <1>2 DEF AuthRestarts
<1>4. srv.key \in Nonces \cup {None}
  BY DEF AuthTypeOK
<1>5. rsn' \in [st : {"INITIALIZE", "AUTHENTICATION2", "PTKSTART", "PTKINITDONE"},
               pmk : Nonces \cup {None}] /\ rsn'.pmk = srv.key
  BY <1>1, <1>4
<1>6. AuthTypeOK'
  BY <1>1, <1>5 DEF AuthTypeOK
<1>7. AuthFlow' /\ AuthRestarts' /\ AuthCounts'
  BY <1>1 DEF AuthFlow, AuthRestarts, AuthCounts
<1>8. AuthServer'
  BY <1>1, <1>5 DEF AuthServer
<1>9. AuthKeyRun' /\ AuthKeyUsed'
  BY <1>1, <1>2, <1>3 DEF AuthKeyRun, AuthKeyUsed, BeDone
<1> QED BY <1>6, <1>7, <1>8, <1>9

\* A handler between two runs of the loop, which may set the flags that tell of
\* frames and of the association.
LEMMA AuthNotifyStep ==
  ASSUME AuthInv, NEW add, NEW del, AuthNotify(add, del),
         add \subseteq {"portEnabled", "portValid", "reAuthenticate", "eapolStart",
                        "eapolLogoff", "eapolEap"},
         del \subseteq {"portEnabled", "portValid"},
         rsn' \in [st : {"INITIALIZE", "AUTHENTICATION2", "PTKSTART", "PTKINITDONE"},
                   pmk : Nonces \cup {None}],
         rsn'.pmk \in {rsn.pmk, None},
         respData' \in Responses \cup {None}, discDue' \in BOOLEAN, respNew' \in BOOLEAN,
         "eapolEap" \in add => respNew' = TRUE,
         respNew = TRUE => respNew' = TRUE
  PROVE  AuthInv'
<1> USE DEF AuthInv
<1>1. /\ apc = "idle" /\ af' = (af \cup add) \ del /\ aPend' = TRUE
      /\ UNCHANGED <<wpa, apc, ach, aRound, aPae, aBe, aReauth, aEap, aTmr, reAuthCount,
                     aPort, srv>>
  BY DEF AuthNotify
<1>2. \A g : g \notin {"portEnabled", "portValid", "reAuthenticate", "eapolStart",
                      "eapolLogoff", "eapolEap"} => (g \in af' <=> g \in af)
  BY <1>1
<1>3. /\ "authAbort" \in af' <=> "authAbort" \in af
      /\ "authStart" \in af' <=> "authStart" \in af
      /\ "keyRun" \in af' <=> "keyRun" \in af
      /\ "eapRestart" \in af' <=> "eapRestart" \in af
      /\ "eapReq" \in af' <=> "eapReq" \in af
      /\ "eapSuccess" \in af' <=> "eapSuccess" \in af
      /\ "eapFail" \in af' <=> "eapFail" \in af
      /\ "eapolEap" \in af' => "eapolEap" \in af \/ "eapolEap" \in add
  BY <1>1, <1>2
<1>4. AuthTypeOK'
  <2>1. af' \subseteq AFlags
    BY <1>1 DEF AuthTypeOK, AFlags
  <2> QED BY <1>1, <2>1 DEF AuthTypeOK
<1>5. AuthFlow' /\ AuthRestarts'
  BY <1>1, <1>3 DEF AuthFlow, AuthRestarts
<1>6. AuthServer' /\ AuthKeyUsed'
  BY <1>1, <1>3 DEF AuthServer, AuthKeyUsed, BeDone
<1>7. AuthKeyRun'
  BY <1>1, <1>3 DEF AuthKeyRun
<1>8. AuthCounts'
  BY <1>1, <1>3 DEF AuthCounts
<1> QED BY <1>4, <1>5, <1>6, <1>7, <1>8

LEMMA AuthEventStep ==
  ASSUME AuthInv,
         \/ \E b \in BOOLEAN : AuthNewStation(b)
         \/ AuthPortDown \/ AuthPortValid
         \/ \E f \in ToAuthFrames : AuthRx(f)
  PROVE  AuthInv'
<1>t. /\ rsn \in [st : {"INITIALIZE", "AUTHENTICATION2", "PTKSTART", "PTKINITDONE"},
                  pmk : Nonces \cup {None}]
      /\ respData \in Responses \cup {None} /\ discDue \in BOOLEAN /\ respNew \in BOOLEAN
      /\ AuthTypeOK
  BY DEF AuthInv, AuthTypeOK
<1>1. ASSUME NEW b \in BOOLEAN, AuthNewStation(b) PROVE AuthInv'
  <2>1. rsn'.pmk = rsn.pmk
        /\ rsn' \in [st : {"INITIALIZE", "AUTHENTICATION2", "PTKSTART", "PTKINITDONE"},
                     pmk : Nonces \cup {None}]
    BY <1>1, <1>t, RsnEventKeeps DEF AuthNewStation
  <2>2. AuthNotify({"portEnabled"} \cup (IF b THEN {"reAuthenticate"} ELSE {}), {})
        /\ UNCHANGED <<respData, discDue, respNew>>
    BY <1>1 DEF AuthNewStation
  <2> DEFINE add == {"portEnabled"} \cup (IF b THEN {"reAuthenticate"} ELSE {})
             del == {}
  <2>3. AuthNotify(add, del) /\ del \subseteq {"portEnabled", "portValid"}
    BY <2>2
  <2>4. /\ add \subseteq {"portEnabled", "portValid", "reAuthenticate", "eapolStart",
                        "eapolLogoff", "eapolEap"}
        /\ "eapolEap" \notin add
    OBVIOUS
  <2>5. respData' = respData /\ discDue' = discDue /\ respNew' = respNew
    BY <2>2
  <2> HIDE DEF add, del
  <2> QED BY <1>t, <2>1, <2>3, <2>4, <2>5, AuthNotifyStep
<1>2. ASSUME AuthPortDown PROVE AuthInv'
  <2>1. /\ AuthNotify({}, {"portEnabled"} \cup (IF wpa THEN {"portValid"} ELSE {}))
        /\ rsn' = [st |-> "INITIALIZE", pmk |-> None] /\ discDue' = FALSE
        /\ UNCHANGED <<respData, respNew>>
    BY <1>2 DEF AuthPortDown
  <2>2. /\ rsn' \in [st : {"INITIALIZE", "AUTHENTICATION2", "PTKSTART", "PTKINITDONE"},
                     pmk : Nonces \cup {None}]
        /\ rsn'.pmk = None
    BY <2>1
  <2>3. respData' = respData /\ discDue' \in BOOLEAN /\ respNew' = respNew
    BY <2>1
  <2> DEFINE del == {"portEnabled"} \cup (IF wpa THEN {"portValid"} ELSE {})
             add == {}
  <2>4. AuthNotify(add, del) /\ del \subseteq {"portEnabled", "portValid"}
    BY <2>1
  <2>5. /\ add \subseteq {"portEnabled", "portValid", "reAuthenticate", "eapolStart",
                        "eapolLogoff", "eapolEap"}
        /\ "eapolEap" \notin add
    OBVIOUS
  <2> HIDE DEF add, del
  <2> QED BY <1>t, <2>2, <2>3, <2>4, <2>5, AuthNotifyStep
<1>3. ASSUME AuthPortValid PROVE AuthInv'
  <2>1. /\ AuthNotify({"portValid"}, {})
        /\ rsn' = [rsn EXCEPT !.st = "PTKINITDONE"]
        /\ UNCHANGED <<respData, discDue, respNew>>
    BY <1>3 DEF AuthPortValid
  <2>2. /\ rsn' \in [st : {"INITIALIZE", "AUTHENTICATION2", "PTKSTART", "PTKINITDONE"},
                     pmk : Nonces \cup {None}]
        /\ rsn'.pmk = rsn.pmk
    BY <1>t, <2>1
  <2>3. respData' = respData /\ discDue' = discDue /\ respNew' = respNew
    BY <2>1
  <2> DEFINE add == {"portValid"}
             del == {}
  <2>4. AuthNotify(add, del) /\ del \subseteq {"portEnabled", "portValid"}
    BY <2>1
  <2>5. /\ add \subseteq {"portEnabled", "portValid", "reAuthenticate", "eapolStart",
                        "eapolLogoff", "eapolEap"}
        /\ "eapolEap" \notin add
    OBVIOUS
  <2> HIDE DEF add, del
  <2> QED BY <1>t, <2>2, <2>3, <2>4, <2>5, AuthNotifyStep
<1>4. ASSUME NEW f \in ToAuthFrames, AuthRx(f) PROVE AuthInv'
  <2> DEFINE add == CASE f.t = "Start" -> {"eapolStart"}
                      [] f.t = "Logoff" -> {"eapolLogoff"}
                      [] f.t = "Resp" -> {"eapolEap"}
  <2>1. /\ AuthNotify(add, {}) /\ RsnEvent(f.t = "Start")
        /\ respData' = IF f.t = "Resp" THEN f ELSE respData
        /\ respNew' = (f.t = "Resp" \/ respNew)
        /\ UNCHANGED discDue
    BY <1>4 DEF AuthRx
  <2>2. \/ f.t = "Start"
        \/ f.t = "Logoff"
        \/ f.t = "Resp" /\ f \in Responses
    BY DEF ToAuthFrames, Responses, Start, Logoff, Frame
  <2>3. /\ add \subseteq {"portEnabled", "portValid", "reAuthenticate", "eapolStart",
                        "eapolLogoff", "eapolEap"}
        /\ "eapolEap" \in add => f.t = "Resp"
    BY <2>2
  <2> HIDE DEF add
  <2>4. respData' \in Responses \cup {None}
    BY <1>t, <2>1, <2>2
  <2>5. rsn'.pmk = rsn.pmk
        /\ rsn' \in [st : {"INITIALIZE", "AUTHENTICATION2", "PTKSTART", "PTKINITDONE"},
                     pmk : Nonces \cup {None}]
    BY <1>t, <2>1, RsnEventKeeps
  <2>6. respNew' \in BOOLEAN /\ ("eapolEap" \in add => respNew' = TRUE)
        /\ (respNew = TRUE => respNew' = TRUE)
    BY <1>t, <2>1, <2>3
  <2> QED BY <1>t, <2>1, <2>3, <2>4, <2>5, <2>6, AuthNotifyStep
<1> QED BY <1>1, <1>2, <1>3, <1>4

LEMMA AuthLoopStarts ==
  ASSUME AuthInv, AuthStepCb \/ \E E \in SUBSET aTmr : AuthTick(E) PROVE AuthInv'
<1> USE DEF AuthInv
<1>1. /\ apc = "idle" /\ apc' = "pae" /\ ach' = FALSE /\ aRound' = 1
      /\ aTmr' \subseteq aTmr /\ aPend' \in BOOLEAN
      /\ UNCHANGED <<wpa, rsn, aPae, aBe, aReauth, aEap, af, reAuthCount, aPort,
                     srv, respData, discDue, respNew>>
  BY DEF AuthStepCb, AuthTick, AuthTypeOK
<1>2. AuthTypeOK'
  <2>1. /\ apc' \in {"idle", "pae", "be", "reauth", "eap"} /\ ach' \in BOOLEAN
        /\ aRound' \in Nat /\ aPend' \in BOOLEAN
    BY <1>1
  <2>2. aTmr' \subseteq ATimers
    BY <1>1 DEF AuthTypeOK
  <2>3. UNCHANGED <<wpa, rsn, aPae, aBe, aReauth, aEap, af, reAuthCount, aPort,
                     srv, respData, discDue, respNew>>
    BY <1>1
  <2> QED BY <2>1, <2>2, <2>3 DEF AuthTypeOK
<1>3. AuthFlow' /\ AuthRestarts' /\ AuthServer'
  BY <1>1 DEF AuthFlow, AuthRestarts, AuthServer
<1>4. AuthKeyRun' /\ AuthKeyUsed' /\ AuthCounts'
  BY <1>1 DEF AuthKeyRun, AuthKeyUsed, BeDone, AuthCounts, AUp
<1> QED BY <1>2, <1>3, <1>4

LEMMA AuthStutter ==
  ASSUME AuthInv, UNCHANGED auth PROVE AuthInv'
BY DEF AuthInv, auth, AuthTypeOK, AuthFlow, AuthRestarts, AuthServer, AuthKeyRun,
       AuthKeyUsed, AuthCounts, BeDone, AUp, AuthPaeNext

\* The safety of the Authenticator follows.
LEMMA AuthInvSafe ==
  ASSUME AuthInv
  PROVE  /\ RsnReady => "eapSuccess" \in af /\ srv.key # None /\ srv.key # rsn.pmk
         /\ AtAuthBe /\ AuthBeNext = "RESPONSE" => respNew
<1>1. "eapolEap" \in af => respNew = TRUE
  BY DEF AuthInv, AuthCounts
<1>2. AuthBeNext = "RESPONSE" => "eapolEap" \in af
  BY AuthBeFrom DEF AuthInv
<1>3. RsnReady => "eapSuccess" \in af /\ srv.key # None /\ srv.key # rsn.pmk
  BY DEF RsnReady, AuthInv, AuthKeyRun
<1> QED BY <1>1, <1>2, <1>3

------------------------------------------------------------------------------
(* The whole system.                                                           *)

LinkTypes ==
  /\ toAuth \in Seq(ToAuthFrames) /\ Len(toAuth) <= Cap
  /\ toSupp \in Seq(ToSuppFrames) /\ Len(toSupp) <= Cap
  /\ known \in BOOLEAN
  /\ events \in 0 .. MaxEvents

\* A frame of the server's current conversation, or of none.
Carries(f) == f # None /\ f.n = srv.nonce
Own(f) == f = None \/ f.n \in {None, srv.nonce}

OwnLink == \A i \in 1 .. Len(toSupp) : Own(toSupp[i])

\* The Supplicant has answered the current challenge: the answer is still with
\* it, or on its way, or the server has taken it.
Answered == \/ Carries(peer.lastReq) \/ Carries(respData)
            \/ \E i \in 1 .. Len(toAuth) : Carries(toAuth[i])
            \/ srv.key = srv.nonce

\* The response that the EAP peer keeps is the one to its last request.
PeerLink == /\ peer.lastResp # None => peer.lastReq # None /\ peer.lastResp.n = peer.lastReq.n
            /\ peer.resp # None => peer.lastReq # None /\ peer.resp.n = peer.lastReq.n

SrvFrames == Own(srv.req) /\ Own(srv.lastReq)

\* How far the current challenge has got: on the link, received, answered.
Sent == srv.nonce # None =>
          \A i, j \in 1 .. Len(toSupp) : i < j /\ Carries(toSupp[i]) => Own(toSupp[j])
Got == srv.nonce # None /\ Carries(reqData) => OwnLink
Done == srv.nonce # None /\ Answered =>
          peer.key \in {None, srv.nonce} /\ OwnLink /\ Own(reqData)

Challenge == PeerLink /\ SrvFrames /\ Sent /\ Got /\ Done

Inv == SuppInv /\ AuthInv /\ LinkTypes /\ Challenge

-----------------------------------------------------------------------------
(* The link.                                                                   *)

LEMMA PushFacts ==
  ASSUME NEW S, NEW s \in Seq(S), NEW f \in S, Len(s) <= Cap
  PROVE  /\ Push(s, f) \in Seq(S) /\ Len(Push(s, f)) <= Cap
         /\ \E d \in {0, 1} :
              /\ Len(Push(s, f)) = Len(s) + 1 - d /\ Len(s) >= d
              /\ \A i \in 1 .. Len(s) - d : Push(s, f)[i] = s[i + d]
              /\ Push(s, f)[Len(s) + 1 - d] = f
<1>0. Cap \in Nat /\ Cap > 0
  BY EapFramesAssumption
<1>1. CASE Len(s) < Cap
  <2>1. Push(s, f) = Append(s, f)
    BY <1>1 DEF Push
  <2>2. /\ Append(s, f) \in Seq(S) /\ Len(Append(s, f)) = Len(s) + 1
        /\ \A i \in 1 .. Len(s) : Append(s, f)[i] = s[i]
        /\ Append(s, f)[Len(s) + 1] = f
    OBVIOUS
  <2> HIDE DEF Push
  <2>3. Len(s) + 1 <= Cap /\ Len(s) \in Nat
    BY <1>0, <1>1
  <2> QED BY <2>1, <2>2, <2>3
<1>2. CASE ~(Len(s) < Cap)
  <2>1. Push(s, f) = Append(Tail(s), f)
    BY <1>2 DEF Push
  <2>2. Len(s) = Cap /\ s # <<>>
    BY <1>0, <1>2
  <2>3. /\ Tail(s) \in Seq(S) /\ Len(Tail(s)) = Len(s) - 1
        /\ \A i \in 1 .. Len(s) - 1 : Tail(s)[i] = s[i + 1]
    BY <2>2
  <2>4. /\ Append(Tail(s), f) \in Seq(S) /\ Len(Append(Tail(s), f)) = Len(s)
        /\ \A i \in 1 .. Len(s) - 1 : Append(Tail(s), f)[i] = s[i + 1]
        /\ Append(Tail(s), f)[Len(s)] = f
    BY <2>3
  <2> QED BY <1>0, <2>1, <2>2, <2>4
<1> QED BY <1>1, <1>2

LEMMA TailFacts ==
  ASSUME NEW S, NEW s \in Seq(S), Len(s) <= Cap, s # <<>>
  PROVE  /\ Tail(s) \in Seq(S) /\ Len(Tail(s)) <= Cap /\ Head(s) \in S
         /\ Len(Tail(s)) = Len(s) - 1 /\ Len(s) >= 1 /\ Head(s) = s[1]
         /\ \A i \in 1 .. Len(Tail(s)) : Tail(s)[i] = s[i + 1]
<1>0. Cap \in Nat
  BY EapFramesAssumption
<1> QED BY <1>0

-----------------------------------------------------------------------------
(* What the Supplicant does to the challenge.                                  *)

\* A step of the Supplicant that lets go of frames, or answers the request it has
\* and takes its key, keeps track of the challenge.
LEMMA SuppChallenge ==
  ASSUME Challenge, LinkTypes, PeerLink',
         UNCHANGED <<srv, respData, toSupp>>,
         reqData' \in {reqData, None},
         peer'.key \in {None, peer.key} \/ (reqData # None /\ peer'.key = reqData.n),
         \/ peer'.lastReq = peer.lastReq
         \/ peer'.lastReq = None
         \/ peer'.lastReq = reqData /\ reqData.n \in {None, peer'.key},
         \/ toAuth' = toAuth
         \/ \E f \in ToAuthFrames :
              toAuth' = Push(toAuth, f) /\ (f.n = None \/ f = peer.resp)
  PROVE  Challenge'
<1>1. SrvFrames' /\ Sent'
  BY DEF Challenge, SrvFrames, Sent, Own, Carries
<1>2. OwnLink' <=> OwnLink
  BY DEF OwnLink, Own
<1>3. Got'
  BY <1>2 DEF Challenge, Got, Carries
<1>4. ASSUME srv.nonce # None, \E i \in 1 .. Len(toAuth') : Carries(toAuth'[i])
      PROVE  Answered
  <2>1. CASE toAuth' = toAuth
    BY <1>4, <2>1 DEF Answered
  <2>2. ASSUME NEW f \in ToAuthFrames, toAuth' = Push(toAuth, f), f.n = None \/ f = peer.resp
        PROVE  Answered
    <3>1. PICK d \in {0, 1} :
                 /\ Len(toAuth') = Len(toAuth) + 1 - d /\ Len(toAuth) >= d
                 /\ \A i \in 1 .. Len(toAuth) - d : toAuth'[i] = toAuth[i + d]
                 /\ toAuth'[Len(toAuth) + 1 - d] = f
      BY <2>2, PushFacts DEF LinkTypes
    <3>2. PICK i \in 1 .. Len(toAuth') : Carries(toAuth'[i])
      BY <1>4
    <3>0. Len(toAuth) \in Nat
      BY DEF LinkTypes
    <3>3. CASE i = Len(toAuth) + 1 - d
      <4>1. f # None /\ f.n = srv.nonce
        BY <3>1, <3>2, <3>3 DEF Carries
      <4>2. f = peer.resp
        BY <1>4, <2>2, <4>1
      <4> QED BY <4>1, <4>2 DEF Challenge, PeerLink, Answered, Carries
    <3>4. CASE i # Len(toAuth) + 1 - d
      <4>1. i \in 1 .. Len(toAuth) - d /\ i + d \in 1 .. Len(toAuth)
        BY <3>0, <3>1, <3>2, <3>4
      <4>2. Carries(toAuth[i + d])
        BY <3>1, <3>2, <4>1
      <4> QED BY <4>1, <4>2 DEF Answered
    <3> QED BY <3>3, <3>4
  <2> QED BY <2>1, <2>2
<1>5. ASSUME srv.nonce # None, Answered'
      PROVE  peer'.key \in {None, srv.nonce} /\ OwnLink /\ Own(reqData)
  <2>1. Answered \/ Carries(peer'.lastReq)
    BY <1>4, <1>5 DEF Answered, Carries
  <2>2. CASE Answered
    <3>1. peer.key \in {None, srv.nonce} /\ OwnLink /\ Own(reqData)
      BY <1>5, <2>2 DEF Challenge, Done
    <3> QED BY <3>1 DEF Own
  <2>3. CASE ~Answered /\ Carries(peer'.lastReq)
    <3>1. peer'.lastReq = reqData /\ reqData.n \in {None, peer'.key}
      BY <2>3 DEF Answered, Carries
    <3>2. Carries(reqData) /\ peer'.key = srv.nonce
      BY <1>5, <2>3, <3>1 DEF Carries
    <3> QED BY <1>5, <3>2 DEF Challenge, Got, Own, Carries
  <2> QED BY <2>1, <2>2, <2>3
<1>6. Done'
  <2>1. Own(reqData) => Own(reqData)'
    BY DEF Own
  <2> QED BY <1>2, <1>5, <2>1 DEF Done
<1> QED BY <1>1, <1>3, <1>6 DEF Challenge

\* What a step of eapol_sm_step does to the packets, the session and the link.
SuppEffect ==
  /\ PeerLink'
  /\ reqData' \in {reqData, None}
  /\ peer'.key \in {None, peer.key} \/ (reqData # None /\ peer'.key = reqData.n)
  /\ \/ peer'.lastReq = peer.lastReq
     \/ peer'.lastReq = None
     \/ peer'.lastReq = reqData /\ reqData.n \in {None, peer'.key}
  /\ \/ toAuth' = toAuth
     \/ \E f \in ToAuthFrames : toAuth' = Push(toAuth, f) /\ (f.n = None \/ f = peer.resp)

LEMMA SuppEffectSame ==
  ASSUME PeerLink, UNCHANGED <<peer, reqData>>,
         \/ toAuth' = toAuth
         \/ toAuth' = Push(toAuth, Start)
         \/ toAuth' = Push(toAuth, Logoff)
  PROVE  SuppEffect
<1>1. PeerLink'
  BY DEF PeerLink
<1>2. Start \in ToAuthFrames /\ Logoff \in ToAuthFrames /\ Start.n = None /\ Logoff.n = None
  BY DEF ToAuthFrames, Start, Logoff, Frame
<1> QED BY <1>1, <1>2 DEF SuppEffect

LEMMA SendResponseEffect ==
  ASSUME NEW p, NEW r, PeerLink, SendResponse(p, r), reqData # None,
         p \in Sessions, p.lastReq = peer.lastReq, p.lastResp = peer.lastResp,
         \/ p = peer
         \/ reqData # None /\ p.key = reqData.n,
         r # None => r.n = reqData.n,
         r = None \/ reqData = peer.lastReq \/ reqData.n \in {None, p.key}
  PROVE  SuppEffect
<1>1. UNCHANGED <<reqData, toAuth>>
  BY DEF SendResponse, EapPass
<1>2. CASE r = None
  <2>1. peer' = [p EXCEPT !.resp = None, !.lastResp = None]
    BY <1>2 DEF SendResponse
  <2>2. /\ peer'.resp = None /\ peer'.lastResp = None /\ peer'.key = p.key
        /\ peer'.lastReq = peer.lastReq
    BY <2>1 DEF Sessions
  <2> QED BY <1>1, <2>2 DEF SuppEffect, PeerLink
<1>3. CASE r # None
  <2>1. peer' = [p EXCEPT !.resp = r, !.lastResp = r, !.lastId = reqData.id, !.lastReq = reqData]
    BY <1>3 DEF SendResponse
  <2>2. peer'.resp = r /\ peer'.lastResp = r /\ peer'.key = p.key /\ peer'.lastReq = reqData
    BY <2>1 DEF Sessions
  <2>3. r.n = reqData.n
    BY <1>3
  <2> QED BY <1>1, <1>3, <2>2, <2>3 DEF SuppEffect, PeerLink
<1> QED BY <1>2, <1>3

LEMMA SuppRunEffect ==
  ASSUME SuppInv, PeerLink, SuppRun PROVE SuppEffect
<1>t. peer \in Sessions /\ reqData \in ToSuppFrames \cup {None}
  BY DEF SuppInv, SuppTypeOK, Sessions
<1>1. CASE SuppPae
  <2>1. UNCHANGED <<peer, reqData>>
    BY <1>1 DEF SuppPae, SuppLogoff, SuppDisconnected, SuppConnecting, SuppAuthenticating,
                SuppHeld, SuppAuthenticated, SuppRestart, PaeEnter
  <2>2. \/ toAuth' = toAuth
        \/ toAuth' = Push(toAuth, Start)
        \/ toAuth' = Push(toAuth, Logoff)
    BY <1>1 DEF SuppPae, SuppLogoff, SuppDisconnected, SuppConnecting, SuppAuthenticating,
                SuppHeld, SuppAuthenticated, SuppRestart
  <2> QED BY <2>1, <2>2, SuppEffectSame
<1>2. CASE SuppBe
  <2>1. CASE SuppBeResponse
    <3>1. /\ toAuth' = toAuth \/ (peer.resp # None /\ toAuth' = Push(toAuth, peer.resp))
          /\ peer' = [peer EXCEPT !.resp = None] /\ reqData' = reqData
      BY <2>1 DEF SuppBeResponse
    <3>2. peer.resp # None => peer.resp \in ToAuthFrames
      BY <1>t DEF Sessions, ToAuthFrames
    <3>3. /\ peer'.resp = None /\ peer'.key = peer.key /\ peer'.lastReq = peer.lastReq
          /\ peer'.lastResp = peer.lastResp
      BY <1>t, <3>1 DEF Sessions
    <3>4. PeerLink'
      BY <3>3 DEF PeerLink
    <3> QED BY <3>1, <3>2, <3>3, <3>4 DEF SuppEffect
  <2>2. CASE SuppBeInitialize
    <3>1. /\ reqData' = None /\ toAuth' = toAuth
          /\ peer' = [peer EXCEPT !.lastResp = None, !.resp = None, !.key = None]
      BY <2>2 DEF SuppBeInitialize
    <3>2. /\ peer'.resp = None /\ peer'.key = None /\ peer'.lastReq = peer.lastReq
          /\ peer'.lastResp = None
      BY <1>t, <3>1 DEF Sessions
    <3> QED BY <3>1, <3>2 DEF SuppEffect, PeerLink
  <2>3. CASE ~SuppBeResponse /\ ~SuppBeInitialize
    <3>1. UNCHANGED <<peer, reqData, toAuth>>
      BY <1>2, <2>3 DEF SuppBe, SuppBeRequest, SuppBeDone, SuppBeTimeout, SuppBeIdle,
                        SuppBeReceive
    <3> QED BY <3>1, SuppEffectSame
  <2> QED BY <2>1, <2>2, <2>3
<1>r. ASSUME Received("Req")
      PROVE  reqData # None /\ Answer.n = reqData.n /\ (reqData.ty = "id" => reqData.n = None)
  <2>1. reqData \in ToSuppFrames /\ reqData.t = "Req"
    BY <1>t, <1>r DEF Received
  <2>2. reqData \in Requests
    BY <2>1, FrameFacts
  <2>3. Answer.n = reqData.n
    BY <2>2 DEF Answer, Requests, Frame
  <2> QED BY <1>r, <2>1, <2>3, FrameFacts DEF Received
<1>3. CASE SuppEap
  <2>1. CASE SuppEapInitialize
    <3>1. peer' = NoSession /\ UNCHANGED <<reqData, toAuth>>
      BY <2>1 DEF SuppEapInitialize, EapPass
    <3> QED BY <3>1 DEF SuppEffect, NoSession, PeerLink
  <2>2. CASE \/ SuppEapDisabled \/ SuppEapRxSuccess \/ SuppEapRxFailure
             \/ SuppEapDiscard \/ SuppEapIdleTimeout \/ SuppEapStay
    <3>1. UNCHANGED <<peer, reqData, toAuth>>
      BY <2>2 DEF SuppEapDisabled, SuppEapRxSuccess, SuppEapRxFailure, SuppEapDiscard,
                  SuppEapIdleTimeout, SuppEapStay, EapPass, EapDiscard, EapSuccess,
                  EapFailure, EapNoResponse
    <3> QED BY <3>1, SuppEffectSame
  <2>3. CASE SuppEapRetransmit
    <3>1. Received("Req") /\ Duplicate /\ SendResponse(peer, peer.lastResp)
      BY <2>3 DEF SuppEapRetransmit
    <3>2. reqData = peer.lastReq /\ (peer.lastResp # None => peer.lastResp.n = reqData.n)
      BY <3>1 DEF Duplicate, PeerLink
    <3> QED BY <1>t, <1>r, <3>1, <3>2, SendResponseEffect
  <2>4. CASE SuppEapIdentity
    <3>1. Received("Req") /\ reqData.ty = "id" /\ SendResponse(peer, Answer)
      BY <2>4 DEF SuppEapIdentity
    <3> QED BY <1>t, <1>r, <3>1, SendResponseEffect
  <2>5. ASSUME NEW o \in Outcomes, SuppEapMethod(o) PROVE SuppEffect
    <3>1. o \in {"pending", "fail", "COND_SUCC", "UNCOND_SUCC"}
      BY EapolSuppAssumption
    <3>2. Received("Req")
      BY <2>5 DEF SuppEapMethod
    <3>3. CASE o \in {"pending", "fail"}
      <4>1. /\ UNCHANGED <<reqData, toAuth>>
            /\ \/ peer' = [peer EXCEPT !.sel = "m", !.resp = None]
               \/ peer' = [peer EXCEPT !.sel = "m", !.meth = "DONE", !.dec = "FAIL",
                                       !.resp = None]
        BY <2>5, <3>3 DEF SuppEapMethod, EapDiscard, EapFailure, EapNoResponse, EapPass
      <4>2. /\ peer'.resp = None /\ peer'.key = peer.key /\ peer'.lastReq = peer.lastReq
            /\ peer'.lastResp = peer.lastResp
        BY <1>t, <4>1 DEF Sessions
      <4> QED BY <4>1, <4>2 DEF SuppEffect, PeerLink
    <3>4. CASE o \in {"COND_SUCC", "UNCOND_SUCC"}
      <4> DEFINE p == [peer EXCEPT !.sel = "m", !.dec = o, !.key = reqData.n,
                                   !.meth = IF o = "COND_SUCC" THEN "MAY_CONT" ELSE "DONE"]
      <4>1. SendResponse(p, Answer) /\ reqData.ty = "m"
        BY <2>5, <3>4 DEF SuppEapMethod
      <4>2. reqData.n \in Nonces
        BY <1>t, <3>2, <4>1, FrameFacts DEF Received
      <4>3. /\ p \in Sessions /\ p.lastReq = peer.lastReq /\ p.lastResp = peer.lastResp
            /\ p.key = reqData.n
        BY <1>t, <3>4, <4>2 DEF Sessions, Decisions
      <4> HIDE DEF p
      <4> QED BY <1>r, <3>2, <4>1, <4>3, SendResponseEffect
    <3> QED BY <3>1, <3>3, <3>4
  <2> QED BY <1>3, <2>1, <2>2, <2>3, <2>4, <2>5 DEF SuppEap
<1> QED BY <1>1, <1>2, <1>3 DEF SuppRun

LEMMA SuppSide ==
  ASSUME Challenge, LinkTypes, SuppEffect, UNCHANGED <<auth, toSupp>>
  PROVE  Challenge' /\ toAuth' \in Seq(ToAuthFrames) /\ Len(toAuth') <= Cap
<1>1. UNCHANGED <<srv, respData>>
  BY DEF auth
<1>2. Challenge'
  BY <1>1, SuppChallenge DEF SuppEffect
<1>3. toAuth' \in Seq(ToAuthFrames) /\ Len(toAuth') <= Cap
  BY PushFacts DEF SuppEffect, LinkTypes
<1> QED BY <1>2, <1>3

-----------------------------------------------------------------------------
(* What the Authenticator does to the challenge.                               *)

\* The conversation goes on, with a key only once the response has come; or it is
\* over; or it starts, with a challenge that nobody has.
AuthEffect ==
  /\ SrvFrames'
  /\ toSupp' = toSupp \/ (srv.req # None /\ toSupp' = Push(toSupp, srv.req))
  /\ respData' \in {respData, None}
  /\ \/ /\ srv'.nonce = srv.nonce
        /\ srv'.key \in {srv.key, None} \/ Carries(respData)
     \/ srv'.nonce = None
     \/ srv'.nonce \in Fresh /\ srv'.key = None /\ toSupp' = toSupp

LEMMA FreshFacts ==
  ASSUME NEW n \in Fresh
  PROVE  /\ n \in Nonces /\ n # None
         /\ n # rsn.pmk
         /\ peer.lastReq # None => peer.lastReq.n # n
         /\ reqData # None => reqData.n # n
         /\ respData # None => respData.n # n
         /\ \A i \in DOMAIN toAuth : toAuth[i].n # n
         /\ \A i \in DOMAIN toSupp : toSupp[i].n # n
<1>1. ~(Nonces \subseteq InUse) /\ n = CHOOSE m \in Nonces : m \notin InUse
  BY DEF Fresh
<1>2. n \in Nonces /\ n \notin InUse
  BY <1>1
<1>3. n # None
  BY <1>2, EapFramesAssumption
<1> QED BY <1>2, <1>3 DEF InUse

LEMMA AuthChallenge ==
  ASSUME Challenge, LinkTypes, AuthTypeOK, AuthEffect, UNCHANGED <<supp, toAuth>>
  PROVE  Challenge' /\ toSupp' \in Seq(ToSuppFrames) /\ Len(toSupp') <= Cap
<1>u. UNCHANGED <<peer, reqData>>
  BY DEF supp
<1>l. Len(toSupp) \in Nat /\ Len(toAuth) \in Nat
  BY DEF LinkTypes
<1>1. toSupp' \in Seq(ToSuppFrames) /\ Len(toSupp') <= Cap
  BY PushFacts DEF AuthEffect, LinkTypes, AuthTypeOK
<1>2. PeerLink' /\ SrvFrames'
  BY <1>u DEF Challenge, PeerLink, AuthEffect
<1>3. CASE srv'.nonce = None
  BY <1>1, <1>2, <1>3 DEF Challenge, Sent, Got, Done
<1>4. CASE srv'.nonce \in Fresh /\ srv'.key = None /\ toSupp' = toSupp
  <2>1. /\ srv'.nonce # None
        /\ peer.lastReq # None => peer.lastReq.n # srv'.nonce
        /\ reqData # None => reqData.n # srv'.nonce
        /\ respData # None => respData.n # srv'.nonce
        /\ \A i \in DOMAIN toAuth : toAuth[i].n # srv'.nonce
        /\ \A i \in DOMAIN toSupp : toSupp[i].n # srv'.nonce
    BY <1>4, FreshFacts
  <2>2. DOMAIN toAuth = 1 .. Len(toAuth) /\ DOMAIN toSupp = 1 .. Len(toSupp)
    BY DEF LinkTypes
  <2>3. respData' \in {respData, None}
    BY DEF AuthEffect
  <2>4. ~Answered' /\ ~Carries(reqData)' /\ \A i \in 1 .. Len(toSupp) : ~Carries(toSupp[i])'
    BY <1>u, <1>4, <2>1, <2>2, <2>3 DEF Answered, Carries
  <2>5. Sent' /\ Got' /\ Done'
    BY <1>4, <2>4 DEF Sent, Got, Done
  <2> QED BY <1>1, <1>2, <2>5 DEF Challenge
<1>5. CASE /\ srv'.nonce = srv.nonce
           /\ srv'.key \in {srv.key, None} \/ Carries(respData)
  <2>1. Own(srv.req)
    BY DEF Challenge, SrvFrames
  <2>2. PICK d \in {0, 1} :
            /\ Len(toSupp) >= d
            /\ \/ d = 0 /\ toSupp' = toSupp
               \/ /\ Len(toSupp') = Len(toSupp) + 1 - d
                  /\ toSupp'[Len(toSupp) + 1 - d] = srv.req
            /\ \A i \in 1 .. Len(toSupp) - d : toSupp'[i] = toSupp[i + d]
    <3>1. CASE toSupp' = toSupp
      BY <1>l, <3>1
    <3>2. CASE srv.req # None /\ toSupp' = Push(toSupp, srv.req)
      <4>1. srv.req \in ToSuppFrames
        BY <3>2 DEF AuthTypeOK
      <4>2. PICK d \in {0, 1} :
                 /\ Len(toSupp') = Len(toSupp) + 1 - d /\ Len(toSupp) >= d
                 /\ \A i \in 1 .. Len(toSupp) - d : toSupp'[i] = toSupp[i + d]
                 /\ toSupp'[Len(toSupp) + 1 - d] = srv.req
        BY <3>2, <4>1, PushFacts DEF LinkTypes
      <4> QED BY <4>2
    <3> QED BY <3>1, <3>2 DEF AuthEffect
  <2>3. ASSUME NEW i \in 1 .. Len(toSupp')
        PROVE  \/ i \in 1 .. Len(toSupp) - d /\ i + d \in 1 .. Len(toSupp) /\ toSupp'[i] = toSupp[i + d]
               \/ i = Len(toSupp') /\ toSupp'[i] = srv.req
    BY <1>l, <2>2
  <2>4. /\ \A i \in 1 .. Len(toSupp') : Own(toSupp[i])' <=> Own(toSupp'[i])
        /\ \A i \in 1 .. Len(toSupp') : Carries(toSupp[i])' <=> Carries(toSupp'[i])
        /\ Carries(reqData)' <=> Carries(reqData)
        /\ Own(reqData)' <=> Own(reqData)
    BY <1>5, <1>u DEF Own, Carries
  <2>5. OwnLink => OwnLink'
    BY <2>1, <2>3, <2>4 DEF OwnLink
  <2>6. Sent'
    <3> SUFFICES ASSUME srv.nonce # None, NEW i \in 1 .. Len(toSupp'), NEW j \in 1 .. Len(toSupp'),
                        i < j, Carries(toSupp'[i])
                 PROVE  Own(toSupp'[j])
      BY <1>5, <2>4 DEF Sent
    <3>1. i # Len(toSupp')
      BY <1>1
    <3>2. i + d \in 1 .. Len(toSupp) /\ Carries(toSupp[i + d])
      BY <2>3, <3>1
    <3>3. CASE j + d \in 1 .. Len(toSupp) /\ toSupp'[j] = toSupp[j + d]
      <4>1. i + d < j + d
        BY <1>l, <2>2, <1>1
      <4> QED BY <3>2, <3>3, <4>1 DEF Challenge, Sent
    <3> QED BY <2>1, <2>3, <3>3
  <2>7. Got'
    BY <1>5, <2>4, <2>5 DEF Challenge, Got
  <2>8. Answered' => Answered \/ srv.nonce = None
    <3>1. respData' \in {respData, None}
      BY DEF AuthEffect
    <3> QED BY <1>5, <1>u, <3>1 DEF Answered, Carries
  <2>9. Done'
    BY <1>5, <1>u, <2>4, <2>5, <2>8 DEF Challenge, Done
  <2> QED BY <1>1, <1>2, <2>6, <2>7, <2>9 DEF Challenge
<1> QED BY <1>3, <1>4, <1>5 DEF AuthEffect

LEMMA AuthEffectSame ==
  ASSUME SrvFrames, srv' = srv, respData' \in {respData, None},
         \/ toSupp' = toSupp
         \/ srv.req # None /\ toSupp' = Push(toSupp, srv.req)
  PROVE  AuthEffect
BY DEF AuthEffect, SrvFrames, Own

LEMMA AuthRunEffect ==
  ASSUME AuthInv, SrvFrames, AuthRun(Fresh) PROVE AuthEffect
<1>t. /\ AuthTypeOK
      /\ srv \in [method : {"none", "id", "m"}, curId : Ids \cup {-1},
              lastId : Ids \cup {-1}, nonce : Nonces \cup {None},
              req : ToSuppFrames \cup {None}, lastReq : Requests \cup {None},
              retrans : 0 .. MaxRetrans + 1, key : Nonces \cup {None}]
  BY DEF AuthInv, AuthTypeOK
<1>1. CASE AuthPae
  <2>1. srv' = srv /\ respData' = respData /\ toSupp' = toSupp
    BY <1>1 DEF AuthPae, AuthInitialize, AuthDisconnected, AuthRestart, AuthConnecting,
                AuthHeld, AuthAuthenticated, AuthAuthenticating, AuthAborting, AuthPaeEnter
  <2> QED BY <2>1, AuthEffectSame
<1>2. CASE AuthBe
  <2>1. /\ srv' = srv /\ respData' = respData
        /\ toSupp' = toSupp \/ (srv.req # None /\ toSupp' = Push(toSupp, srv.req))
    BY <1>2 DEF AuthBe, AuthBeInitialize, AuthBeRequest, AuthBeResponse, AuthBeSuccess,
                AuthBeFail, AuthBeTimeout, AuthBeIdle, AuthBeIgnore, AuthBeEnter, TxReq
  <2> QED BY <2>1, AuthEffectSame
<1>3. CASE AuthReauthTimer
  <2>1. srv' = srv /\ respData' = respData /\ toSupp' = toSupp
    BY <1>3 DEF AuthReauthTimer
  <2> QED BY <2>1, AuthEffectSame
<1>4. CASE AuthEap(Fresh)
  <2>p. ASSUME NEW x, SrvPass(x) PROVE respData' \in {respData, None} /\ toSupp' = toSupp
    BY <2>p DEF SrvPass
  <2>s. ASSUME NEW x, NEW f, NEW k, NEW g, SrvPass(x), SrvFinish(x, f, k, g), f.n = None
        PROVE  SrvFrames' /\ srv'.nonce = srv.nonce /\ srv'.key = k
    <3>1. srv' = [srv EXCEPT !.req = f, !.lastReq = None, !.key = k]
      BY <2>s DEF SrvFinish
    <3>2. srv'.req = f /\ srv'.lastReq = None /\ srv'.nonce = srv.nonce /\ srv'.key = k
      BY <1>t, <3>1
    <3> QED BY <2>s, <3>2 DEF SrvFrames, Own
  <2>f. Success(srv.curId).n = None /\ Failure(srv.curId).n = None
    BY DEF Success, Failure, Frame
  <2>1. ASSUME NEW id \in RandIds, AuthEapInitialize(id) PROVE AuthEffect
    <3> DEFINE i == IF id # srv.lastId THEN id ELSE NextId(id)
               f == Frame("Req", "id", i, None)
               c == {"eapSuccess", "eapFail", "eapTimeout", "eapRestart"}
    <3>1. SrvPass("IDLE") /\ SendRequest(f, None, c)
      BY <2>1 DEF AuthEapInitialize
    <3>2. id \in Ids /\ id \in Int
      BY EapolAuthAssumption, EapFramesAssumption DEF Ids
    <3>3. i \in Ids
      BY <3>2, NextIdType
    <3>4. f \in Requests /\ f.n = None
      BY <3>3 DEF Requests, Frame
    <3> HIDE DEF f, c, i
    <3>5. srv'.nonce = None /\ srv'.req = f /\ srv'.lastReq = f
      BY <1>t, <3>1, <3>4, SendRequestType
    <3> QED BY <2>p, <3>1, <3>4, <3>5 DEF AuthEffect, SrvFrames, Own
  <2>2. CASE AuthEapDisabled \/ AuthEapDiscard \/ AuthEapStay
    <3>1. srv' = srv /\ respData' \in {respData, None} /\ toSupp' = toSupp
      BY <2>2 DEF AuthEapDisabled, AuthEapDiscard, AuthEapStay, SrvDiscard, SrvPass
    <3> QED BY <3>1, AuthEffectSame
  <2>3. CASE AuthEapRetransmit
    <3>1. /\ \E x : SrvPass(x)
          /\ \/ srv' = [srv EXCEPT !.retrans = srv.retrans + 1, !.req = srv.lastReq]
             \/ srv' = [srv EXCEPT !.retrans = srv.retrans + 1]
      BY <2>3 DEF AuthEapRetransmit
    <3>2. /\ srv'.nonce = srv.nonce /\ srv'.key = srv.key /\ srv'.lastReq = srv.lastReq
          /\ srv'.req \in {srv.req, srv.lastReq}
      BY <1>t, <3>1
    <3> QED BY <2>p, <3>1, <3>2 DEF AuthEffect, SrvFrames, Own
  <2>4. ASSUME NEW v \in Verdicts, NEW n \in Fresh, AuthEapIdentity(v, n) PROVE AuthEffect
    <3>0. RespMatches
      BY <2>4 DEF AuthEapIdentity
    <3>1. CASE v = "fail"
      <4>1. SrvFinish("FAILURE", Failure(srv.curId), None, "eapFail")
        BY <2>4, <3>1 DEF AuthEapIdentity
      <4>2. SrvPass("FAILURE")
        BY <4>1 DEF SrvFinish
      <4> QED BY <2>f, <2>s, <2>p, <4>1, <4>2 DEF AuthEffect
    <3>2. CASE v # "fail"
      <4> DEFINE f == Frame("Req", "m", NextId(srv.curId), n)
      <4>1. SrvPass("IDLE") /\ SendRequest(f, n, {})
        BY <2>4, <3>2 DEF AuthEapIdentity
      <4>2. srv.curId \in Ids /\ srv.curId \in Int
        BY <1>t, <3>0, RespMatchesFacts, EapFramesAssumption DEF Ids
      <4>3. n \in Nonces
        BY FreshFacts
      <4>4. f \in Requests /\ f.n = n
        BY <4>2, <4>3, NextIdType DEF Requests, Frame
      <4> HIDE DEF f
      <4>5. srv'.nonce = n /\ srv'.req = f /\ srv'.lastReq = f /\ srv'.key = None
        BY <1>t, <4>1, <4>3, <4>4, SendRequestType
      <4> QED BY <2>p, <4>1, <4>4, <4>5 DEF AuthEffect, SrvFrames, Own
    <3> QED BY <3>1, <3>2
  <2>5. ASSUME NEW v \in Verdicts, AuthEapMethod(v) PROVE AuthEffect
    <3>0. RespMatches
      BY <2>5 DEF AuthEapMethod
    <3>1. Carries(respData)
      BY <3>0 DEF RespMatches, Carries
    <3>2. \E x, f, k, g : SrvPass(x) /\ SrvFinish(x, f, k, g) /\ f.n = None
      BY <2>5, <2>f DEF AuthEapMethod, SrvFinish
    <3> QED BY <2>s, <2>p, <3>1, <3>2 DEF AuthEffect
  <2> QED BY <1>4, <2>1, <2>2, <2>3, <2>4, <2>5 DEF AuthEap
<1> QED BY <1>1, <1>2, <1>3, <1>4 DEF AuthRun

-----------------------------------------------------------------------------
(* Frames that leave the link.                                                 *)

LEMMA SameChallenge ==
  ASSUME Challenge, UNCHANGED <<peer, reqData, srv, respData, toAuth, toSupp>>
  PROVE  Challenge'
BY DEF Challenge, PeerLink, SrvFrames, Sent, Got, Done, Answered, OwnLink, Own, Carries

\* The Supplicant is given the first frame, or the frame is lost.
LEMMA SuppTakes ==
  ASSUME Challenge, LinkTypes, toSupp # <<>>, toSupp' \in {toSupp, Tail(toSupp)},
         reqData' \in {reqData, Head(toSupp)},
         UNCHANGED <<peer, srv, respData, toAuth>>
  PROVE  Challenge' /\ toSupp' \in Seq(ToSuppFrames) /\ Len(toSupp') <= Cap
<1>t. /\ Tail(toSupp) \in Seq(ToSuppFrames) /\ Len(Tail(toSupp)) <= Cap
      /\ Len(Tail(toSupp)) = Len(toSupp) - 1 /\ Len(toSupp) >= 1 /\ Head(toSupp) = toSupp[1]
      /\ \A i \in 1 .. Len(Tail(toSupp)) : Tail(toSupp)[i] = toSupp[i + 1]
  BY TailFacts DEF LinkTypes
<1>l. Len(toSupp) \in Nat /\ toSupp \in Seq(ToSuppFrames) /\ Len(toSupp) <= Cap
  BY DEF LinkTypes
<1>1. PICK d \in {0, 1} : /\ Len(toSupp') = Len(toSupp) - d
                          /\ \A i \in 1 .. Len(toSupp') : toSupp'[i] = toSupp[i + d]
  <2>1. CASE toSupp' = toSupp
    BY <1>l, <2>1
  <2>2. CASE toSupp' = Tail(toSupp)
    BY <1>t, <2>2
  <2> QED BY <2>1, <2>2
<1>2. toSupp' \in Seq(ToSuppFrames) /\ Len(toSupp') <= Cap
  BY <1>t, <1>l
<1>3. \A i \in 1 .. Len(toSupp') : i + d \in 1 .. Len(toSupp) /\ toSupp'[i] = toSupp[i + d]
  BY <1>l, <1>1
<1>4. PeerLink' /\ SrvFrames'
  BY DEF Challenge, PeerLink, SrvFrames, Own
<1>5. OwnLink => OwnLink'
  BY <1>3 DEF OwnLink, Own
<1>6. Sent'
  <2> SUFFICES ASSUME srv.nonce # None, NEW i \in 1 .. Len(toSupp'), NEW j \in 1 .. Len(toSupp'),
                      i < j, Carries(toSupp'[i])
               PROVE  Own(toSupp'[j])
    BY DEF Sent, Own, Carries
  <2>1. i + d < j + d /\ i + d \in 1 .. Len(toSupp) /\ j + d \in 1 .. Len(toSupp)
    BY <1>l, <1>1, <1>3
  <2>2. toSupp'[i] = toSupp[i + d] /\ toSupp'[j] = toSupp[j + d]
    BY <1>3
  <2> QED BY <2>1, <2>2 DEF Challenge, Sent
<1>7. srv.nonce # None /\ Carries(reqData)' => OwnLink
  <2> SUFFICES ASSUME srv.nonce # None, Carries(reqData') PROVE OwnLink
    BY DEF Carries
  <2>1. CASE reqData' = reqData
    BY <2>1 DEF Challenge, Got
  <2>2. CASE reqData' = Head(toSupp)
    <3>1. Carries(toSupp[1]) /\ 1 \in 1 .. Len(toSupp)
      BY <1>t, <1>l, <2>2
    <3>2. ASSUME NEW i \in 1 .. Len(toSupp) PROVE Own(toSupp[i])
      <4>1. CASE i = 1
        BY <3>1, <4>1 DEF Own, Carries
      <4>2. CASE i # 1
        <5>1. 1 < i
          BY <1>l, <4>2
        <5> QED BY <3>1, <5>1 DEF Challenge, Sent
      <4> QED BY <4>1, <4>2
    <3> QED BY <3>2 DEF OwnLink
  <2> QED BY <2>1, <2>2
<1>8. Answered' <=> Answered
  BY DEF Answered, Carries
<1>9. Done'
  <2> SUFFICES ASSUME srv.nonce # None, Answered
               PROVE  peer.key \in {None, srv.nonce} /\ OwnLink /\ Own(reqData')
    BY <1>5, <1>8 DEF Done, Own
  <2>1. peer.key \in {None, srv.nonce} /\ OwnLink /\ Own(reqData)
    BY DEF Challenge, Done
  <2>2. Own(Head(toSupp))
    BY <1>t, <1>l, <2>1 DEF OwnLink
  <2> QED BY <2>1, <2>2
<1> QED BY <1>2, <1>4, <1>5, <1>6, <1>7, <1>9 DEF Challenge, Got

\* The Authenticator is given the first frame, or the frame is lost.
LEMMA AuthTakes ==
  ASSUME Challenge, LinkTypes, toAuth # <<>>, toAuth' \in {toAuth, Tail(toAuth)},
         respData' \in {respData, Head(toAuth)},
         UNCHANGED <<peer, srv, reqData, toSupp>>
  PROVE  Challenge' /\ toAuth' \in Seq(ToAuthFrames) /\ Len(toAuth') <= Cap
<1>t. /\ Tail(toAuth) \in Seq(ToAuthFrames) /\ Len(Tail(toAuth)) <= Cap
      /\ Len(Tail(toAuth)) = Len(toAuth) - 1 /\ Len(toAuth) >= 1 /\ Head(toAuth) = toAuth[1]
      /\ \A i \in 1 .. Len(Tail(toAuth)) : Tail(toAuth)[i] = toAuth[i + 1]
  BY TailFacts DEF LinkTypes
<1>l. Len(toAuth) \in Nat /\ toAuth \in Seq(ToAuthFrames) /\ Len(toAuth) <= Cap
  BY DEF LinkTypes
<1>1. toAuth' \in Seq(ToAuthFrames) /\ Len(toAuth') <= Cap
  BY <1>t, <1>l
<1>2. \A i \in 1 .. Len(toAuth') : \E k \in 1 .. Len(toAuth) : toAuth'[i] = toAuth[k]
  <2>1. CASE toAuth' = toAuth
    BY <2>1
  <2>2. CASE toAuth' = Tail(toAuth)
    <3>1. \A i \in 1 .. Len(toAuth') : i + 1 \in 1 .. Len(toAuth) /\ toAuth'[i] = toAuth[i + 1]
      BY <1>t, <1>l, <2>2
    <3> QED BY <3>1
  <2> QED BY <2>1, <2>2
<1>3. PeerLink' /\ SrvFrames' /\ Sent' /\ Got'
  BY DEF Challenge, PeerLink, SrvFrames, Sent, Got, OwnLink, Own, Carries
<1>4. Answered' => Answered
  <2>1. Carries(respData') => Answered
    BY <1>t, <1>l DEF Answered
  <2> QED BY <1>2, <2>1 DEF Answered, Carries
<1>5. Done'
  BY <1>4 DEF Challenge, Done, OwnLink, Own
<1> QED BY <1>1, <1>3, <1>5 DEF Challenge

-----------------------------------------------------------------------------
(* The whole system.                                                           *)

LEMMA InvInit == Init => Inv
<1> SUFFICES ASSUME Init PROVE Inv
  OBVIOUS
<1>1. SuppInv /\ AuthInv
  BY SuppInvInit, AuthInvInit DEF Init
<1>2. toAuth = <<>> /\ toSupp = <<>> /\ peer = NoSession /\ reqData = None
        /\ srv = NoServerSession /\ respData = None /\ known = FALSE /\ events = 0
  BY DEF Init, SuppInit, AuthInit
<1>3. LinkTypes
  <2>1. 0 \in 0 .. MaxEvents /\ Len(<<>>) = 0 /\ 0 <= Cap
    BY Dot1xAssumption, EapFramesAssumption
  <2>2. <<>> \in Seq(ToAuthFrames) /\ <<>> \in Seq(ToSuppFrames)
    OBVIOUS
  <2> QED BY <1>2, <2>1, <2>2 DEF LinkTypes
<1>4. Challenge
  BY <1>2 DEF Challenge, PeerLink, SrvFrames, Sent, Got, Done, Own, NoSession, NoServerSession
<1> QED BY <1>1, <1>3, <1>4 DEF Inv

\* Only what a step sets: the counters and the station's entry.
LEMMA BoundsStep ==
  ASSUME LinkTypes, Next
  PROVE  known' \in BOOLEAN /\ events' \in 0 .. MaxEvents
<1>1. known' \in {known, TRUE}
  BY DEF Next, Associate, Disassociate, Deauthenticate, UserLogoff, SuppRequest, HandshakeStart,
         SuppHandshakeDone, AuthHandshakeDone, SuppReceive, AuthReceive, Lose, SuppTimer,
         AuthTimer, AuthEvent, SuppSteps, AuthSteps, Quiet, bounds
<1>2. events' = events \/ Event
  BY DEF Next, Associate, Disassociate, Deauthenticate, UserLogoff, SuppRequest, HandshakeStart,
         SuppHandshakeDone, AuthHandshakeDone, SuppReceive, AuthReceive, Lose, SuppTimer,
         AuthTimer, AuthEvent, SuppSteps, AuthSteps, Quiet, bounds
<1>3. events \in 0 .. MaxEvents /\ known \in BOOLEAN
  BY DEF LinkTypes
<1>4. Event => events' \in 0 .. MaxEvents
  BY <1>3, Dot1xAssumption DEF Event
<1> QED BY <1>1, <1>2, <1>3, <1>4

\* A run of one side's machines.
LEMMA RunsStep ==
  ASSUME Inv, SuppSteps \/ AuthSteps, known' \in BOOLEAN, events' \in 0 .. MaxEvents
  PROVE  Inv'
<1>p. SuppInv /\ AuthInv /\ LinkTypes /\ Challenge /\ PeerLink /\ SrvFrames /\ AuthTypeOK
  BY DEF Inv, Challenge, AuthInv
<1>1. CASE SuppSteps
  <2>1. SuppRun /\ UNCHANGED <<auth, toSupp>>
    BY <1>1 DEF SuppSteps
  <2>2. SuppInv' /\ AuthInv'
    BY <1>p, <2>1, SuppRunStep, AuthStutter
  <2>3. Challenge' /\ toAuth' \in Seq(ToAuthFrames) /\ Len(toAuth') <= Cap
    BY <1>p, <2>1, SuppRunEffect, SuppSide
  <2> QED BY <1>p, <2>1, <2>2, <2>3 DEF Inv, LinkTypes
<1>2. CASE AuthSteps
  <2>1. UNCHANGED <<supp, toAuth>> /\ (RsnInitPmk \/ AuthRun(Fresh))
    BY <1>2 DEF AuthSteps
  <2>2. SuppInv'
    BY <1>p, <2>1, SuppStutter
  <2>3. Fresh \subseteq Nonces \ {rsn.pmk}
    BY FreshFacts
  <2>4. AuthInv' /\ AuthEffect
    <3>1. CASE RsnInitPmk
      <4>1. srv' = srv /\ respData' = respData /\ toSupp' = toSupp
        BY <3>1 DEF RsnInitPmk
      <4> QED BY <1>p, <3>1, <4>1, RsnInitPmkStep, AuthEffectSame
    <3>2. CASE AuthRun(Fresh)
      BY <1>p, <2>3, <3>2, AuthRunStep, AuthRunEffect
    <3> QED BY <2>1, <3>1, <3>2
  <2>5. Challenge' /\ toSupp' \in Seq(ToSuppFrames) /\ Len(toSupp') <= Cap
    BY <1>p, <2>1, <2>4, AuthChallenge
  <2> QED BY <1>p, <2>1, <2>2, <2>4, <2>5 DEF Inv, LinkTypes
<1> QED BY <1>1, <1>2

\* An event that leaves the frames, the EAP sessions and the link alone.
LEMMA QuietEvent ==
  ASSUME Inv, SuppInv', AuthInv', known' \in BOOLEAN, events' \in 0 .. MaxEvents,
         UNCHANGED <<peer, reqData, srv, respData, toAuth, toSupp>>
  PROVE  Inv'
<1>1. Challenge' /\ LinkTypes'
  BY SameChallenge DEF Inv, LinkTypes
<1> QED BY <1>1 DEF Inv

LEMMA StationEvents ==
  ASSUME Inv, Associate \/ Disassociate \/ Deauthenticate \/ UserLogoff \/ SuppHandshakeDone,
         known' \in BOOLEAN, events' \in 0 .. MaxEvents
  PROVE  Inv'
<1>p. SuppInv /\ AuthInv /\ known \in BOOLEAN
  BY DEF Inv, LinkTypes
<1>n. ASSUME NEW add, NEW del, SuppNotify(add, del)
      PROVE  UNCHANGED <<peer, reqData, toAuth>>
  BY <1>n DEF SuppNotify
<1>a. ASSUME UNCHANGED <<auth, toSupp>>
      PROVE  AuthInv' /\ UNCHANGED <<srv, respData, toSupp>>
  BY <1>p, <1>a, AuthStutter DEF auth
<1>d. ASSUME AuthPortDown PROVE AuthInv' /\ UNCHANGED <<srv, respData, toSupp>>
  BY <1>p, <1>d, AuthEventStep DEF AuthPortDown, AuthNotify
<1>x. ASSUME SuppNotify({}, {"portEnabled", "portValid"})
      PROVE  SuppInv' /\ UNCHANGED <<peer, reqData, toAuth>>
  <2> DEFINE a == {}
             d == {"portEnabled", "portValid"}
  <2>1. /\ SuppNotify(a, d) /\ a \subseteq {"portEnabled", "portValid", "userLogoff", "cachedPmk"}
        /\ d \subseteq {"portEnabled", "portValid", "userLogoff"} /\ "cachedPmk" \notin a
    BY <1>x
  <2> HIDE DEF a, d
  <2> QED BY <1>p, <1>n, <2>1, SuppNotifyStep
<1>1. CASE Associate
  <2>1. PICK cached \in {{}, IF plain THEN {} ELSE {"cachedPmk"}} :
                 SuppNotify({"portEnabled"} \cup cached, {})
    BY <1>1 DEF Associate
  <2>2. AuthNewStation(known) /\ ~SUp
    BY <1>1 DEF Associate, SUp
  <2> DEFINE a == {"portEnabled"} \cup cached
             d == {}
  <2>3. /\ SuppNotify(a, d) /\ a \subseteq {"portEnabled", "portValid", "userLogoff", "cachedPmk"}
        /\ d \subseteq {"portEnabled", "portValid", "userLogoff"}
    BY <2>1
  <2> HIDE DEF a, d
  <2>4. SuppInv' /\ UNCHANGED <<peer, reqData, toAuth>>
    BY <1>p, <1>n, <2>2, <2>3, SuppNotifyStep
  <2>5. AuthInv' /\ UNCHANGED <<srv, respData, toSupp>>
    BY <1>p, <2>2, AuthEventStep DEF AuthNewStation, AuthNotify
  <2> QED BY <2>4, <2>5, QuietEvent
<1>2. CASE Disassociate
  <2>1. /\ SuppNotify({}, {"portEnabled", "portValid"})
        /\ AuthPortDown \/ UNCHANGED <<auth, toSupp>>
    BY <1>2 DEF Disassociate
  <2> QED BY <1>a, <1>d, <1>x, <2>1, QuietEvent
<1>3. CASE Deauthenticate
  <2>1. /\ SuppNotify({}, {"portEnabled", "portValid"}) \/ UNCHANGED <<supp, toAuth>>
        /\ AuthPortDown
    BY <1>3 DEF Deauthenticate
  <2>2. CASE UNCHANGED <<supp, toAuth>>
    <3>1. SuppInv' /\ UNCHANGED <<peer, reqData, toAuth>>
      BY <1>p, <2>2, SuppStutter DEF supp
    <3> QED BY <1>d, <2>1, <3>1, QuietEvent
  <2> QED BY <1>d, <1>x, <2>1, <2>2, QuietEvent
<1>4. CASE UserLogoff \/ SuppHandshakeDone
  <2>1. /\ UNCHANGED <<auth, toSupp>>
        /\ \/ SuppNotify({}, {"userLogoff"}) \/ SuppNotify({"userLogoff"}, {})
           \/ SuppNotify({"portValid"}, {})
    BY <1>4 DEF UserLogoff, SuppHandshakeDone, Quiet
  <2>2. PICK a, d : /\ SuppNotify(a, d) /\ a \subseteq {"portValid", "userLogoff"}
                    /\ d \subseteq {"userLogoff"}
    BY <2>1
  <2>3. /\ a \subseteq {"portEnabled", "portValid", "userLogoff", "cachedPmk"}
        /\ d \subseteq {"portEnabled", "portValid", "userLogoff"} /\ "cachedPmk" \notin a
    BY <2>2
  <2>4. SuppInv' /\ UNCHANGED <<peer, reqData, toAuth>>
    BY <1>p, <1>n, <2>2, <2>3, SuppNotifyStep
  <2> QED BY <1>a, <2>1, <2>4, QuietEvent
<1> QED BY <1>1, <1>2, <1>3, <1>4

LEMMA OneSidedEvents ==
  ASSUME Inv, \/ SuppRequest \/ HandshakeStart \/ AuthHandshakeDone
              \/ SuppTimer \/ AuthTimer \/ AuthEvent,
         known' \in BOOLEAN, events' \in 0 .. MaxEvents
  PROVE  Inv'
<1>p. SuppInv /\ AuthInv /\ LinkTypes /\ Challenge /\ PeerLink
  BY DEF Inv, Challenge
<1>a. ASSUME UNCHANGED <<auth, toSupp>>
      PROVE  AuthInv' /\ UNCHANGED <<srv, respData, toSupp>>
  BY <1>p, <1>a, AuthStutter DEF auth
<1>s. ASSUME UNCHANGED <<supp, toAuth>>
      PROVE  SuppInv' /\ UNCHANGED <<peer, reqData, toAuth>>
  BY <1>p, <1>s, SuppStutter DEF supp
<1>1. CASE SuppRequest
  <2>1. UNCHANGED <<auth, toSupp>> /\ (SuppRetryPending \/ SuppRequestReauth)
    BY <1>1 DEF SuppRequest
  <2>2. CASE SuppRetryPending
    <3>1. SuppInv' /\ UNCHANGED <<peer, reqData, toAuth>>
      BY <1>p, <2>2, SuppRetryPendingStep DEF SuppRetryPending
    <3> QED BY <1>a, <2>1, <3>1, QuietEvent
  <2>3. CASE SuppRequestReauth
    <3>1. UNCHANGED supp /\ toAuth' = Push(toAuth, Start) /\ UNCHANGED <<peer, reqData>>
      BY <2>3 DEF SuppRequestReauth, supp
    <3>2. Challenge' /\ toAuth' \in Seq(ToAuthFrames) /\ Len(toAuth') <= Cap
      BY <1>p, <2>1, <3>1, SuppEffectSame, SuppSide
    <3>3. SuppInv'
      BY <1>p, <3>1, SuppStutter
    <3> QED BY <1>p, <1>a, <2>1, <3>2, <3>3 DEF Inv, LinkTypes
  <2> QED BY <2>1, <2>2, <2>3
<1>2. CASE HandshakeStart
  <2>1. UNCHANGED <<auth, toSupp>> /\ SuppLowerLayerSuccess /\ SUp /\ peer.dec # "FAIL"
    BY <1>2 DEF HandshakeStart, HandshakeRuns, Quiet, SUp
  <2>2. SuppInv' /\ UNCHANGED <<peer, reqData, toAuth>>
    BY <1>p, <2>1, SuppLowerLayerSuccessStep DEF SuppLowerLayerSuccess
  <2> QED BY <1>a, <2>1, <2>2, QuietEvent
<1>3. CASE AuthHandshakeDone
  <2>1. UNCHANGED <<supp, toAuth>> /\ AuthPortValid
    BY <1>3 DEF AuthHandshakeDone, Quiet
  <2>2. AuthInv' /\ UNCHANGED <<srv, respData, toSupp>>
    BY <1>p, <2>1, AuthEventStep DEF AuthPortValid, AuthNotify
  <2> QED BY <1>s, <2>1, <2>2, QuietEvent
<1>4. CASE SuppTimer
  <2>1. UNCHANGED <<auth, toSupp>> /\ \E E : SuppTick(E)
    BY <1>4 DEF SuppTimer
  <2>2. SuppInv' /\ UNCHANGED <<peer, reqData, toAuth>>
    BY <1>p, <2>1, SuppTickStep DEF SuppTick
  <2> QED BY <1>a, <2>1, <2>2, QuietEvent
<1>5. CASE AuthTimer \/ AuthEvent
  <2>1. UNCHANGED <<supp, toAuth>> /\ (AuthStepCb \/ \E E \in SUBSET aTmr : AuthTick(E))
    BY <1>5 DEF AuthTimer, AuthEvent, Quiet
  <2>2. AuthInv' /\ UNCHANGED <<srv, respData, toSupp>>
    BY <1>p, <2>1, AuthLoopStarts DEF AuthStepCb, AuthTick
  <2> QED BY <1>s, <2>1, <2>2, QuietEvent
<1> QED BY <1>1, <1>2, <1>3, <1>4, <1>5

LEMMA LinkEvents ==
  ASSUME Inv, SuppReceive \/ AuthReceive \/ Lose,
         known' \in BOOLEAN, events' \in 0 .. MaxEvents
  PROVE  Inv'
<1>p. SuppInv /\ AuthInv /\ LinkTypes /\ Challenge
  BY DEF Inv
<1>1. CASE SuppReceive
  <2>1. /\ toSupp # <<>> /\ SUp /\ SuppRxEap(Head(toSupp)) /\ UNCHANGED auth
        /\ toSupp' \in {toSupp, Tail(toSupp)}
    BY <1>1 DEF SuppReceive, SUp
  <2>2. Head(toSupp) \in ToSuppFrames
    BY <1>p, <2>1, TailFacts DEF LinkTypes
  <2>3. reqData' = Head(toSupp) /\ UNCHANGED <<peer, toAuth, srv, respData>>
    BY <2>1 DEF SuppRxEap, auth
  <2>4. SuppInv' /\ AuthInv'
    BY <1>p, <2>1, <2>2, SuppRxEapStep, AuthStutter
  <2>5. Challenge' /\ toSupp' \in Seq(ToSuppFrames) /\ Len(toSupp') <= Cap
    BY <1>p, <2>1, <2>3, SuppTakes
  <2> QED BY <1>p, <2>3, <2>4, <2>5 DEF Inv, LinkTypes
<1>2. CASE AuthReceive
  <2>1. /\ toAuth # <<>> /\ AuthRx(Head(toAuth)) /\ UNCHANGED supp
        /\ toAuth' \in {toAuth, Tail(toAuth)}
    BY <1>2 DEF AuthReceive
  <2>2. Head(toAuth) \in ToAuthFrames
    BY <1>p, <2>1, TailFacts DEF LinkTypes
  <2>3. respData' \in {respData, Head(toAuth)} /\ UNCHANGED <<peer, reqData, toSupp, srv>>
    BY <2>1 DEF AuthRx, AuthNotify, supp
  <2>4. SuppInv' /\ AuthInv'
    BY <1>p, <2>1, <2>2, SuppStutter, AuthEventStep
  <2>5. Challenge' /\ toAuth' \in Seq(ToAuthFrames) /\ Len(toAuth') <= Cap
    BY <1>p, <2>1, <2>3, AuthTakes
  <2> QED BY <1>p, <2>3, <2>4, <2>5 DEF Inv, LinkTypes
<1>3. CASE Lose
  <2>1. UNCHANGED <<supp, auth>>
    BY <1>3 DEF Lose
  <2>2. SuppInv' /\ AuthInv' /\ UNCHANGED <<peer, reqData, srv, respData>>
    BY <1>p, <2>1, SuppStutter, AuthStutter DEF supp, auth
  <2>3. CASE toSupp # <<>> /\ toSupp' = Tail(toSupp) /\ UNCHANGED toAuth
    <3>1. Challenge' /\ toSupp' \in Seq(ToSuppFrames) /\ Len(toSupp') <= Cap
      BY <1>p, <2>2, <2>3, SuppTakes
    <3> QED BY <1>p, <2>2, <2>3, <3>1 DEF Inv, LinkTypes
  <2>4. CASE toAuth # <<>> /\ toAuth' = Tail(toAuth) /\ UNCHANGED toSupp
    <3>1. Challenge' /\ toAuth' \in Seq(ToAuthFrames) /\ Len(toAuth') <= Cap
      BY <1>p, <2>2, <2>4, AuthTakes
    <3> QED BY <1>p, <2>2, <2>4, <3>1 DEF Inv, LinkTypes
  <2> QED BY <1>3, <2>3, <2>4 DEF Lose
<1> QED BY <1>1, <1>2, <1>3

LEMMA InvNext ==
  ASSUME Inv, [Next]_vars PROVE Inv'
<1>1. CASE Next
  <2>1. known' \in BOOLEAN /\ events' \in 0 .. MaxEvents
    BY <1>1, BoundsStep DEF Inv
  <2> QED BY <1>1, <2>1, RunsStep, StationEvents, OneSidedEvents, LinkEvents DEF Next
<1>2. CASE UNCHANGED vars
  <2>1. UNCHANGED <<supp, auth, toAuth, toSupp, known, events>>
    BY <1>2 DEF vars, bounds
  <2>2. SuppInv' /\ AuthInv' /\ UNCHANGED <<peer, reqData, srv, respData>>
    BY <2>1, SuppStutter, AuthStutter DEF Inv, supp, auth
  <2> QED BY <2>1, <2>2, QuietEvent DEF Inv, LinkTypes
<1> QED BY <1>1, <1>2

LEMMA InvHolds == Spec => []Inv
<1>1. Init => Inv
  BY InvInit
<1>2. Inv /\ [Next]_vars => Inv'
  BY InvNext
<1> QED BY <1>1, <1>2, PTL DEF Spec

\* Every variable of both sides and of the link keeps its type: in particular the
\* Identifiers stay eight bits wide, the retransmissions and the authentication
\* attempts stay within their limits, and the links within their capacity.
THEOREM TypeCorrect == Spec => []TypeOK
<1>1. Inv => TypeOK
  BY DEF Inv, SuppInv, AuthInv, LinkTypes, TypeOK
<1> QED BY <1>1, InvHolds, PTL

\* eapol_sm_step of the Supplicant never returns with SUPP_BE or SUPP_PAE waiting
\* for each other: SUPP_BE is in a state that an event leaves, and no restart of
\* the EAP peer is left unserved.
THEOREM Quiescent == Spec => []SuppQuiescent
<1>1. Inv => SuppQuiescent
  BY SuppInvSafe DEF Inv, SuppQuiescent
<1> QED BY <1>1, InvHolds, PTL

\* No packet that the Supplicant received is answered twice, whatever duplicates,
\* retries of pending requests and restarts there are.
THEOREM OneAnswer == Spec => []AnsweredOnce
<1>1. Inv => AnsweredOnce
  BY SuppInvSafe DEF Inv, AnsweredOnce
<1> QED BY <1>1, InvHolds, PTL

\* While the Supplicant waits for a timer, eapol_port_timers_tick is scheduled.
THEOREM TickCorrect == Spec => []TickRuns
<1>1. Inv => TickRuns
  BY SuppInvSafe DEF Inv, TickRuns
<1> QED BY <1>1, InvHolds, PTL

\* The RSN authenticator starts a 4-way handshake only with the key of a present
\* success that no earlier handshake was started with.
THEOREM KeyRunCorrect == Spec => []KeyRunFresh
<1>1. Inv => KeyRunFresh
  BY AuthInvSafe DEF Inv, KeyRunFresh
<1> QED BY <1>1, InvHolds, PTL

\* BE_AUTH hands the EAP server only responses that came in after its last
\* request was sent.
THEOREM ResponseCorrect == Spec => []ResponseFresh
<1>1. Inv => ResponseFresh
  BY AuthInvSafe DEF Inv, ResponseFresh
<1> QED BY <1>1, InvHolds, PTL

\* When both ends hold the authentication for successful, the Supplicant's key is
\* the server's or has been dropped, for every capacity of the link and every
\* loss, duplication, restart and reassociation.
THEOREM KeyAgreed == Spec => []KeysAgree
<1>1. Inv => KeysAgree
  <2> SUFFICES ASSUME Inv, "eapSuccess" \in af PROVE peer.key \in {None, srv.key}
    BY DEF KeysAgree
  <2>1. srv.key # None /\ srv.key = srv.nonce
    BY DEF Inv, AuthInv, AuthServer
  <2> QED BY <2>1 DEF Inv, Challenge, Done, Answered
<1> QED BY <1>1, InvHolds, PTL

------------------------------------------------------------------------------
(* The loop of eapol_sm_step_run ends.  As for the Supplicant, AuthLeft bounds *)
(* the changes of state still to come in this run.                            *)

\* The server has given a result and has not been restarted since.
AuthFinished == "eapSuccess" \in af \/ "eapFail" \in af \/ "eapTimeout" \in af

\* The next CONNECTING will not give the station up.
AuthClear == "eapolLogoff" \notin af /\ reAuthCount < ReAuthMax

\* What AUTH_PAE has before it.  A result of the server that it has not taken leads
\* through AUTHENTICATING to HELD or, by way of ABORTING, to a new attempt.
AuthPaeLeft ==
  CASE aPae = "INITIALIZE" -> 8
    [] aPae = "DISCONNECTED" -> IF AuthClear THEN 7 ELSE 11
    [] aPae = "RESTART" -> IF "eapRestart" \in af THEN (IF AuthClear THEN 6 ELSE 10)
                           ELSE IF AuthFinished THEN 19 ELSE IF AuthClear THEN 5 ELSE 9
    [] aPae = "CONNECTING" -> IF AuthFinished THEN 18
                              ELSE IF "eapolLogoff" \in af \/ reAuthCount > ReAuthMax THEN 8 ELSE 4
    [] aPae = "AUTHENTICATING" ->
         IF AuthFinished \/ "authSuccess" \in af \/ "authFail" \in af \/ "authTimeout" \in af
              \/ "eapolStart" \in af \/ "eapolLogoff" \in af THEN 14 ELSE 0
    [] aPae = "AUTHENTICATED" ->
         IF "portValid" \notin af \/ "eapolStart" \in af \/ "reAuthenticate" \in af
              \/ "eapolLogoff" \in af THEN 11 ELSE 0
    [] aPae = "ABORTING" -> 11
    [] aPae = "HELD" -> IF "quietWhile" \in aTmr THEN 0 ELSE 11

\* What BE_AUTH has before it.
AuthBeLeft ==
  CASE aBe = "RESPONSE" -> 4
    [] aBe = "IGNORE" -> 3
    [] aBe = "REQUEST" -> 2
    [] aBe = "IDLE" -> IF "authStart" \in af THEN 3 ELSE 0
    [] aBe \in {"INITIALIZE", "SUCCESS", "FAIL", "TIMEOUT"} -> 1

\* What the flags and the expired timers can set off: a response and a
\* retransmission each give the server a pass whose result may be the last, and
\* BE_AUTH ends an authentication by itself when the server does not answer.
AuthDue ==
  18 * Cnt("eapolEap" \in af) + 15 * Cnt("eapResp" \in af /\ aEap = "IDLE")
  + 15 * Cnt(aEap = "IDLE" /\ "retransWhile" \notin aTmr)
  + 13 * Cnt("reAuthWhen" \notin aTmr /\ aReauth = "INITIALIZE")
  + Cnt(aReauth = "REAUTHENTICATE") + 2 * Cnt("authAbort" \in af)
  + 12 * Cnt(aBe = "RESPONSE" /\ "aWhile" \notin aTmr)

\* With the port down AUTH_PAE and the EAP server go to their first states and
\* stay there.
AuthFrontLeft ==
  IF AUp THEN AuthPaeLeft ELSE Cnt(aPae # "INITIALIZE") + Cnt(aEap # "DISABLED")

AuthLeft == AuthFrontLeft + AuthBeLeft + AuthDue

LEMMA AuthLeftParts ==
  ASSUME AuthTypeOK
  PROVE  AuthPaeLeft \in 0 .. 19 /\ AuthBeLeft \in 0 .. 4 /\ AuthDue \in 0 .. 75
<1>1. AuthPaeLeft \in 0 .. 19
  BY DEF AuthTypeOK, AuthPaeLeft
<1>2. AuthBeLeft \in 0 .. 4
  BY DEF AuthTypeOK, AuthBeLeft
<1>3. AuthDue \in 0 .. 75
  BY DEF AuthDue, Cnt
<1> QED BY <1>1, <1>2, <1>3

LEMMA AuthLeftPartsNext ==
  ASSUME AuthTypeOK'
  PROVE  AuthPaeLeft' \in 0 .. 19 /\ AuthBeLeft' \in 0 .. 4 /\ AuthDue' \in 0 .. 75
<1>1. AuthPaeLeft' \in 0 .. 19
  BY DEF AuthTypeOK, AuthPaeLeft
<1>2. AuthBeLeft' \in 0 .. 4
  BY DEF AuthTypeOK, AuthBeLeft
<1>3. AuthDue' \in 0 .. 75
  BY DEF AuthDue, Cnt
<1> QED BY <1>1, <1>2, <1>3

\* The rounds done, those to come, and the one that a change already made costs.
AuthTotal == aRound + AuthLeft + Cnt(ach)

\* What each part gains or loses is at most nothing in all.
LEMMA AuthTotalFalls ==
  ASSUME AuthTypeOK, AuthTypeOK', NEW i \in Int, NEW j \in Int, NEW k \in Int, NEW c \in Int,
         AuthFrontLeft' <= AuthFrontLeft + i, AuthBeLeft' <= AuthBeLeft + j, AuthDue' <= AuthDue + k,
         aRound' = aRound, Cnt(ach') <= Cnt(ach) + c, i + j + k + c <= 0
  PROVE  AuthTotal' <= AuthTotal
<1>1. aRound \in Nat /\ Cnt(ach) \in Nat /\ Cnt(ach') \in Nat
  BY DEF AuthTypeOK, Cnt
<1>2. /\ AuthFrontLeft \in Nat /\ AuthBeLeft \in Nat /\ AuthDue \in Nat
      /\ AuthFrontLeft' \in Nat /\ AuthBeLeft' \in Nat /\ AuthDue' \in Nat
  BY AuthLeftParts, AuthLeftPartsNext DEF AuthFrontLeft, Cnt
<1> QED BY <1>1, <1>2 DEF AuthTotal, AuthLeft

LEMMA AuthTotalUp ==
  ASSUME AuthTypeOK, AuthTypeOK', AUp, AUp',
         NEW i \in Int, NEW j \in Int, NEW k \in Int, NEW c \in Int,
         AuthPaeLeft' <= AuthPaeLeft + i, AuthBeLeft' <= AuthBeLeft + j, AuthDue' <= AuthDue + k,
         aRound' = aRound, Cnt(ach') <= Cnt(ach) + c, i + j + k + c <= 0
  PROVE  AuthTotal' <= AuthTotal
BY AuthTotalFalls DEF AuthFrontLeft

LEMMA AuthPaeLoop ==
  ASSUME ReAuthMax >= 1, AuthInv, AuthInv', AuthPae
  PROVE  AuthTotal' <= AuthTotal
<1>t. AuthTypeOK /\ AuthTypeOK' /\ ReAuthMax \in Nat /\ reAuthCount \in Nat /\ ach \in BOOLEAN
  BY EapolAuthAssumption DEF AuthInv, AuthTypeOK
<1>c. Cnt(ach') <= Cnt(ach) + 1
  BY <1>t DEF AuthTypeOK, Cnt
<1>1. CASE AuthInitialize
  <2>1. ~AUp /\ ~AUp'
    BY <1>1, <1>t, AuthPaeFrom DEF AuthInitialize, AuthPaeEnter, AUp
  <2>2. AuthBeLeft' = AuthBeLeft
    BY <1>1 DEF AuthInitialize, AuthPaeEnter, AuthBeLeft
  <2>3. AuthDue' = AuthDue
    BY <1>1 DEF AuthInitialize, AuthPaeEnter, AuthDue, Cnt
  <2>4. AuthBeLeft \in Nat /\ AuthDue \in Nat /\ aRound \in Nat
    BY <1>t, AuthLeftParts DEF AuthTypeOK
  <2>5. /\ AuthLeft = Cnt(aPae # "INITIALIZE") + Cnt(aEap # "DISABLED") + AuthBeLeft + AuthDue
        /\ AuthLeft' = 0 + Cnt(aEap # "DISABLED") + AuthBeLeft + AuthDue
    BY <1>1, <2>1, <2>2, <2>3 DEF AuthLeft, AuthFrontLeft, AuthInitialize, AuthPaeEnter, Cnt
  <2>6. aRound' = aRound /\ ach' = (ach \/ aPae # "INITIALIZE")
    BY <1>1 DEF AuthInitialize, AuthPaeEnter
  <2> QED BY <1>t, <2>4, <2>5, <2>6 DEF AuthTotal, Cnt
<1>2. CASE AuthDisconnected
  <2>1. \/ aPae \in {"INITIALIZE", "ABORTING"}
        \/ aPae = "CONNECTING" /\ ("eapolLogoff" \in af \/ reAuthCount > ReAuthMax)
        \/ aPae = "AUTHENTICATED" /\ ("portValid" \notin af \/ "eapolLogoff" \in af)
    BY <1>2, <1>t DEF AuthDisconnected, AuthPaeEnter, AuthPaeNext, AuthTypeOK
  <2>2. AuthBeLeft' <= AuthBeLeft + 0
    BY <1>2, <1>t DEF AuthDisconnected, AuthPaeEnter, AuthBeLeft, AuthTypeOK
  <2>3. AuthDue' <= AuthDue + 0
    BY <1>2, <1>t DEF AuthDisconnected, AuthPaeEnter, AuthDue, Cnt
  <2>4. AuthPaeLeft' <= AuthPaeLeft + (-1)
    BY <1>2, <1>t, <2>1 DEF AuthDisconnected, AuthPaeEnter, AuthPaeLeft, AuthClear, AuthFinished
  <2>5. AUp /\ AUp' /\ aRound' = aRound
    BY <1>2, <1>t, AuthPaeFrom DEF AuthDisconnected, AuthPaeEnter, AUp
  <2>6. (-1) + 0 + 0 + 1 <= 0
    OBVIOUS
  <2> QED BY <1>t, <1>c, <2>2, <2>3, <2>4, <2>5, <2>6, AuthTotalUp
<1>3. CASE AuthRestart
  <2>1. \/ aPae \in {"DISCONNECTED", "ABORTING"}
        \/ aPae = "HELD" /\ "quietWhile" \notin aTmr
        \/ aPae = "AUTHENTICATED" /\ ("eapolStart" \in af \/ "reAuthenticate" \in af)
    BY <1>3, <1>t DEF AuthRestart, AuthPaeEnter, AuthPaeNext, AuthTypeOK
  <2>2. AuthBeLeft' <= AuthBeLeft + 0
    BY <1>3, <1>t DEF AuthRestart, AuthPaeEnter, AuthBeLeft, AuthTypeOK
  <2>3. AuthDue' <= AuthDue + 0
    BY <1>3, <1>t DEF AuthRestart, AuthPaeEnter, AuthDue, Cnt
  <2>4. AuthPaeLeft' <= AuthPaeLeft + (-1)
    BY <1>3, <1>t, <2>1 DEF AuthRestart, AuthPaeEnter, AuthPaeLeft, AuthClear, AuthFinished
  <2>5. AUp /\ AUp' /\ aRound' = aRound
    BY <1>3, <1>t, AuthPaeFrom DEF AuthRestart, AuthPaeEnter, AUp
  <2>6. (-1) + 0 + 0 + 1 <= 0
    OBVIOUS
  <2> QED BY <1>t, <1>c, <2>2, <2>3, <2>4, <2>5, <2>6, AuthTotalUp
<1>4. CASE AuthConnecting
  <2>1. aPae = "RESTART" /\ "eapRestart" \notin af
    BY <1>4, <1>t DEF AuthConnecting, AuthPaeEnter, AuthPaeNext, AuthTypeOK
  <2>2. AuthBeLeft' <= AuthBeLeft + 0
    BY <1>4, <1>t DEF AuthConnecting, AuthPaeEnter, AuthBeLeft, AuthTypeOK
  <2>3. AuthDue' <= AuthDue + 0
    BY <1>4, <1>t DEF AuthConnecting, AuthPaeEnter, AuthDue, Cnt
  <2>4. AuthPaeLeft' <= AuthPaeLeft + (-1)
    BY <1>4, <1>t, <2>1 DEF AuthConnecting, AuthPaeEnter, AuthPaeLeft, AuthClear, AuthFinished
  <2>5. AUp /\ AUp' /\ aRound' = aRound
    BY <1>4, <1>t, AuthPaeFrom DEF AuthConnecting, AuthPaeEnter, AUp
  <2>6. (-1) + 0 + 0 + 1 <= 0
    OBVIOUS
  <2> QED BY <1>t, <1>c, <2>2, <2>3, <2>4, <2>5, <2>6, AuthTotalUp
<1>5. CASE AuthHeld
  <2>1. aPae = "AUTHENTICATING" /\ "authFail" \in af
    BY <1>5, <1>t DEF AuthHeld, AuthPaeEnter, AuthPaeNext, AuthTypeOK
  <2>2. AuthBeLeft' <= AuthBeLeft + 0
    BY <1>5, <1>t DEF AuthHeld, AuthPaeEnter, AuthBeLeft, AuthTypeOK
  <2>3. AuthDue' <= AuthDue + 0
    BY <1>5, <1>t DEF AuthHeld, AuthPaeEnter, AuthDue, Cnt
  <2>4. AuthPaeLeft' <= AuthPaeLeft + (-1)
    BY <1>5, <1>t, <2>1 DEF AuthHeld, AuthPaeEnter, AuthPaeLeft, AuthClear, AuthFinished
  <2>5. AUp /\ AUp' /\ aRound' = aRound
    BY <1>5, <1>t, AuthPaeFrom DEF AuthHeld, AuthPaeEnter, AUp
  <2>6. (-1) + 0 + 0 + 1 <= 0
    OBVIOUS
  <2> QED BY <1>t, <1>c, <2>2, <2>3, <2>4, <2>5, <2>6, AuthTotalUp
<1>6. CASE AuthAuthenticated
  <2>1. aPae = "AUTHENTICATING" /\ "authSuccess" \in af
    BY <1>6, <1>t DEF AuthAuthenticated, AuthPaeEnter, AuthPaeNext, AuthTypeOK
  <2>2. AuthBeLeft' <= AuthBeLeft + 0
    BY <1>6, <1>t DEF AuthAuthenticated, AuthPaeEnter, AuthBeLeft, AuthTypeOK
  <2>3. AuthDue' <= AuthDue + 0
    BY <1>6, <1>t DEF AuthAuthenticated, AuthPaeEnter, AuthDue, Cnt
  <2>4. AuthPaeLeft' <= AuthPaeLeft + (-1)
    BY <1>6, <1>t, <2>1 DEF AuthAuthenticated, AuthPaeEnter, AuthPaeLeft, AuthClear, AuthFinished
  <2>5. AUp /\ AUp' /\ aRound' = aRound
    BY <1>6, <1>t, AuthPaeFrom DEF AuthAuthenticated, AuthPaeEnter, AUp
  <2>6. (-1) + 0 + 0 + 1 <= 0
    OBVIOUS
  <2> QED BY <1>t, <1>c, <2>2, <2>3, <2>4, <2>5, <2>6, AuthTotalUp
<1>7. CASE AuthAuthenticating
  <2>1. aPae = "CONNECTING" /\ "eapolLogoff" \notin af /\ ~(reAuthCount > ReAuthMax)
    BY <1>7, <1>t DEF AuthAuthenticating, AuthPaeEnter, AuthPaeNext, AuthTypeOK
  <2>2. AuthBeLeft' <= AuthBeLeft + 3
    BY <1>7, <1>t DEF AuthAuthenticating, AuthPaeEnter, AuthBeLeft, AuthTypeOK
  <2>3. AuthDue' <= AuthDue + 0
    BY <1>7, <1>t DEF AuthAuthenticating, AuthPaeEnter, AuthDue, Cnt
  <2>4. AuthPaeLeft' <= AuthPaeLeft + (-4)
    BY <1>7, <1>t, <2>1 DEF AuthAuthenticating, AuthPaeEnter, AuthPaeLeft, AuthClear, AuthFinished
  <2>5. AUp /\ AUp' /\ aRound' = aRound
    BY <1>7, <1>t, AuthPaeFrom DEF AuthAuthenticating, AuthPaeEnter, AUp
  <2>6. (-4) + 3 + 0 + 1 <= 0
    OBVIOUS
  <2> QED BY <1>t, <1>c, <2>2, <2>3, <2>4, <2>5, <2>6, AuthTotalUp
<1>8. CASE AuthAborting
  <2>1. /\ aPae = "AUTHENTICATING"
        /\ "eapolStart" \in af \/ "eapolLogoff" \in af \/ "authTimeout" \in af
    BY <1>8, <1>t DEF AuthAborting, AuthPaeEnter, AuthPaeNext, AuthTypeOK
  <2>2. AuthBeLeft' <= AuthBeLeft + 0
    BY <1>8, <1>t DEF AuthAborting, AuthPaeEnter, AuthBeLeft, AuthTypeOK
  <2>3. AuthDue' <= AuthDue + 2
    BY <1>8, <1>t DEF AuthAborting, AuthPaeEnter, AuthDue, Cnt
  <2>4. AuthPaeLeft' <= AuthPaeLeft + (-3)
    BY <1>8, <1>t, <2>1 DEF AuthAborting, AuthPaeEnter, AuthPaeLeft, AuthClear, AuthFinished
  <2>5. AUp /\ AUp' /\ aRound' = aRound
    BY <1>8, <1>t, AuthPaeFrom DEF AuthAborting, AuthPaeEnter, AUp
  <2>6. (-3) + 0 + 2 + 1 <= 0
    OBVIOUS
  <2> QED BY <1>t, <1>c, <2>2, <2>3, <2>4, <2>5, <2>6, AuthTotalUp
<1> QED BY <1>1, <1>2, <1>3, <1>4, <1>5, <1>6, <1>7, <1>8 DEF AuthPae

\* BE_AUTH passes a result on to AUTH_PAE only once the server has given it.
LEMMA AuthBeFront ==
  ASSUME AuthTypeOK, AuthTypeOK', UNCHANGED <<aPae, aEap, reAuthCount>>,
         "quietWhile" \in aTmr' <=> "quietWhile" \in aTmr,
         \A g \in {"portEnabled", "portValid", "eapolStart", "eapolLogoff", "reAuthenticate",
                   "eapRestart", "eapSuccess", "eapFail", "eapTimeout"} : g \in af' <=> g \in af,
         \A g \in {"authSuccess", "authFail", "authTimeout"} :
            g \in af' => g \in af \/ AuthFinished
  PROVE  AuthFrontLeft' <= AuthFrontLeft + 0
<1>1. AUp' <=> AUp
  BY DEF AUp
<1>2. (AuthFinished' <=> AuthFinished) /\ (AuthClear' <=> AuthClear)
  BY DEF AuthFinished, AuthClear
<1>3. AuthPaeLeft' <= AuthPaeLeft
  BY <1>2 DEF AuthPaeLeft, AuthTypeOK
<1>4. AuthPaeLeft \in Nat /\ AuthPaeLeft' \in Nat
  BY AuthLeftParts, AuthLeftPartsNext
<1>5. AuthFrontLeft \in Nat
  BY <1>4 DEF AuthFrontLeft, Cnt
<1>6. AuthFrontLeft' <= AuthFrontLeft
  BY <1>1, <1>3, <1>4 DEF AuthFrontLeft, Cnt
<1> QED BY <1>5, <1>6

\* Without a result of the server, BE_AUTH can make AUTH_PAE give up once.
LEMMA AuthBeFrontAbort ==
  ASSUME AuthTypeOK, AuthTypeOK', UNCHANGED <<aPae, aEap, reAuthCount>>,
         "quietWhile" \in aTmr' <=> "quietWhile" \in aTmr,
         \A g \in {"portEnabled", "portValid", "eapolStart", "eapolLogoff", "reAuthenticate",
                   "eapRestart", "eapSuccess", "eapFail", "eapTimeout"} : g \in af' <=> g \in af
  PROVE  AuthFrontLeft' <= AuthFrontLeft + 14
<1>1. AUp' <=> AUp
  BY DEF AUp
<1>2. (AuthFinished' <=> AuthFinished) /\ (AuthClear' <=> AuthClear)
  BY DEF AuthFinished, AuthClear
<1>3. AuthPaeLeft' <= AuthPaeLeft + 14
  BY <1>2 DEF AuthPaeLeft, AuthTypeOK
<1>4. AuthPaeLeft \in Nat /\ AuthPaeLeft' \in Nat
  BY AuthLeftParts, AuthLeftPartsNext
<1> QED BY <1>1, <1>3, <1>4 DEF AuthFrontLeft, Cnt

LEMMA AuthBeLoop ==
  ASSUME AuthInv, AuthInv', AuthBe
  PROVE  AuthTotal' <= AuthTotal
<1>t. AuthTypeOK /\ AuthTypeOK' /\ ach \in BOOLEAN
  BY DEF AuthInv, AuthTypeOK
<1>c. ASSUME NEW x, AuthBeEnter(x)
      PROVE  /\ aRound' = aRound /\ UNCHANGED <<aPae, aEap, reAuthCount, aReauth>>
             /\ aBe' = x /\ AuthBeNext = x
             /\ Cnt(ach') <= Cnt(ach) + 1 /\ (x = aBe => Cnt(ach') <= Cnt(ach) + 0)
  BY <1>c, <1>t DEF AuthBeEnter, Cnt
<1>b. aBe \in {"INITIALIZE", "IDLE", "REQUEST", "RESPONSE", "SUCCESS", "FAIL", "TIMEOUT", "IGNORE"}
  BY <1>t DEF AuthTypeOK
<1>1. CASE AuthBeInitialize
  <2>1. AuthBeEnter("INITIALIZE") /\ aTmr' = aTmr
    BY <1>1 DEF AuthBeInitialize
  <2>2. /\ aRound' = aRound /\ UNCHANGED <<aPae, aEap, reAuthCount, aReauth>>
        /\ aBe' = "INITIALIZE" /\ AuthBeNext = "INITIALIZE" /\ Cnt(ach') <= Cnt(ach) + 1
    BY <1>c, <2>1
  <2>3. "authAbort" \in af
    BY <1>b, <2>2 DEF AuthBeNext
  <2>4. AuthFrontLeft' <= AuthFrontLeft + 0
    BY <1>1, <1>t, <2>1, <2>2, <2>3, AuthBeFront DEF AuthBeInitialize, AuthFinished, NoReqDone
  <2>5. AuthBeLeft' <= AuthBeLeft + 1
    BY <1>1, <1>b, <2>2, <2>3 DEF AuthBeInitialize, AuthBeLeft
  <2>6. AuthDue' <= AuthDue + (-2)
    BY <1>1, <2>1, <2>2, <2>3 DEF AuthBeInitialize, AuthDue, Cnt, NoReqDone
  <2>7. 0 + 1 + (-2) + 1 <= 0
    OBVIOUS
  <2> QED BY <1>t, <2>2, <2>4, <2>5, <2>6, <2>7, AuthTotalFalls
<1>2. CASE AuthBeResponse
  <2>1. AuthBeEnter("RESPONSE") /\ aTmr' = aTmr \cup {"aWhile"}
    BY <1>2 DEF AuthBeResponse
  <2>2. /\ aRound' = aRound /\ UNCHANGED <<aPae, aEap, reAuthCount, aReauth>>
        /\ aBe' = "RESPONSE" /\ AuthBeNext = "RESPONSE" /\ Cnt(ach') <= Cnt(ach) + 1
    BY <1>c, <2>1
  <2>3. aBe \in {"REQUEST", "IGNORE"} /\ "eapolEap" \in af
    BY <1>b, <2>2 DEF AuthBeNext
  <2>4. AuthFrontLeft' <= AuthFrontLeft + 0
    BY <1>2, <1>t, <2>1, <2>2, <2>3, AuthBeFront DEF AuthBeResponse, AuthFinished, NoReqDone
  <2>5. AuthBeLeft' <= AuthBeLeft + 2
    BY <1>2, <1>b, <2>2, <2>3 DEF AuthBeResponse, AuthBeLeft
  <2>6. AuthDue' <= AuthDue + (-3)
    BY <1>2, <2>1, <2>2, <2>3 DEF AuthBeResponse, AuthDue, Cnt, NoReqDone
  <2>7. 0 + 2 + (-3) + 1 <= 0
    OBVIOUS
  <2> QED BY <1>t, <2>2, <2>4, <2>5, <2>6, <2>7, AuthTotalFalls
<1>3. CASE AuthBeSuccess
  <2>1. AuthBeEnter("SUCCESS") /\ aTmr' = aTmr
    BY <1>3 DEF AuthBeSuccess
  <2>2. /\ aRound' = aRound /\ UNCHANGED <<aPae, aEap, reAuthCount, aReauth>>
        /\ aBe' = "SUCCESS" /\ AuthBeNext = "SUCCESS" /\ Cnt(ach') <= Cnt(ach) + 1
    BY <1>c, <2>1
  <2>3. "eapSuccess" \in af /\ (aBe = "RESPONSE" \/ (aBe = "IDLE" /\ "authStart" \in af))
    BY <1>b, <2>2 DEF AuthBeNext
  <2>4. AuthFrontLeft' <= AuthFrontLeft + 0
    BY <1>3, <1>t, <2>1, <2>2, <2>3, AuthBeFront DEF AuthBeSuccess, AuthFinished, NoReqDone
  <2>5. AuthBeLeft' <= AuthBeLeft + (-1)
    BY <1>3, <1>b, <2>2, <2>3 DEF AuthBeSuccess, AuthBeLeft
  <2>6. AuthDue' <= AuthDue + 0
    BY <1>3, <2>1, <2>2, <2>3 DEF AuthBeSuccess, AuthDue, Cnt, NoReqDone
  <2>7. 0 + (-1) + 0 + 1 <= 0
    OBVIOUS
  <2> QED BY <1>t, <2>2, <2>4, <2>5, <2>6, <2>7, AuthTotalFalls
<1>4. CASE AuthBeFail
  <2>1. AuthBeEnter("FAIL") /\ aTmr' = aTmr
    BY <1>4 DEF AuthBeFail
  <2>2. /\ aRound' = aRound /\ UNCHANGED <<aPae, aEap, reAuthCount, aReauth>>
        /\ aBe' = "FAIL" /\ AuthBeNext = "FAIL" /\ Cnt(ach') <= Cnt(ach) + 1
    BY <1>c, <2>1
  <2>3. "eapFail" \in af /\ (aBe = "RESPONSE" \/ (aBe = "IDLE" /\ "authStart" \in af))
    BY <1>b, <2>2 DEF AuthBeNext
  <2>4. AuthFrontLeft' <= AuthFrontLeft + 0
    BY <1>4, <1>t, <2>1, <2>2, <2>3, AuthBeFront DEF AuthBeFail, AuthFinished, NoReqDone
  <2>5. AuthBeLeft' <= AuthBeLeft + (-1)
    BY <1>4, <1>b, <2>2, <2>3 DEF AuthBeFail, AuthBeLeft
  <2>6. AuthDue' <= AuthDue + 0
    BY <1>4, <2>1, <2>2, <2>3 DEF AuthBeFail, AuthDue, Cnt, NoReqDone
  <2>7. 0 + (-1) + 0 + 1 <= 0
    OBVIOUS
  <2> QED BY <1>t, <2>2, <2>4, <2>5, <2>6, <2>7, AuthTotalFalls
<1>5. CASE AuthBeTimeout
  <2>1. AuthBeEnter("TIMEOUT") /\ aTmr' = aTmr
    BY <1>5 DEF AuthBeTimeout
  <2>2. /\ aRound' = aRound /\ UNCHANGED <<aPae, aEap, reAuthCount, aReauth>>
        /\ aBe' = "TIMEOUT" /\ AuthBeNext = "TIMEOUT" /\ Cnt(ach') <= Cnt(ach) + 1
    BY <1>c, <2>1
  <2>3. \/ aBe \in {"REQUEST", "IGNORE"} /\ "eapTimeout" \in af
        \/ aBe = "RESPONSE" /\ "aWhile" \notin aTmr
    BY <1>b, <2>2 DEF AuthBeNext
  <2>4. CASE aBe \in {"REQUEST", "IGNORE"} /\ "eapTimeout" \in af
    <3>1. AuthFrontLeft' <= AuthFrontLeft + 0
      BY <1>5, <1>t, <2>1, <2>2, <2>4, AuthBeFront DEF AuthBeTimeout, AuthFinished, NoReqDone
    <3>2. AuthBeLeft' <= AuthBeLeft + (-1)
      BY <1>5, <1>b, <2>2, <2>4 DEF AuthBeTimeout, AuthBeLeft
    <3>3. AuthDue' <= AuthDue + 0
      BY <1>5, <2>1, <2>2, <2>4 DEF AuthBeTimeout, AuthDue, Cnt, NoReqDone
    <3>4. 0 + (-1) + 0 + 1 <= 0
      OBVIOUS
    <3> QED BY <1>t, <2>2, <3>1, <3>2, <3>3, <3>4, AuthTotalFalls
  <2>5. CASE aBe = "RESPONSE" /\ "aWhile" \notin aTmr
    <3>1. AuthFrontLeft' <= AuthFrontLeft + 14
      BY <1>5, <1>t, <2>1, <2>2, AuthBeFrontAbort DEF AuthBeTimeout, NoReqDone
    <3>2. AuthBeLeft' <= AuthBeLeft + (-3)
      BY <2>2, <2>5 DEF AuthBeLeft
    <3>3. AuthDue' <= AuthDue + (-12)
      BY <1>5, <2>1, <2>2, <2>5 DEF AuthBeTimeout, AuthDue, Cnt, NoReqDone
    <3>4. 14 + (-3) + (-12) + 1 <= 0
      OBVIOUS
    <3> QED BY <1>t, <2>2, <3>1, <3>2, <3>3, <3>4, AuthTotalFalls
  <2> QED BY <2>3, <2>4, <2>5
<1>6. CASE AuthBeIdle
  <2>1. AuthBeEnter("IDLE") /\ aTmr' = aTmr
    BY <1>6 DEF AuthBeIdle
  <2>2. /\ aRound' = aRound /\ UNCHANGED <<aPae, aEap, reAuthCount, aReauth>>
        /\ aBe' = "IDLE" /\ AuthBeNext = "IDLE" /\ Cnt(ach') <= Cnt(ach) + 1
    BY <1>c, <2>1
  <2>3. aBe \in {"INITIALIZE", "SUCCESS", "FAIL", "TIMEOUT"}
    BY <1>b, <2>2 DEF AuthBeNext
  <2>4. AuthFrontLeft' <= AuthFrontLeft + 0
    BY <1>6, <1>t, <2>1, <2>2, <2>3, AuthBeFront DEF AuthBeIdle, AuthFinished, NoReqDone
  <2>5. AuthBeLeft' <= AuthBeLeft + (-1)
    BY <1>6, <1>b, <2>2, <2>3 DEF AuthBeIdle, AuthBeLeft
  <2>6. AuthDue' <= AuthDue + 0
    BY <1>6, <2>1, <2>2, <2>3 DEF AuthBeIdle, AuthDue, Cnt, NoReqDone
  <2>7. 0 + (-1) + 0 + 1 <= 0
    OBVIOUS
  <2> QED BY <1>t, <2>2, <2>4, <2>5, <2>6, <2>7, AuthTotalFalls
<1>7. CASE AuthBeIgnore
  <2>1. AuthBeEnter("IGNORE") /\ aTmr' = aTmr
    BY <1>7 DEF AuthBeIgnore
  <2>2. /\ aRound' = aRound /\ UNCHANGED <<aPae, aEap, reAuthCount, aReauth>>
        /\ aBe' = "IGNORE" /\ AuthBeNext = "IGNORE" /\ Cnt(ach') <= Cnt(ach) + 1
    BY <1>c, <2>1
  <2>3. aBe = "RESPONSE"
    BY <1>b, <2>2 DEF AuthBeNext
  <2>4. AuthFrontLeft' <= AuthFrontLeft + 0
    BY <1>7, <1>t, <2>1, <2>2, <2>3, AuthBeFront DEF AuthBeIgnore, AuthFinished, NoReqDone
  <2>5. AuthBeLeft' <= AuthBeLeft + (-1)
    BY <1>7, <1>b, <2>2, <2>3 DEF AuthBeIgnore, AuthBeLeft
  <2>6. AuthDue' <= AuthDue + 0
    BY <1>7, <2>1, <2>2, <2>3 DEF AuthBeIgnore, AuthDue, Cnt, NoReqDone
  <2>7. 0 + (-1) + 0 + 1 <= 0
    OBVIOUS
  <2> QED BY <1>t, <2>2, <2>4, <2>5, <2>6, <2>7, AuthTotalFalls
<1>8. CASE AuthBeRequest
  <2>1. AuthBeEnter("REQUEST") /\ aTmr' = aTmr
    BY <1>8 DEF AuthBeRequest
  <2>2. /\ aRound' = aRound /\ UNCHANGED <<aPae, aEap, reAuthCount, aReauth>>
        /\ aBe' = "REQUEST" /\ AuthBeNext = "REQUEST" /\ Cnt(ach') <= Cnt(ach) + 1
        /\ aBe = "REQUEST" => Cnt(ach') <= Cnt(ach) + 0
    BY <1>c, <2>1
  <2>3. aBe \in {"REQUEST", "IGNORE", "RESPONSE"} \/ (aBe = "IDLE" /\ "authStart" \in af)
    BY <1>b, <2>2 DEF AuthBeNext
  <2>4. AuthFrontLeft' <= AuthFrontLeft + 0
    BY <1>8, <1>t, <2>1, <2>2, <2>3, AuthBeFront DEF AuthBeRequest, AuthFinished, NoReqDone
  <2>5. AuthDue' <= AuthDue + 0
    BY <1>8, <2>1, <2>2, <2>3 DEF AuthBeRequest, AuthDue, Cnt, NoReqDone
  <2>6. CASE aBe = "REQUEST"
    <3>1. AuthBeLeft' <= AuthBeLeft + 0
      BY <2>2, <2>6 DEF AuthBeLeft
    <3>2. 0 + 0 + 0 + 0 <= 0
      OBVIOUS
    <3> QED BY <1>t, <2>2, <2>4, <2>5, <2>6, <3>1, <3>2, AuthTotalFalls
  <2>7. CASE aBe # "REQUEST"
    <3>1. AuthBeLeft' <= AuthBeLeft + (-1)
      BY <2>2, <2>3, <2>7 DEF AuthBeLeft
    <3>2. 0 + (-1) + 0 + 1 <= 0
      OBVIOUS
    <3> QED BY <1>t, <2>2, <2>4, <2>5, <3>1, <3>2, AuthTotalFalls
  <2> QED BY <2>6, <2>7
<1> QED BY <1>1, <1>2, <1>3, <1>4, <1>5, <1>6, <1>7, <1>8 DEF AuthBe

\* A round ends.
LEMMA AuthTotalRound ==
  ASSUME AuthTypeOK, AuthTypeOK', NEW i \in Int, NEW k \in Int, NEW r \in Int,
         AuthFrontLeft' <= AuthFrontLeft + i, AuthBeLeft' = AuthBeLeft, AuthDue' <= AuthDue + k,
         aRound' = aRound + r, Cnt(ach') = 0, i + k + r <= Cnt(ach)
  PROVE  AuthTotal' <= AuthTotal
<1>1. aRound \in Nat /\ Cnt(ach) \in Nat
  BY DEF AuthTypeOK, Cnt
<1>2. /\ AuthFrontLeft \in Nat /\ AuthBeLeft \in Nat /\ AuthDue \in Nat
      /\ AuthFrontLeft' \in Nat /\ AuthBeLeft' \in Nat /\ AuthDue' \in Nat
  BY AuthLeftParts, AuthLeftPartsNext DEF AuthFrontLeft, Cnt
<1> QED BY <1>1, <1>2 DEF AuthTotal, AuthLeft

LEMMA AuthReauthLoop ==
  ASSUME AuthInv, AuthInv', AuthReauthTimer
  PROVE  AuthTotal' <= AuthTotal
<1>t. AuthTypeOK /\ AuthTypeOK' /\ ach \in BOOLEAN /\ aReauth \in {"INITIALIZE", "REAUTHENTICATE"}
  BY DEF AuthInv, AuthTypeOK
<1>n. ReauthNext \in {"stay", "INITIALIZE", "REAUTHENTICATE"}
  BY DEF ReauthNext
<1>s. /\ UNCHANGED <<aPae, aBe, aEap, reAuthCount>> /\ ach' = FALSE
      /\ aReauth' = IF ReauthNext = "stay" THEN aReauth ELSE ReauthNext
      /\ aTmr' = IF ReauthNext = "INITIALIZE" THEN aTmr \cup {"reAuthWhen"} ELSE aTmr
      /\ af' = IF ReauthNext = "REAUTHENTICATE" THEN af \cup {"reAuthenticate"} ELSE af
      /\ ach = TRUE \/ ReauthNext # "stay"
      /\ aRound' = IF ach \/ ReauthNext \notin {"stay", aReauth} THEN aRound + 1 ELSE aRound
  BY <1>t DEF AuthReauthTimer, ReauthTimers
<1>b. AuthBeLeft' = AuthBeLeft
  BY <1>s DEF AuthBeLeft
<1>r. aRound \in Nat
  BY <1>t DEF AuthTypeOK
<1>e. Cnt(ach') = 0
  BY <1>s DEF Cnt
<1>f. ReauthNext # "REAUTHENTICATE" => AuthFrontLeft' <= AuthFrontLeft + 0
  <2>1. ASSUME ReauthNext # "REAUTHENTICATE" PROVE AuthFrontLeft' = AuthFrontLeft
    <3>1. UNCHANGED <<aPae, aEap, reAuthCount, af>>
      BY <1>s, <2>1
    <3>2. "quietWhile" \in aTmr' <=> "quietWhile" \in aTmr
      BY <1>s
    <3>3. AuthPaeLeft' = AuthPaeLeft
      BY <3>1, <3>2 DEF AuthPaeLeft, AuthFinished, AuthClear
    <3> QED BY <3>1, <3>3 DEF AuthFrontLeft, AUp, Cnt
  <2>2. AuthFrontLeft \in Nat
    BY <1>t, AuthLeftParts DEF AuthFrontLeft, Cnt
  <2> QED BY <2>1, <2>2
<1>1. CASE ReauthNext = "stay"
  <2>1. AuthDue' <= AuthDue + 0
    BY <1>1, <1>s DEF AuthDue, Cnt
  <2>2. aRound' = aRound + 1 /\ AuthFrontLeft' <= AuthFrontLeft + 0
    BY <1>1, <1>s, <1>f
  <2>3. 0 + 0 + 1 <= Cnt(ach)
    BY <1>1, <1>s DEF Cnt
  <2> QED BY <1>t, <1>e, <1>b, <2>1, <2>2, <2>3, AuthTotalRound
<1>2. CASE ReauthNext = "INITIALIZE" /\ aReauth = "INITIALIZE"
  <2>1. AuthDue' <= AuthDue + 0
    BY <1>2, <1>s DEF AuthDue, Cnt
  <2>2. aRound' = aRound + Cnt(ach) /\ AuthFrontLeft' <= AuthFrontLeft + 0
    BY <1>2, <1>s, <1>r, <1>t, <1>f DEF Cnt
  <2>3. 0 + 0 + Cnt(ach) <= Cnt(ach) /\ Cnt(ach) \in Int
    BY DEF Cnt
  <2> QED BY <1>t, <1>e, <1>b, <2>1, <2>2, <2>3, AuthTotalRound
<1>3. CASE ReauthNext = "INITIALIZE" /\ aReauth = "REAUTHENTICATE"
  <2>1. AuthDue' <= AuthDue + (-1)
    BY <1>3, <1>s DEF AuthDue, Cnt
  <2>2. aRound' = aRound + 1 /\ AuthFrontLeft' <= AuthFrontLeft + 0
    BY <1>3, <1>s, <1>f
  <2>3. 0 + (-1) + 1 <= Cnt(ach)
    BY DEF Cnt
  <2> QED BY <1>t, <1>e, <1>b, <2>1, <2>2, <2>3, AuthTotalRound
<1>4. CASE ReauthNext = "REAUTHENTICATE"
  <2>1. "reAuthWhen" \notin aTmr /\ aReauth = "INITIALIZE"
    BY <1>4, <1>t DEF ReauthNext
  <2>2. AuthDue' <= AuthDue + (-12)
    BY <1>4, <1>s, <2>1 DEF AuthDue, Cnt
  <2>3. AuthPaeLeft' <= AuthPaeLeft + 11
    BY <1>4, <1>s, <1>t DEF AuthPaeLeft, AuthFinished, AuthClear, AuthTypeOK
  <2>4. AuthFrontLeft' <= AuthFrontLeft + 11
    BY <1>4, <1>s, <2>3 DEF AuthFrontLeft, AUp, Cnt
  <2>5. aRound' = aRound + 1
    BY <1>4, <1>s, <2>1
  <2>6. 11 + (-12) + 1 <= Cnt(ach)
    BY DEF Cnt
  <2> QED BY <1>t, <1>e, <1>b, <2>2, <2>4, <2>5, <2>6, AuthTotalRound
<1> QED BY <1>t, <1>n, <1>1, <1>2, <1>3, <1>4

\* A pass of the EAP server that has something to work on, an expired timer or a
\* response: what it had due pays for the most that its result can set off.
LEMMA SrvPassLoop ==
  ASSUME AuthTypeOK, AuthTypeOK', AUp, NEW x, SrvPass(x),
         AuthDue' <= AuthDue + (-15),
         \A g \in {"portEnabled", "portValid", "eapolStart", "eapolLogoff", "reAuthenticate",
                   "eapRestart", "authSuccess", "authFail", "authTimeout", "authStart"} :
            g \in af' <=> g \in af,
         "quietWhile" \in aTmr' <=> "quietWhile" \in aTmr
  PROVE  AuthTotal' <= AuthTotal
<1>1. /\ UNCHANGED <<aPae, aBe, reAuthCount, aRound>> /\ ach' = TRUE
      /\ ach \in BOOLEAN
  BY DEF SrvPass, AuthTypeOK
<1>2. AUp'
  BY DEF AUp
<1>3. AuthClear' <=> AuthClear
  BY <1>1 DEF AuthClear
<1>4. AuthPaeLeft' <= AuthPaeLeft + 14
  BY <1>1, <1>3 DEF AuthPaeLeft, AuthTypeOK
<1>5. AuthBeLeft' <= AuthBeLeft + 0
  BY <1>1 DEF AuthBeLeft, AuthTypeOK
<1>6. aRound' = aRound /\ Cnt(ach') <= Cnt(ach) + 1
  BY <1>1 DEF Cnt
<1>7. 14 + 0 + (-15) + 1 <= 0
  OBVIOUS
<1> QED BY <1>2, <1>4, <1>5, <1>6, <1>7, AuthTotalUp

LEMMA AuthEapLoop ==
  ASSUME AuthInv, AuthInv', NEW F, AtAuthEap, AuthEap(F)
  PROVE  IF apc' = "idle" THEN aRound' = 0 ELSE AuthTotal' <= AuthTotal
<1>t. AuthTypeOK /\ AuthTypeOK' /\ AuthFlow /\ AuthRestarts /\ ach \in BOOLEAN
  BY DEF AuthInv, AuthTypeOK
<1>u. AuthTypeOK /\ AuthTypeOK'
  BY <1>t
<1>1. ASSUME NEW id \in RandIds, AuthEapInitialize(id) PROVE AuthTotal' <= AuthTotal
  <2>1. AUp /\ SrvPass("IDLE") /\ ("eapRestart" \in af \/ aEap = "DISABLED")
    BY <1>1 DEF AuthEapInitialize, AUp
  <2>2. aPae = "RESTART" /\ "eapRestart" \in af
    BY <1>t, <2>1, AtAuthEapFacts DEF AuthRestarts
  <2>3. /\ af' = (af \ {"eapSuccess", "eapFail", "eapTimeout", "eapRestart", "eapResp"}) \cup {"eapReq"}
        /\ aTmr' = aTmr \cup {"retransWhile"}
    BY <1>1 DEF AuthEapInitialize, SendRequest
  <2>4. UNCHANGED <<aPae, aBe, aReauth, reAuthCount, aRound>> /\ aEap' = "IDLE" /\ ach' = TRUE
    BY <2>1 DEF SrvPass
  <2>5. AUp' /\ AuthPaeLeft' <= AuthPaeLeft + (-1)
    BY <2>1, <2>2, <2>3, <2>4 DEF AUp, AuthPaeLeft, AuthFinished, AuthClear
  <2>6. AuthBeLeft' <= AuthBeLeft + 0
    BY <1>t, <2>3, <2>4 DEF AuthBeLeft, AuthTypeOK
  <2>7. AuthDue' <= AuthDue + 0
    BY <2>3, <2>4 DEF AuthDue, Cnt
  <2>8. aRound' = aRound /\ Cnt(ach') <= Cnt(ach) + 1
    BY <1>t, <2>4 DEF Cnt
  <2>9. (-1) + 0 + 0 + 1 <= 0
    OBVIOUS
  <2> QED BY <1>t, <2>1, <2>5, <2>6, <2>7, <2>8, <2>9, AuthTotalUp
<1>2. ASSUME AuthEapDisabled PROVE AuthTotal' <= AuthTotal
  <2>1. ~AUp /\ aEap # "DISABLED" /\ SrvPass("DISABLED") /\ UNCHANGED <<af, aTmr>>
    BY <1>2 DEF AuthEapDisabled, AUp
  <2>2. UNCHANGED <<aPae, aBe, aReauth, aRound>> /\ aEap' = "DISABLED" /\ ach' = TRUE
    BY <2>1 DEF SrvPass
  <2>3. AuthFrontLeft' <= AuthFrontLeft + (-1)
    BY <2>1, <2>2 DEF AuthFrontLeft, AUp, Cnt
  <2>4. AuthBeLeft' <= AuthBeLeft + 0
    BY <1>t, <2>1, <2>2 DEF AuthBeLeft, AuthTypeOK
  <2>5. AuthDue' <= AuthDue + 0
    BY <2>1, <2>2 DEF AuthDue, Cnt
  <2>6. aRound' = aRound /\ Cnt(ach') <= Cnt(ach) + 1
    BY <1>t, <2>2 DEF Cnt
  <2>7. (-1) + 0 + 0 + 1 <= 0
    OBVIOUS
  <2> QED BY <1>u, <2>3, <2>4, <2>5, <2>6, <2>7, AuthTotalFalls
<1>3. ASSUME AuthEapRetransmit PROVE AuthTotal' <= AuthTotal
  <2>1. AUp /\ aEap = "IDLE" /\ "retransWhile" \notin aTmr
    BY <1>3 DEF AuthEapRetransmit, SrvIdle, AUp
  <2>2. \/ /\ SrvPass("IDLE") /\ af' = af \cup {"eapReq"} /\ aTmr' = aTmr \cup {"retransWhile"}
        \/ SrvPass("TIMEOUT_FAILURE") /\ af' = af \cup {"eapTimeout"} /\ aTmr' = aTmr
    BY <1>3 DEF AuthEapRetransmit
  <2>3. AuthDue' <= AuthDue + (-15)
    BY <2>1, <2>2 DEF SrvPass, AuthDue, Cnt
  <2>4. \E x : SrvPass(x)
    BY <2>2
  <2>5. /\ \A g \in {"portEnabled", "portValid", "eapolStart", "eapolLogoff", "reAuthenticate",
                     "eapRestart", "authSuccess", "authFail", "authTimeout", "authStart"} :
              g \in af' <=> g \in af
        /\ "quietWhile" \in aTmr' <=> "quietWhile" \in aTmr
    BY <2>2
  <2> QED BY <1>u, <2>1, <2>3, <2>4, <2>5, SrvPassLoop
<1>r. ASSUME SrvReceived, NEW x \in {"IDLE", "SUCCESS", "FAILURE"}, SrvPass(x),
             NEW g \in {"eapReq", "eapNoReq", "eapSuccess", "eapFail"},
             \/ /\ x = "IDLE" /\ af' = (af \ {"eapResp"}) \cup {g}
                /\ aTmr' = aTmr \cup {"retransWhile"}
             \/ x # "IDLE" /\ af' = af \cup {g} /\ aTmr' = aTmr
      PROVE  AuthTotal' <= AuthTotal
  <2>1. AUp /\ aEap = "IDLE" /\ "eapResp" \in af
    BY <1>r DEF SrvReceived, SrvIdle, AUp
  <2>2. AuthDue' <= AuthDue + (-15)
    BY <1>r, <2>1 DEF SrvPass, AuthDue, Cnt
  <2> QED BY <1>t, <1>r, <2>1, <2>2, SrvPassLoop
<1>4. ASSUME AuthEapDiscard PROVE AuthTotal' <= AuthTotal
  <2>1. /\ SrvReceived /\ SrvPass("IDLE")
        /\ af' = (af \ {"eapResp"}) \cup {"eapNoReq"} /\ aTmr' = aTmr \cup {"retransWhile"}
    BY <1>4 DEF AuthEapDiscard, SrvDiscard
  <2> QED BY <1>r, <2>1
<1>5. ASSUME NEW v \in Verdicts, NEW n \in F, AuthEapIdentity(v, n) PROVE AuthTotal' <= AuthTotal
  BY <1>5, <1>r DEF AuthEapIdentity, SrvFinish, SendRequest
<1>6. ASSUME NEW v \in Verdicts, AuthEapMethod(v) PROVE AuthTotal' <= AuthTotal
  BY <1>6, <1>r DEF AuthEapMethod, SrvFinish
<1>7. CASE AuthEapStay
  <2>1. CASE ach = TRUE
    <3>1. /\ UNCHANGED <<aPae, aBe, aReauth, aEap, af, aTmr, reAuthCount>>
          /\ aRound' = aRound + 1 /\ ach' = FALSE
      BY <1>7, <2>1 DEF AuthEapStay
    <3>2. AuthFrontLeft' = AuthFrontLeft
      BY <3>1 DEF AuthFrontLeft, AuthPaeLeft, AuthFinished, AuthClear, AUp, Cnt
    <3>3. AuthBeLeft' = AuthBeLeft /\ AuthDue' = AuthDue
      BY <3>1 DEF AuthBeLeft, AuthDue, Cnt
    <3>4. AuthFrontLeft \in Nat /\ AuthDue \in Nat
      BY <1>t, AuthLeftParts DEF AuthFrontLeft, Cnt
    <3>5. AuthFrontLeft' <= AuthFrontLeft + 0 /\ AuthDue' <= AuthDue + 0
      BY <3>2, <3>3, <3>4
    <3>6. 0 + 0 + 1 <= Cnt(ach)
      BY <2>1 DEF Cnt
    <3>7. AuthTotal' <= AuthTotal
      BY <1>u, <3>1, <3>3, <3>5, <3>6, AuthTotalRound DEF Cnt
    <3> QED BY <1>7, <2>1, <3>7 DEF AuthEapStay
  <2>2. CASE ach = FALSE
    BY <1>7, <2>2 DEF AuthEapStay
  <2> QED BY <1>t, <2>1, <2>2
<1>8. AuthEapStay \/ apc' = "eap"
  BY DEF AuthEap, AuthEapInitialize, AuthEapDisabled, AuthEapRetransmit, AuthEapDiscard, SrvDiscard,
         AuthEapIdentity, AuthEapMethod, SrvFinish, SrvPass
<1> QED BY <1>1, <1>2, <1>3, <1>4, <1>5, <1>6, <1>7, <1>8 DEF AuthEap

\* The rounds done and those that may still come.
AuthLoop == IF apc = "idle" THEN aRound = 0 ELSE AuthTotal <= 99

LEMMA AuthLoopStep ==
  ASSUME ReAuthMax >= 1, AuthInv, AuthInv', NEW F, AuthRun(F), AuthLoop PROVE AuthLoop'
<1>t. AuthTypeOK /\ AuthTypeOK' /\ AuthFlow
  BY DEF AuthInv
<1>n. AuthTotal \in Nat /\ AuthTotal' \in Nat
  <2>1. /\ AuthPaeLeft \in Nat /\ AuthBeLeft \in Nat /\ AuthDue \in Nat
        /\ AuthPaeLeft' \in Nat /\ AuthBeLeft' \in Nat /\ AuthDue' \in Nat
    BY <1>t, AuthLeftParts, AuthLeftPartsNext
  <2>2. AuthFrontLeft \in Nat /\ AuthFrontLeft' \in Nat
    BY <2>1 DEF AuthFrontLeft, Cnt
  <2>3. aRound \in Nat /\ aRound' \in Nat
    BY <1>t DEF AuthTypeOK
  <2>4. Cnt(ach) \in Nat /\ Cnt(ach') \in Nat
    BY DEF Cnt
  <2> QED BY <2>1, <2>2, <2>3, <2>4 DEF AuthTotal, AuthLeft
<1>1. CASE apc = "pae" /\ AuthPae
  <2>1. apc # "idle" /\ apc' = "be"
    BY <1>1 DEF AuthPae, AuthInitialize, AuthDisconnected, AuthRestart, AuthConnecting, AuthHeld,
                AuthAuthenticated, AuthAuthenticating, AuthAborting, AuthPaeEnter
  <2> QED BY <1>1, <1>n, <2>1, AuthPaeLoop DEF AuthLoop
<1>2. CASE AtAuthBe /\ AuthBe
  <2>1. apc # "idle" /\ apc' = "reauth"
    BY <1>2 DEF AtAuthBe, AuthBe, AuthBeInitialize, AuthBeRequest, AuthBeResponse, AuthBeSuccess,
                AuthBeFail, AuthBeTimeout, AuthBeIdle, AuthBeIgnore, AuthBeEnter
  <2> QED BY <1>2, <1>n, <2>1, AuthBeLoop DEF AuthLoop
<1>3. CASE AuthReauthTimer
  <2>1. apc # "idle" /\ apc' # "idle"
    BY <1>3 DEF AuthReauthTimer, AtReauth, AtAuthBe
  <2> QED BY <1>3, <1>n, <2>1, AuthReauthLoop DEF AuthLoop
<1>4. CASE AtAuthEap /\ AuthEap(F)
  <2>1. apc # "idle"
    BY <1>4, <1>t, AtAuthEapFacts
  <2> QED BY <1>4, <1>n, <2>1, AuthEapLoop DEF AuthLoop
<1> QED BY <1>1, <1>2, <1>3, <1>4 DEF AuthRun

\* A run starts with its first round.
LEMMA AuthLoopStart ==
  ASSUME AuthTypeOK', apc' = "pae", ach' = FALSE, aRound' = 1 PROVE AuthLoop'
<1>1. AuthPaeLeft' \in 0 .. 19 /\ AuthBeLeft' \in 0 .. 4 /\ AuthDue' \in 0 .. 75
  BY AuthLeftPartsNext
<1>a. \A a \in 0 .. 19, b \in 0 .. 4, c \in 0 .. 75 : 1 + (a + b + c) + 0 <= 99
  OBVIOUS
<1>2. AuthFrontLeft' \in 0 .. 19
  BY <1>1 DEF AuthFrontLeft, Cnt
<1> QED BY <1>1, <1>2, <1>a DEF AuthLoop, AuthTotal, AuthLeft, Cnt

------------------------------------------------------------------------------
(* Both loops end, in every behaviour of the whole.                            *)

LEMMA LoopsInit == Init => SuppLoop /\ AuthLoop
BY DEF Init, SuppInit, AuthInit, SuppLoop, AuthLoop

LEMMA SuppLoopNext ==
  ASSUME Inv, Inv', SuppLoop, [Next]_vars PROVE SuppLoop'
<1>t. SuppInv /\ SuppInv' /\ SuppTypeOK'
  BY DEF Inv, SuppInv
<1>1. UNCHANGED supp \/ SStep \/ SuppRun
  <2>1. CASE UNCHANGED vars
    BY <2>1 DEF vars
  <2>2. CASE \/ Associate \/ Disassociate \/ Deauthenticate \/ UserLogoff \/ SuppHandshakeDone
    BY <2>2
    DEF Associate, Disassociate, Deauthenticate, UserLogoff, SuppHandshakeDone, SuppNotify,
        Quiet
  <2>3. CASE SuppRequest \/ HandshakeStart
    BY <2>3 DEF SuppRequest, SuppRetryPending, SuppRequestReauth, HandshakeStart,
                SuppLowerLayerSuccess, Quiet
  <2>4. CASE SuppReceive \/ SuppTimer
    BY <2>4 DEF SuppReceive, SuppRxEap, SuppTimer, SuppTick
  <2>5. CASE AuthHandshakeDone \/ AuthReceive \/ Lose \/ AuthTimer \/ AuthEvent \/ AuthSteps
    BY <2>5 DEF AuthHandshakeDone, AuthReceive, Lose, AuthTimer, AuthEvent, AuthSteps
  <2>6. CASE SuppSteps
    BY <2>6 DEF SuppSteps
  <2> QED BY <2>1, <2>2, <2>3, <2>4, <2>5, <2>6 DEF Next
<1>2. CASE UNCHANGED supp
  BY <1>2 DEF supp, SuppLoop, SuppLeft, SuppPaeLeft, SuppBeLeft, SuppDue, SUp, Cnt
<1>3. CASE SStep
  BY <1>t, <1>3, SuppLoopStart
<1>4. CASE SuppRun
  BY <1>t, <1>4, SuppLoopStep
<1> QED BY <1>1, <1>2, <1>3, <1>4

LEMMA AuthLoopNext ==
  ASSUME ReAuthMax >= 1, Inv, Inv', AuthLoop, [Next]_vars PROVE AuthLoop'
<1>t. AuthInv /\ AuthInv' /\ AuthTypeOK'
  BY DEF Inv, AuthInv
<1>1. \/ UNCHANGED auth
      \/ apc = "idle" /\ UNCHANGED <<apc, aRound>>
      \/ apc' = "pae" /\ ach' = FALSE /\ aRound' = 1
      \/ AuthRun(Fresh)
  <2>1. CASE UNCHANGED vars
    BY <2>1 DEF vars
  <2>2. CASE Associate \/ Disassociate \/ Deauthenticate
    BY <2>2 DEF Associate, Disassociate, Deauthenticate, AuthNewStation, AuthPortDown, AuthNotify
  <2>3. CASE \/ UserLogoff \/ SuppHandshakeDone \/ SuppRequest \/ HandshakeStart
             \/ SuppReceive \/ Lose \/ SuppTimer \/ SuppSteps
    BY <2>3 DEF UserLogoff, SuppHandshakeDone, SuppRequest, HandshakeStart, SuppReceive, Lose,
                SuppTimer, SuppSteps
  <2>4. CASE AuthHandshakeDone \/ AuthReceive
    BY <2>4 DEF AuthHandshakeDone, AuthReceive, AuthPortValid, AuthRx, AuthNotify, Quiet
  <2>5. CASE AuthTimer \/ AuthEvent
    BY <2>5 DEF AuthTimer, AuthEvent, AuthTick, AuthStepCb, Quiet
  <2>6. CASE AuthSteps
    BY <2>6 DEF AuthSteps, RsnInitPmk, RsnReady
  <2> QED BY <2>1, <2>2, <2>3, <2>4, <2>5, <2>6 DEF Next
<1>2. CASE UNCHANGED auth
  <2>1. UNCHANGED <<apc, ach, aRound, aPae, aBe, aReauth, aEap, af, aTmr, reAuthCount>>
    BY <1>2 DEF auth
  <2>2. AuthFrontLeft' = AuthFrontLeft
    BY <2>1 DEF AuthFrontLeft, AuthPaeLeft, AuthFinished, AuthClear, AUp, Cnt
  <2>3. AuthBeLeft' = AuthBeLeft /\ AuthDue' = AuthDue
    BY <2>1 DEF AuthBeLeft, AuthDue, Cnt
  <2> QED BY <2>1, <2>2, <2>3 DEF AuthLoop, AuthTotal, AuthLeft, Cnt
<1>3. CASE apc = "idle" /\ UNCHANGED <<apc, aRound>>
  BY <1>3 DEF AuthLoop
<1>4. CASE apc' = "pae" /\ ach' = FALSE /\ aRound' = 1
  BY <1>t, <1>4, AuthLoopStart
<1>5. CASE AuthRun(Fresh)
  BY <1>t, <1>5, AuthLoopStep
<1> QED BY <1>1, <1>2, <1>3, <1>4, <1>5

\* The loop of eapol_sm_step, limited to 100 rounds, ends by itself within 37, and
\* that of eapol_sm_step_run, limited to 100 as well, within 99, whatever flags and
\* expired timers they find.  The Authenticator must allow an attempt at all: with
\* reAuthMax zero (the code has 2) AUTH_PAE would go round without end through
\* CONNECTING, which counts one attempt more than allowed, and DISCONNECTED.
THEOREM LoopsBounded ==
  ASSUME MaxLoop \in Nat, MaxLoop > 37, MaxSteps \in Nat, MaxSteps > 99, ReAuthMax >= 1
  PROVE  Spec => []LoopsEnd
<1>1. Init => SuppLoop /\ AuthLoop
  BY LoopsInit
<1>2. Inv /\ Inv' /\ SuppLoop /\ AuthLoop /\ [Next]_vars => SuppLoop' /\ AuthLoop'
  BY SuppLoopNext, AuthLoopNext
<1>3. Inv /\ SuppLoop /\ AuthLoop => LoopsEnd
  <2> SUFFICES ASSUME Inv, SuppLoop, AuthLoop PROVE LoopsEnd
    OBVIOUS
  <2>t. SuppTypeOK /\ AuthTypeOK
    BY DEF Inv, SuppInv, AuthInv
  <2>1. sRound < MaxLoop
    <3>1. sRound \in Nat /\ SuppLeft \in Nat /\ Cnt(sch) \in Nat
      BY <2>t, SuppLeftRange DEF SuppTypeOK, Cnt
    <3> QED BY <3>1 DEF SuppLoop
  <2>2. aRound < MaxSteps
    <3>1. AuthPaeLeft \in Nat /\ AuthBeLeft \in Nat /\ AuthDue \in Nat
      BY <2>t, AuthLeftParts
    <3>2. AuthFrontLeft \in Nat /\ Cnt(ach) \in Nat
      BY <3>1 DEF AuthFrontLeft, Cnt
    <3>3. aRound \in Nat
      BY <2>t DEF AuthTypeOK
    <3> QED BY <3>1, <3>2, <3>3 DEF AuthLoop, AuthTotal, AuthLeft
  <2> QED BY <2>1, <2>2 DEF LoopsEnd
<1> QED BY <1>1, <1>2, <1>3, InvHolds, PTL DEF Spec
=============================================================================
