-------------------------- MODULE HandshakeProofs --------------------------
(***************************************************************************)
(* The two ends of the 4-way handshake agree on the pairwise key, for any  *)
(* number of handshakes, retransmissions and associations, when the frames *)
(* of an association are not delivered in the next one.                    *)
(*                                                                         *)
(* The argument.  The Authenticator's frames are ordered: a higher replay  *)
(* counter never has an older ANonce, and once message 3/4 was sent for an *)
(* ANonce no message 1/4 is (OrderInv).  A Supplicant that has answered    *)
(* message 3/4 for a key therefore derives no other key from the same      *)
(* ANonce: a message 1/4 it still accepts is of a later one                *)
(* (ConfirmedInv).  The Authenticator installs a key made from its latest  *)
(* ANonce, on a message 4/4, so the Supplicant still has that key.         *)
(***************************************************************************)
EXTENDS Handshake, TLAPS

LEMMA PtkFields ==
    ASSUME NEW p \in Ptks
    PROVE  p.an \in 1..MaxAnonce /\ p.sn \in 1..MaxSnonce
BY NoncesAssumption DEF Ptks

-----------------------------------------------------------------------------
(* The invariant.                                                          *)

InSession == wpa_state \in
    {"ASSOCIATED", "4WAY_HANDSHAKE", "GROUP_HANDSHAKE", "COMPLETED"}
Negotiating ==
    wpa_ptk_state \in {"PTKSTART", "PTKCALCNEGOTIATING", "PTKINITNEGOTIATING"}
AwaitsReply == wpa_ptk_state \in {"PTKSTART", "PTKCALCNEGOTIATING"}

StaTypes ==
    /\ ptk \in Ptks \cup {NoKey} /\ tptk \in Ptks \cup {NoKey}
    /\ rx_replay_counter \in Int
    /\ snonce \in 0..MaxSnonce
    /\ installs \in [Ptks -> Nat]
    /\ drvPtk \in [{0, 1} -> Ptks \cup {NoKey}]

ApTypes ==
    /\ ANonce \in 0..MaxAnonce
    /\ rc \in Nat
    /\ PTK \in Ptks \cup {NoKey}
    /\ ap_installs \in [Ptks -> Nat]

\* The frames of the Authenticator: message 1/4 (without MIC) and 3/4.
Frame(f) ==
    /\ f.pair /\ f.keyid = -1
    /\ f.rc \in Nat
    /\ f.mic \in Ptks \cup {NoKey}
    /\ f.nonce \in 1..MaxAnonce
    /\ f.mic # NoKey => f.install /\ f.keys = Kdes /\ f.mic.an = f.nonce
FrameInv == \A f \in toSta : Frame(f) /\ f.nonce <= ANonce
CounterInv == wpa_ptk_state # "NONE" => \A f \in toSta : f.rc <= rc
Ordered(S) ==
    \A f, g \in S :
        /\ f.rc <= g.rc => f.nonce <= g.nonce
        /\ f.mic = NoKey /\ g.mic # NoKey /\ f.nonce = g.nonce
              => f.rc < g.rc
OrderInv == Ordered(toSta)

\* The Authenticator that waits for message 2/4 has no PTK and has not sent
\* message 3/4 for its ANonce.
AwaitInv ==
    AwaitsReply =>
        PTK = NoKey /\ \A f \in toSta : f.mic # NoKey => f.nonce < ANonce
PrevInv ==
    wpa_ptk_state = "PTKINITNEGOTIATING" =>
        \A f \in toSta :
            f.mic = NoKey /\ f.rc \in prev_key_replay => f.nonce = ANonce
GoneInv == wpa_ptk_state = "NONE" => PTK = NoKey /\ rekey_timer = FALSE
NonceInv ==
    /\ Negotiating => ANonce > 0
    /\ PTK # NoKey => PTK.an = ANonce
    /\ \A p \in Ptks : ap_installs[p] > 0 =>
          p.an < ANonce \/ (p.an = ANonce /\ ~Negotiating)
DoneInv ==
    joined /\ wpa_ptk_state = "PTKINITDONE" =>
        /\ PTK # NoKey /\ ap_drvPtk = PTK
        /\ \E m \in toAp : m.type = "M4" /\ m.mic = PTK

\* What the Supplicant has sent answers a frame of this association.
ReplyInv ==
    \A m \in toAp : m.type = "M2" =>
        /\ m.mic \in Ptks /\ m.nonce = m.mic.sn
        /\ \E f \in toSta : f.mic = NoKey /\ f.rc = m.rc /\ f.nonce = m.mic.an
ConfirmInv ==
    \A m \in toAp : m.type = "M4" =>
        /\ m.mic \in Ptks /\ installs[m.mic] = 1
        /\ \E g \in toSta : g.mic = m.mic /\ g.rc = m.rc
SessionInv ==
    /\ InSession => joined
    /\ ~InSession => drvTx = -1
    /\ wpa_state = "ASSOCIATING" /\ joined => \A m \in toAp : m.type = "REQ"
DriverInv ==
    InSession =>
        IF ptk = NoKey THEN drvTx = -1
        ELSE /\ ptk_installed = TRUE /\ drvTx = 0 /\ drvPtk[0] = ptk
             /\ \E m \in toAp : m.type = "M4" /\ m.mic = ptk
ConfirmedInv ==
    InSession => \A m \in toAp : m.type = "M4" =>
        /\ m.rc <= rx_replay_counter
        /\ ptk # NoKey /\ (ptk = m.mic \/ m.mic.an < ptk.an)
        /\ tptk # NoKey => m.mic.an < tptk.an

\* An SNonce is drawn anew once a key made from it was accepted (as in WpaSm).
FreshInv ==
    /\ \A p \in Ptks : installs[p] > 0 \/ p = ptk =>
          \/ p.sn < snonce
          \/ p.sn = snonce /\ renew_snonce = TRUE /\ tptk = NoKey
    /\ tptk # NoKey => tptk.sn = snonce
    /\ \A p \in Ptks : installs[p] <= 1

TypeInv == StaTypes /\ ApTypes
ApInv ==
    /\ FrameInv /\ CounterInv /\ OrderInv
    /\ AwaitInv /\ PrevInv /\ GoneInv /\ NonceInv
StaInv == SessionInv /\ DriverInv /\ ConfirmedInv /\ FreshInv
LinkInv == ReplyInv /\ ConfirmInv /\ DoneInv
AgreeInv == TypeInv /\ ApInv /\ StaInv /\ LinkInv

-----------------------------------------------------------------------------
(* What a step of the Supplicant does to the state the invariant is about. *)

staSession == <<wpa_state, ptk, tptk, ptk_installed, rx_replay_counter,
                snonce, renew_snonce, drvPtk, drvTx, installs>>

\* Nothing, except that a request may be sent.
StaKeeps ==
    /\ UNCHANGED staSession /\ joined' = joined
    /\ \A m \in tx' : m.type = "REQ"

StaLeaves ==
    /\ wpa_state' = "DISCONNECTED" /\ joined' = joined
    /\ ptk' = NoKey /\ tptk' = NoKey
    /\ rx_replay_counter' \in {rx_replay_counter} \cup {f.rc : f \in toSta}
    /\ drvPtk' = [i \in {0, 1} |-> NoKey] /\ drvTx' = -1
    /\ snonce' = snonce /\ (renew_snonce = TRUE => renew_snonce' = TRUE)
    /\ installs' = installs
    /\ tx' = {}

StaStarts ==
    /\ wpa_state' = "ASSOCIATING" /\ joined' = FALSE
    /\ drvPtk' = [i \in {0, 1} |-> NoKey] /\ drvTx' = -1
    /\ UNCHANGED <<ptk, tptk, rx_replay_counter, snonce, renew_snonce,
                   installs>>
    /\ tx' = {}

StaJoins ==
    /\ wpa_state = "ASSOCIATING" /\ joined = TRUE
    /\ wpa_state' = "ASSOCIATED" /\ joined' = joined
    /\ ptk' = NoKey /\ tptk' = NoKey /\ rx_replay_counter' = -1
    /\ snonce' = snonce /\ renew_snonce' = TRUE
    /\ UNCHANGED <<drvPtk, drvTx, installs>>
    /\ tx' = {}

\* Message 2/4 is sent for message 1/4: f, received in the session or kept
\* for it.
StaReplies(f) ==
    /\ f \in toSta /\ f.mic = NoKey
    /\ wpa_state' = "4WAY_HANDSHAKE" /\ joined' = joined
    /\ \/ /\ InSession /\ f.rc > rx_replay_counter
          /\ UNCHANGED <<ptk, ptk_installed, rx_replay_counter>>
          /\ snonce' = IF renew_snonce THEN snonce + 1 ELSE snonce
       \/ /\ wpa_state = "ASSOCIATING" /\ joined = TRUE
          /\ ptk' = NoKey /\ rx_replay_counter' = -1
          /\ snonce' = snonce + 1
    /\ snonce' \in 1..MaxSnonce
    /\ renew_snonce' = FALSE
    /\ tptk' = [an |-> f.nonce, sn |-> snonce']
    /\ tx' = {Msg2of4(f, tptk')}
    /\ UNCHANGED <<drvPtk, drvTx, installs>>

\* Message 4/4 is sent for message 3/4: f, and its key is installed if it was
\* not before.
StaConfirms(f) ==
    /\ f \in toSta /\ f.mic # NoKey /\ f.mic \in {tptk, ptk}
    /\ InSession /\ f.rc > rx_replay_counter
    /\ wpa_state' = "COMPLETED" /\ joined' = joined
    /\ ptk' = f.mic
    /\ tptk' = IF f.mic = tptk THEN NoKey ELSE tptk
    /\ rx_replay_counter' = f.rc
    /\ snonce' = snonce /\ renew_snonce' = TRUE
    /\ tx' = {Msg4of4(f)}
    /\ ptk_installed' = TRUE
    /\ IF f.mic # tptk /\ ptk_installed
       THEN UNCHANGED <<drvPtk, drvTx, installs>>
       ELSE /\ drvPtk' = [drvPtk EXCEPT ![0] = f.mic] /\ drvTx' = 0
            /\ installs' = [installs EXCEPT ![f.mic] = @ + 1]

StaStep ==
    \/ StaKeeps \/ StaLeaves \/ StaStarts \/ StaJoins
    \/ \E f \in toSta : StaReplies(f) \/ StaConfirms(f)

\* Without faults only the ANonce of message 3/4 can be wrong.
LEMMA OneFails ==
    ASSUME NEW c, DOMAIN c = 1..8,
           \A i \in 1..8 : i # 3 => ~c[i][2]
    PROVE  Sta!FirstFailed(c) \in {"ok", c[3][1]}
<1> DEFINE failed == {i \in DOMAIN c : c[i][2]}
<1>1. CASE failed = {}
  BY <1>1 DEF Sta!FirstFailed
<1>2. CASE failed # {}
  <2>1. failed = {3}
    BY <1>2
  <2>2. (CHOOSE i \in failed : \A j \in failed : i <= j) = 3
    BY <2>1
  <2> QED BY <1>2, <2>2 DEF Sta!FirstFailed
<1> QED BY <1>1, <1>2

LEMMA Stop3of4None ==
    ASSUME NEW f, Frame(f), f.mic # NoKey
    PROVE  Sta!Stop3of4(f, "none") \in {"ok", "nonce"}
<1>1. Sta!ExtKeyIdOk(f) /\ ~Sta!UseExt(f)
  BY DEF Frame, Sta!ExtKeyIdOk, Sta!UseExt, StaConf
<1>2. f.keys["gtk"] # NoKey
  BY KdesAssumption DEF Frame
<1>3. "none" \notin Sta!Kinds
  BY DEF Sta!Kinds
<1> DEFINE c == <<
        <<"data",    "none" = "data">>,
        <<"keyid",   ~Sta!ExtKeyIdOk(f)>>,
        <<"nonce",   f.nonce # anonce>>,
        <<"oci",     "none" = "oci">>,
        <<"install", "none" = "ptk" /\ Sta!UseExt(f)
                        /\ ~Sta!InstalledAfter(f)>>,
        <<"send",    "none" = "send">>,
        <<"key",     /\ f.install
                     /\ \/ /\ "none" = "ptk" /\ ~Sta!UseExt(f)
                           /\ ~Sta!InstalledAfter(f)
                        \/ "none" = "tx" /\ Sta!UseExt(f)>>,
        <<"group",   \/ StaConf.proto = "RSN" /\ f.keys["gtk"] = NoKey
                     \/ /\ "none" \in Sta!Kinds
                        /\ Sta!Programs("none", f.keys["none"])>> >>
<1>4. Sta!Stop3of4(f, "none") = Sta!FirstFailed(c)
  BY Zenon DEF Sta!Stop3of4
<1>5. DOMAIN c = 1..8 /\ c[3][1] = "nonce"
  OBVIOUS
<1>6. ASSUME NEW i \in 1..8, i # 3 PROVE ~c[i][2]
  <2>1. ~c[1][2] /\ ~c[4][2] /\ ~c[6][2]
    OBVIOUS
  <2>2. ~c[2][2] /\ ~c[5][2] /\ ~c[7][2]
    BY <1>1
  <2>3. ~c[8][2]
    BY <1>2, <1>3
  <2>4. i \in {1, 2, 4, 5, 6, 7, 8}
    BY <1>6
  <2> HIDE DEF c
  <2> QED BY <2>1, <2>2, <2>3, <2>4
<1> HIDE DEF c
<1> QED
  BY <1>4, <1>5, <1>6, OneFails

LEMMA DisconnectedLeaves ==
    ASSUME Sta!Disconnected, joined' = joined PROVE StaLeaves
BY DEF Sta!Disconnected, Sta!Disconnect, Sta!NotifyDisassoc, Sta!DropSa,
       Sta!ClearDriverKeys, Sta!NoDrvPtk, Sta!nonces, StaLeaves

LEMMA ReceiveStep ==
    ASSUME FrameInv, NEW f \in toSta, Sta!RxEapol(f), joined' = joined
    PROVE  StaStep
<1>0. Frame(f)
  BY DEF FrameInv
<1> USE DEF Sta!ifVars, Sta!nonces, Sta!ptkVars, Sta!drvVars
<1>1. CASE Sta!RxEarly(f) \/ Sta!RxDrop(f)
  BY <1>1 DEF Sta!RxEarly, Sta!RxDrop, StaStep, StaKeeps, staSession
<1>2. ~Sta!RxDecryptFail(f)
  BY DEF Sta!RxDecryptFail
<1>3. CASE Sta!Rx1of4(f)
  <2>1. StaReplies(f)
    BY <1>3 DEF Sta!Rx1of4, Sta!Is1of4, Sta!Fresh, Sta!Reply2of4,
       Sta!NextSnonce, Sta!InSession, InSession, StaReplies, Sta!Msg2of4,
       Msg2of4
  <2> QED BY <2>1 DEF StaStep
<1>4. CASE Sta!Rx1of4Fail(f, "none")
  <2>1. StaLeaves
    BY <1>4 DEF Sta!Rx1of4Fail, Sta!Disconnect, Sta!NotifyDisassoc,
       Sta!DropSa, Sta!ClearDriverKeys, Sta!NoDrvPtk, StaLeaves
  <2> QED BY <2>1 DEF StaStep
<1>5. CASE Sta!Rx3of4(f, "none")
  <2>1. /\ f.mic # NoKey /\ f.mic \in {tptk, ptk}
        /\ InSession /\ f.rc > rx_replay_counter
    BY <1>5 DEF Sta!Rx3of4, Sta!Is3of4, Sta!Verified, Sta!Fresh,
       Sta!InSession, InSession
  <2>2. f.install /\ f.keys["gtk"] # NoKey
    BY <1>0, <2>1, KdesAssumption DEF Frame
  <2>3. ~Sta!UseExt(f) /\ Sta!KeyIdx(f) = 0
    BY DEF Sta!UseExt, Sta!KeyIdx, StaConf
  <2>4. Sta!InstallsPtk(f, "ok") <=> ~(f.mic # tptk /\ ptk_installed)
    BY <2>2, <2>3 DEF Sta!InstallsPtk, Sta!InstalledAfter
  <2>5. /\ wpa_state' = "COMPLETED"
        /\ ptk' = f.mic
        /\ tptk' = IF f.mic = tptk THEN NoKey ELSE tptk
        /\ rx_replay_counter' = f.rc
        /\ snonce' = snonce /\ renew_snonce' = TRUE
        /\ tx' = {Msg4of4(f)}
    BY <1>5, <2>2 DEF Sta!Rx3of4, Sta!AcceptMic, Sta!Msg4of4, Msg4of4
  <2>6. ptk_installed' = TRUE
    BY <1>5, <2>4 DEF Sta!Rx3of4, Sta!InstalledAfter
  <2>7. IF f.mic # tptk /\ ptk_installed
        THEN UNCHANGED <<drvPtk, drvTx, installs>>
        ELSE /\ drvPtk' = [drvPtk EXCEPT ![0] = f.mic] /\ drvTx' = 0
             /\ installs' = [installs EXCEPT ![f.mic] = @ + 1]
    BY <1>5, <2>2, <2>3, <2>4 DEF Sta!Rx3of4, Sta!CountInstall
  <2>8. StaConfirms(f)
    BY <2>1, <2>5, <2>6, <2>7 DEF StaConfirms
  <2> QED BY <2>8 DEF StaStep
<1>6. CASE Sta!Rx3of4Oci(f, "none") \/ Sta!Rx3of4Fail(f, "none")
  <2>1. f.mic # NoKey
    BY <1>6 DEF Sta!Rx3of4Oci, Sta!Rx3of4Fail, Sta!Is3of4, Sta!Verified
  <2>2. Sta!Stop3of4(f, "none") \in {"ok", "nonce"}
    BY <1>0, <2>1, Stop3of4None
  <2>3. Sta!Rx3of4Fail(f, "none") /\ Sta!Stop3of4(f, "none") = "nonce"
    BY <1>6, <2>2 DEF Sta!Rx3of4Oci, Sta!Rx3of4Fail
  <2>4. ~Sta!InstallsPtk(f, "nonce")
    BY DEF Sta!InstallsPtk, Sta!UseExt
  <2>5. StaLeaves
    BY <2>3, <2>4 DEF Sta!Rx3of4Fail, Sta!CountInstall, Sta!Disconnect,
       Sta!NotifyDisassoc, Sta!DropSa, Sta!ClearDriverKeys, Sta!NoDrvPtk,
       Sta!RenewAfter, StaLeaves
  <2> QED BY <2>5 DEF StaStep
<1>7. ~Sta!Rx1of2(f, "none") /\ ~Sta!Rx1of2Fail(f, "none")
  BY <1>0 DEF Frame, Sta!Rx1of2, Sta!Rx1of2Fail, Sta!Is1of2
<1> QED
  BY <1>1, <1>2, <1>3, <1>4, <1>5, <1>6, <1>7 DEF Sta!RxEapol

StaActs ==
    StaReceive \/ StaAssociate \/ StaAssociated \/ StaRequest \/ StaDisconnect

LEMMA StaEffect ==
    ASSUME LateFrames = FALSE, FrameInv, StaActs
    PROVE  StaStep /\ StaSends
<1> USE DEF Sta!ifVars, Sta!nonces, Sta!ptkVars, Sta!drvVars
<1>0. StaSends
  BY DEF StaActs, StaReceive, StaAssociate, StaAssociated, StaRequest,
     StaDisconnect
<1>1. CASE StaReceive
  BY <1>0, <1>1, ReceiveStep DEF StaReceive
<1>2. CASE StaAssociate
  <2>1. StaStarts
    BY <1>2 DEF StaAssociate, Sta!Associate, Sta!ClearDriverKeys,
       Sta!NoDrvPtk, StaStarts
  <2> QED BY <1>0, <2>1 DEF StaStep
<1>3. CASE joined /\ Sta!EventAssoc /\ joined' = joined
  <2>1. StaJoins
    BY <1>3 DEF Sta!EventAssoc, Sta!NotifyAssoc, StaJoins
  <2> QED BY <1>0, <2>1 DEF StaStep
<1>4. CASE /\ joined /\ Sta!EventAssocPending /\ joined' = joined
           /\ pending_eapol_rx \in toSta
  <2>1. StaReplies(pending_eapol_rx)
    BY <1>4 DEF Sta!EventAssocPending, Sta!NotifyAssoc, Sta!Is1of4,
       Sta!Reply2of4, Sta!NextSnonce, StaReplies, Sta!Msg2of4, Msg2of4
  <2> QED BY <1>0, <1>4, <2>1 DEF StaStep
<1>5. CASE StaAssociated
  BY <1>3, <1>4, <1>5 DEF StaAssociated
<1>6. ASSUME NEW error, NEW pair, Sta!SendRequest(error, pair),
             joined' = joined
      PROVE  StaKeeps
  BY <1>6 DEF Sta!SendRequest, Sta!MsgRequest, StaKeeps, staSession
<1>7. CASE StaRequest
  <2>1. StaKeeps \/ StaLeaves
    BY <1>6, <1>7, DisconnectedLeaves DEF StaRequest, Sta!KeyRequest,
       Sta!RekeyPtk
  <2> QED BY <1>0, <2>1 DEF StaStep
<1>8. CASE StaDisconnect
  BY <1>0, <1>8, DisconnectedLeaves DEF StaDisconnect, Sta!EventDisassoc,
     Sta!Timeout, StaStep
<1> QED
  BY <1>0, <1>1, <1>2, <1>5, <1>7, <1>8 DEF StaActs

-----------------------------------------------------------------------------
(* What a step of the Authenticator does to it.                            *)

\* Nothing, or (an Authentication frame) the PTK is removed.
ApKeeps ==
    /\ UNCHANGED <<wpa_ptk_state, ANonce, rc, prev_key_replay, rekey_timer,
                   ap_installs, toSta, toAp, joined>>
    /\ PTK' = PTK /\ ap_drvPtk' = ap_drvPtk

ApForgets ==
    /\ UNCHANGED <<wpa_ptk_state, ANonce, rc, prev_key_replay, ap_installs,
                   toSta, toAp, joined>>
    /\ joined = FALSE
    /\ PTK' = NoKey /\ ap_drvPtk' = NoKey /\ rekey_timer' = FALSE

ApStops ==
    /\ \/ wpa_ptk_state # "NONE" /\ wpa_ptk_state' = "INITIALIZE" /\ rc' = rc
       \/ wpa_ptk_state' = "NONE" /\ rc' = 0 /\ rekey_timer' = FALSE
    /\ PTK' = NoKey /\ ap_drvPtk' = NoKey
    /\ UNCHANGED <<ANonce, ap_installs, toSta, toAp, joined>>

\* A handshake with a new ANonce, in the same association or in a new one.
ApBegins ==
    /\ wpa_ptk_state' = "PTKSTART"
    /\ ANonce < MaxAnonce /\ ANonce' = ANonce + 1 /\ PTK' = NoKey
    /\ ap_drvPtk' \in {ap_drvPtk, NoKey}
    /\ ap_installs' = ap_installs

ApRekeys ==
    /\ ApBegins /\ wpa_ptk_state # "NONE"
    /\ rc' = rc + 1
    /\ toSta' = toSta \cup {Msg1of4(rc + 1, ANonce + 1)}
    /\ UNCHANGED <<toAp, joined>>

ApJoins ==
    /\ wpa_state = "ASSOCIATING" /\ joined' = TRUE /\ toAp' = {}
    /\ \/ /\ ApBegins /\ rc' \in {1, rc + 1}
          /\ toSta' = {Msg1of4(rc', ANonce + 1)}
       \/ /\ wpa_ptk_state' = "INITIALIZE" /\ rc' = rc
          /\ PTK' = NoKey /\ ap_drvPtk' = NoKey
          /\ UNCHANGED <<ANonce, ap_installs>>
          /\ toSta' = {}

\* Message 1/4 or 3/4 is sent again.
ApResends ==
    /\ \/ /\ AwaitsReply /\ wpa_ptk_state' = "PTKSTART"
          /\ toSta' = toSta \cup {Msg1of4(rc + 1, ANonce)}
       \/ /\ wpa_ptk_state = "PTKINITNEGOTIATING"
          /\ wpa_ptk_state' = wpa_ptk_state
          /\ toSta' = toSta \cup
                (IF PTK = NoKey THEN {}
                 ELSE {Msg3of4(rc + 1, PTK, TRUE, -1, Kdes)})
    /\ rc' = rc + 1
    /\ UNCHANGED <<ANonce, PTK, prev_key_replay, ap_drvPtk, ap_installs,
                   toAp, joined>>

\* Message 2/4 m is answered with message 3/4.
ApOffers(m) ==
    /\ m \in toAp /\ m.type = "M2"
    /\ m.mic = [an |-> ANonce, sn |-> m.nonce]
    /\ Negotiating /\ wpa_ptk_state' = "PTKINITNEGOTIATING"
    /\ PTK' = m.mic
    /\ prev_key_replay' \subseteq {d \in key_replay : d > m.rc}
    /\ rc' = rc + 1
    /\ toSta' = toSta \cup {Msg3of4(rc + 1, m.mic, TRUE, -1, Kdes)}
    /\ UNCHANGED <<ANonce, ap_drvPtk, ap_installs, toAp, joined>>

\* It fails its checks.
ApRefuses ==
    /\ AwaitsReply /\ wpa_ptk_state' = "PTKCALCNEGOTIATING"
    /\ UNCHANGED <<ANonce, PTK, rc, ap_drvPtk, ap_installs, toSta, toAp,
                   joined>>

\* Message 4/4 m is accepted.
ApFinishes(m) ==
    /\ m \in toAp /\ m.type = "M4" /\ m.mic # NoKey /\ m.mic.an = ANonce
    /\ Negotiating /\ wpa_ptk_state' = "PTKINITDONE"
    /\ PTK' = m.mic /\ ap_drvPtk' = m.mic
    /\ ap_installs' = [ap_installs EXCEPT ![m.mic] = @ + 1]
    /\ UNCHANGED <<ANonce, rc, toSta, toAp, joined>>

ApStep ==
    \/ ApKeeps \/ ApForgets \/ ApStops \/ ApRekeys \/ ApJoins
    \/ ApResends \/ ApRefuses
    \/ \E m \in toAp : ApOffers(m) \/ ApFinishes(m)

\* A new handshake within the association, or a disconnection instead.
LEMMA RequestStep ==
    ASSUME NEW tm, Ap!RequestNewPtk(tm), wpa_ptk_state # "NONE",
           ApSends, joined' = joined
    PROVE  ApStep
<1>1. CASE DenyPtk0Rekey
  <2>1. ApStops
    BY <1>1 DEF Ap!RequestNewPtk, Ap!Initialize, Ap!RemovePtk, ApSends,
       ApStops
  <2> QED BY <2>1 DEF ApStep
<1>2. CASE ~DenyPtk0Rekey
  <2>1. ApRekeys
    BY <1>2 DEF Ap!RequestNewPtk, Ap!Start, Ap!Send1of4, Ap!Send,
       Ap!Msg1of4, Msg1of4, Ap!NoKde, NoKde, Ap!Kinds, Kinds, ApSends,
       ApRekeys, ApBegins
  <2> QED BY <2>1 DEF ApStep
<1> QED BY <1>1, <1>2

\* Every message 2/4 that can be an alternative was derived from this ANonce.
LEMMA AlternativeGood ==
    ASSUME ReplyInv, PrevInv, FrameInv, NEW m \in toAp, Ap!IsAlt2of4(m)
    PROVE  m.mic = Ap!Derived(m)
<1>1. /\ m.type = "M2" /\ m.rc \in prev_key_replay
      /\ wpa_ptk_state = "PTKINITNEGOTIATING"
  BY DEF Ap!IsAlt2of4
<1>2. PICK f \in toSta : f.mic = NoKey /\ f.rc = m.rc /\ f.nonce = m.mic.an
  BY <1>1 DEF ReplyInv
<1>3. m.mic \in Ptks /\ m.nonce = m.mic.sn /\ m.mic.an = ANonce
  BY <1>1, <1>2 DEF ReplyInv, PrevInv
<1> QED
  BY <1>3 DEF Ptks, Ap!Derived

LEMMA ApReceiveStep ==
    ASSUME ApTypes, ApInv, ReplyInv, NEW m \in toAp, Ap!Receive(m), ApSends,
           joined' = joined
    PROVE  ApStep
<1> USE DEF Ap!drvVars, Ap!timerVars
<1>1. CASE Ap!Rx2of4(m, "none")
  <2>1. m.mic = Ap!Derived(m)
    <3>1. CASE Ap!Prechecked(m)
      BY <3>1 DEF Ap!Prechecked, Ap!Is2of4, ApInv, AwaitInv, AwaitsReply
    <3> QED BY <1>1, <3>1 DEF Ap!Rx2of4
  <2>2. /\ m.type = "M2" /\ Negotiating
    BY <1>1 DEF Ap!Rx2of4, Ap!Is2of4, Ap!IsAlt2of4, Negotiating
  <2>3. m.mic # NoKey
    BY <2>2, NoKeyAssumption DEF ReplyInv
  <2>4. /\ wpa_ptk_state' = "PTKINITNEGOTIATING" /\ PTK' = m.mic
        /\ prev_key_replay' = {d \in key_replay : d > m.rc}
        /\ UNCHANGED <<ANonce, ap_drvPtk, ap_installs>>
    BY <1>1, <2>1 DEF Ap!Rx2of4, Ap!Accepted2of4
  <2>5. rc' = rc + 1 /\ ap_tx' = {Msg3of4(rc + 1, m.mic, TRUE, -1, Kdes)}
    BY <1>1, <2>1, <2>3 DEF Ap!Rx2of4, Ap!Send3of4, Ap!Send, Ap!Msg3of4,
       Msg3of4
  <2>6. ApOffers(m)
    BY <2>1, <2>2, <2>4, <2>5 DEF ApOffers, ApSends, Ap!Derived
  <2> QED BY <2>6 DEF ApStep
<1>2. CASE Ap!Rx2of4Bad(m, "none")
  <2>1. Ap!Is2of4(m)
    BY <1>2, AlternativeGood DEF Ap!Rx2of4Bad, ApInv
  <2>2. ApRefuses
    BY <1>2, <2>1 DEF Ap!Rx2of4Bad, Ap!Is2of4, AwaitsReply, ApRefuses,
       ApSends
  <2> QED BY <2>2 DEF ApStep
<1>3. ~Ap!Rx2of4Mismatch(m, "none") /\ ~Ap!Rx4of4Fail(m, "none")
  BY DEF Ap!Rx2of4Mismatch, Ap!Rx4of4Fail
<1>4. CASE Ap!Rx4of4(m)
  <2>1. /\ m.type = "M4" /\ m.mic # NoKey /\ m.mic.an = ANonce
        /\ Negotiating
    BY <1>4 DEF Ap!Rx4of4, Ap!Is4of4, ApInv, NonceInv, Negotiating
  <2>2. ApFinishes(m)
    BY <1>4, <2>1 DEF Ap!Rx4of4, Ap!Accepted4of4, ApFinishes, ApSends
  <2> QED BY <2>2 DEF ApStep
<1>5. CASE Ap!RxPtkRequest(m)
  BY <1>5, RequestStep DEF Ap!RxPtkRequest, Ap!IsRequest, ApInv, GoneInv
<1>6. CASE Ap!RxGtkRequest(m)
  <2>1. PTK # NoKey
    BY <1>6 DEF Ap!RxGtkRequest, Ap!IsRequest
  <2>2. wpa_ptk_state # "PTKCALCNEGOTIATING"
    BY <2>1 DEF ApInv, AwaitInv, AwaitsReply
  <2>3. ApKeeps
    BY <1>6, <2>2 DEF Ap!RxGtkRequest, ApSends, ApKeeps
  <2> QED BY <2>3 DEF ApStep
<1> QED
  BY <1>1, <1>2, <1>3, <1>4, <1>5, <1>6 DEF Ap!Receive

ApActs == ApReceive \/ ApJoin \/ ApAuth \/ ApLocal

LEMMA ApEffect ==
    ASSUME LateFrames = FALSE, ApTypes, ApInv, ReplyInv, ApActs
    PROVE  ApStep /\ UNCHANGED staVars
<1> USE DEF Ap!drvVars, Ap!timerVars, Ap!nonceVars, Ap!replayVars
<1>0. UNCHANGED staVars
  BY DEF ApActs, ApReceive, ApJoin, ApAuth, ApLocal, ApSends
<1>1. CASE ApReceive
  BY <1>0, <1>1, ApReceiveStep DEF ApReceive
<1>2. CASE ApJoin
  <2>1. ApJoins
    <3>1. /\ wpa_state = "ASSOCIATING" /\ joined' = TRUE /\ toAp' = {}
          /\ toSta' = ap_tx' /\ Ap!Join
      BY <1>2 DEF ApJoin
    <3>2. CASE Ap!Associate \/ Ap!AssociateAgain
      BY <3>1, <3>2 DEF Ap!Associate, Ap!AssociateAgain, Ap!Start,
         Ap!Send1of4, Ap!Send, Ap!Msg1of4, Msg1of4, Ap!NoKde, NoKde,
         Ap!Kinds, Kinds, Ap!RemovePtk, ApJoins, ApBegins
    <3>3. CASE Ap!Reassociate
      <4>1. CASE DenyPtk0Rekey
        BY <3>1, <3>3, <4>1 DEF Ap!Reassociate, Ap!Initialize, Ap!RemovePtk,
           ApJoins
      <4>2. CASE ~DenyPtk0Rekey
        BY <3>1, <3>3, <4>2 DEF Ap!Reassociate, Ap!Start, Ap!Send1of4,
           Ap!Send, Ap!Msg1of4, Msg1of4, Ap!NoKde, NoKde, Ap!Kinds, Kinds,
           Ap!RemovePtk, ApJoins, ApBegins
      <4> QED BY <4>1, <4>2
    <3> QED BY <3>1, <3>2, <3>3 DEF Ap!Join
  <2> QED BY <1>0, <2>1 DEF ApStep
<1>3. CASE ApAuth
  <2>1. ApForgets
    BY <1>3 DEF ApAuth, Ap!AuthEvent, Ap!RemovePtk, ApSends, ApForgets
  <2> QED BY <1>0, <2>1 DEF ApStep
<1>4. CASE ApLocal
  <2>0. ApSends /\ joined' = joined
    BY <1>4 DEF ApLocal
  <2>1. CASE Ap!Disassoc \/ Ap!StaDeinit
    <3>1. ApStops
      BY <2>0, <2>1 DEF Ap!Disassoc, Ap!StaDeinit, Ap!Initialize,
         Ap!RemovePtk, ApSends, ApStops
    <3> QED BY <1>0, <3>1 DEF ApStep
  <2>2. CASE Ap!RekeyPtk
    BY <1>0, <2>0, <2>2, RequestStep DEF Ap!RekeyPtk, ApInv, GoneInv
  <2>3. CASE Ap!TimeoutResend
    <3>1. ApResends
      BY <2>0, <2>3 DEF Ap!TimeoutResend, Ap!Send1of4, Ap!Send3of4, Ap!Send,
         Ap!Msg1of4, Msg1of4, Ap!NoKde, NoKde, Ap!Kinds, Kinds, Ap!Msg3of4,
         Msg3of4, AwaitsReply, ApSends, ApResends
    <3> QED BY <1>0, <3>1 DEF ApStep
  <2>4. CASE Ap!TimeoutLast
    <3>1. ApStops
      BY <2>0, <2>4 DEF Ap!TimeoutLast, Ap!Initialize, Ap!RemovePtk,
         ApSends, ApStops
    <3> QED BY <1>0, <3>1 DEF ApStep
  <2>5. CASE Ap!TimeoutIdle
    <3>1. ApKeeps
      BY <2>0, <2>5 DEF Ap!TimeoutIdle, ApSends, ApKeeps
    <3> QED BY <1>0, <3>1 DEF ApStep
  <2> QED
    BY <1>4, <2>1, <2>2, <2>3, <2>4, <2>5 DEF ApLocal, Ap!Timeout
<1> QED
  BY <1>1, <1>2, <1>3, <1>4 DEF ApActs

-----------------------------------------------------------------------------
(* The Supplicant's steps preserve the invariant.                          *)

LEMMA StaSame ==
    ASSUME StaSends
    PROVE  /\ toAp' = toAp \cup tx' /\ toSta' = toSta
           /\ UNCHANGED <<wpa_ptk_state, ANonce, PTK, rc, prev_key_replay,
                          rekey_timer, ap_drvPtk, ap_installs>>
BY DEF StaSends, apVars

LEMMA StaKeepsAp ==
    ASSUME ApTypes, ApInv, StaSends PROVE ApTypes' /\ ApInv'
<1>1. /\ ApTypes' /\ FrameInv' /\ CounterInv'
  BY StaSame DEF ApTypes, ApInv, FrameInv, CounterInv
<1>2. OrderInv' /\ AwaitInv' /\ PrevInv' /\ GoneInv'
  BY StaSame DEF ApInv, OrderInv, AwaitInv, AwaitsReply, PrevInv, GoneInv
<1>3. NonceInv'
  BY StaSame DEF ApInv, NonceInv, Negotiating
<1> QED BY <1>1, <1>2, <1>3 DEF ApInv

\* DoneInv survives everything the Supplicant does except starting over.
LEMMA StaKeepsDone ==
    ASSUME DoneInv, StaSends, joined' => joined PROVE DoneInv'
BY StaSame DEF DoneInv

\* Steps that send neither message 2/4 nor 4/4 and install nothing.
LEMMA StaQuietLink ==
    ASSUME LinkInv, StaSends, joined' => joined, installs' = installs,
           \A m \in tx' : m.type = "REQ"
    PROVE  LinkInv'
<1>1. /\ toAp' = toAp \cup tx' /\ toSta' = toSta
  BY StaSame
<1>2. ReplyInv'
  BY <1>1 DEF LinkInv, ReplyInv
<1>3. ConfirmInv'
  BY <1>1 DEF LinkInv, ConfirmInv
<1> QED
  BY <1>2, <1>3, StaKeepsDone DEF LinkInv

LEMMA KeepsStep ==
    ASSUME AgreeInv, StaSends, StaKeeps PROVE AgreeInv'
<1>1. /\ toAp' = toAp \cup tx' /\ joined' = joined /\ UNCHANGED staSession
      /\ \A m \in tx' : m.type = "REQ"
  BY StaSame DEF StaKeeps
<1> USE DEF AgreeInv, TypeInv, StaInv, staSession
<1>2. LinkInv'
  BY <1>1, StaQuietLink
<1>3. StaTypes'
  BY <1>1 DEF StaTypes
<1>4. SessionInv'
  BY <1>1 DEF SessionInv, InSession
<1>5. DriverInv'
  BY <1>1 DEF DriverInv, InSession
<1>6. ConfirmedInv'
  BY <1>1 DEF ConfirmedInv, InSession
<1>7. FreshInv'
  BY <1>1 DEF FreshInv
<1> QED
  BY <1>2, <1>3, <1>4, <1>5, <1>6, <1>7, StaKeepsAp

LEMMA LeavesStep ==
    ASSUME AgreeInv, StaSends, StaLeaves \/ StaStarts PROVE AgreeInv'
<1> USE DEF AgreeInv, TypeInv, StaInv
<1>1. /\ toAp' = toAp \cup tx' /\ tx' = {} /\ installs' = installs
      /\ wpa_state' \in {"DISCONNECTED", "ASSOCIATING"}
      /\ drvTx' = -1 /\ snonce' = snonce
  BY StaSame DEF StaLeaves, StaStarts
<1>2. ~InSession'
  BY <1>1 DEF InSession
<1>3. LinkInv'
  BY <1>1, StaQuietLink DEF StaLeaves, StaStarts
<1>4. StaTypes'
  <2>1. \A f \in toSta : f.rc \in Int
    BY DEF ApInv, FrameInv, Frame
  <2> QED BY <1>1, <2>1 DEF StaTypes, StaLeaves, StaStarts
<1>5. SessionInv'
  BY <1>1, <1>2 DEF SessionInv, StaLeaves, StaStarts
<1>6. FreshInv'
  <2>1. ASSUME NEW p \in Ptks, installs'[p] > 0 \/ p = ptk'
        PROVE  \/ p.sn < snonce'
               \/ p.sn = snonce' /\ renew_snonce' = TRUE /\ tptk' = NoKey
    BY <1>1, <2>1, NoKeyAssumption DEF FreshInv, StaLeaves, StaStarts
  <2> QED
    BY <1>1, <2>1 DEF FreshInv, StaLeaves, StaStarts
<1> QED
  BY <1>2, <1>3, <1>4, <1>5, <1>6, StaKeepsAp DEF DriverInv, ConfirmedInv

\* At the association event no message 4/4 of the new association is out.
LEMMA JoinsStep ==
    ASSUME AgreeInv, StaSends, StaJoins PROVE AgreeInv'
<1> USE DEF AgreeInv, TypeInv, StaInv
<1>1. /\ toAp' = toAp /\ tx' = {} /\ installs' = installs
      /\ wpa_state' = "ASSOCIATED" /\ joined' = joined /\ joined = TRUE
      /\ drvTx' = drvTx /\ drvTx = -1
      /\ ptk' = NoKey /\ tptk' = NoKey /\ rx_replay_counter' = -1
      /\ snonce' = snonce /\ renew_snonce' = TRUE
      /\ \A m \in toAp : m.type = "REQ"
  BY StaSame DEF StaJoins, SessionInv, InSession
<1>2. LinkInv'
  BY <1>1, StaQuietLink
<1>3. StaTypes'
  BY <1>1 DEF StaTypes, StaJoins
<1>4. SessionInv' /\ DriverInv' /\ ConfirmedInv'
  BY <1>1 DEF SessionInv, DriverInv, ConfirmedInv, InSession
<1>5. FreshInv'
  <2>1. ASSUME NEW p \in Ptks, installs'[p] > 0 \/ p = ptk'
        PROVE  p.sn < snonce' \/ p.sn = snonce'
    BY <1>1, <2>1, NoKeyAssumption DEF FreshInv
  <2> QED BY <1>1, <2>1 DEF FreshInv
<1> QED
  BY <1>2, <1>3, <1>4, <1>5, StaKeepsAp

\* A key derived from a message 1/4 that is still accepted is of a later
\* ANonce than every key that was confirmed.
LEMMA RepliesStep ==
    ASSUME AgreeInv, StaSends, NEW f \in toSta, StaReplies(f)
    PROVE  AgreeInv'
<1> USE DEF AgreeInv, TypeInv, StaInv
<1>0. Frame(f) /\ f.mic = NoKey
  BY DEF ApInv, FrameInv, StaReplies
<1>1. /\ toAp' = toAp \cup tx' /\ toSta' = toSta /\ installs' = installs
      /\ wpa_state' = "4WAY_HANDSHAKE" /\ joined' = joined
      /\ drvTx' = drvTx /\ drvPtk' = drvPtk
      /\ snonce' \in 1..MaxSnonce /\ renew_snonce' = FALSE
      /\ tptk' = [an |-> f.nonce, sn |-> snonce']
      /\ tx' = {Msg2of4(f, tptk')}
  BY StaSame DEF StaReplies
<1>2. /\ tptk' \in Ptks /\ tptk'.an = f.nonce /\ tptk'.sn = snonce'
      /\ tptk' # NoKey
  BY <1>0, <1>1, NoncesAssumption, NoKeyAssumption DEF Ptks, Frame
<1>3. \A m \in tx' : /\ m.type = "M2" /\ m.rc = f.rc /\ m.mic = tptk'
                     /\ m.nonce = tptk'.sn
  BY <1>1 DEF Msg2of4
<1>4. \/ /\ InSession /\ f.rc > rx_replay_counter
         /\ UNCHANGED <<ptk, ptk_installed, rx_replay_counter>>
         /\ snonce' = IF renew_snonce THEN snonce + 1 ELSE snonce
      \/ /\ wpa_state = "ASSOCIATING" /\ joined = TRUE
         /\ ptk' = NoKey /\ rx_replay_counter' = -1
         /\ snonce' = snonce + 1
  BY DEF StaReplies
<1>5. LinkInv'
  <2>1. ReplyInv'
    BY <1>0, <1>1, <1>2, <1>3 DEF LinkInv, ReplyInv
  <2>2. ConfirmInv'
    BY <1>1, <1>3 DEF LinkInv, ConfirmInv
  <2> QED
    BY <1>1, <2>1, <2>2, StaKeepsDone DEF LinkInv
<1>6. StaTypes'
  BY <1>1, <1>2, <1>4 DEF StaTypes
<1>7. SessionInv'
  BY <1>1, <1>4 DEF SessionInv, InSession
<1>8. DriverInv'
  <2>1. CASE InSession
    BY <1>1, <1>4, <2>1 DEF DriverInv, InSession
  <2>2. CASE ~InSession
    BY <1>1, <1>4, <2>2 DEF DriverInv, SessionInv
  <2> QED BY <2>1, <2>2
<1>9. ConfirmedInv'
  <2> SUFFICES ASSUME NEW m \in toAp', m.type = "M4"
               PROVE  /\ m.rc <= rx_replay_counter'
                      /\ ptk' # NoKey /\ (ptk' = m.mic \/ m.mic.an < ptk'.an)
                      /\ m.mic.an < tptk'.an
    BY DEF ConfirmedInv
  <2>1. m \in toAp
    BY <1>1, <1>3
  <2>2. /\ InSession /\ f.rc > rx_replay_counter
        /\ UNCHANGED <<ptk, rx_replay_counter>>
    BY <1>4, <2>1 DEF SessionInv
  <2>3. /\ m.rc <= rx_replay_counter
        /\ ptk # NoKey /\ (ptk = m.mic \/ m.mic.an < ptk.an)
    BY <2>1, <2>2 DEF ConfirmedInv
  <2>4. PICK g \in toSta : g.mic = m.mic /\ g.rc = m.rc
    BY <2>1 DEF LinkInv, ConfirmInv
  <2>5. m.mic \in Ptks /\ g.mic # NoKey /\ Frame(g)
    BY <2>1, <2>4, NoKeyAssumption DEF LinkInv, ConfirmInv, ApInv, FrameInv
  <2>6. g.rc < f.rc
    BY <1>0, <2>2, <2>3, <2>4, <2>5 DEF Frame, StaTypes
  <2>7. g.nonce < f.nonce
    BY <1>0, <2>5, <2>6 DEF ApInv, OrderInv, Ordered, Frame
  <2> QED
    BY <1>2, <2>2, <2>3, <2>4, <2>5, <2>7 DEF Frame
<1>10. FreshInv'
  <2>1. ASSUME NEW p \in Ptks, installs'[p] > 0 \/ p = ptk'
        PROVE  p.sn < snonce'
    <3>1. \/ p.sn < snonce
          \/ p.sn = snonce /\ renew_snonce = TRUE
      BY <1>1, <1>4, <2>1, NoKeyAssumption DEF FreshInv
    <3> QED
      BY <1>4, <3>1, PtkFields DEF StaTypes
  <2> QED BY <1>1, <1>2, <2>1 DEF FreshInv
<1> QED
  BY <1>5, <1>6, <1>7, <1>8, <1>9, <1>10, StaKeepsAp

LEMMA ConfirmsStep ==
    ASSUME AgreeInv, StaSends, NEW f \in toSta, StaConfirms(f)
    PROVE  AgreeInv'
<1> USE DEF AgreeInv, TypeInv, StaInv
<1>0. Frame(f) /\ f.mic # NoKey /\ f.mic \in Ptks /\ f.mic.an = f.nonce
  BY DEF ApInv, FrameInv, StaConfirms, Frame
<1>1. /\ toAp' = toAp \cup tx' /\ toSta' = toSta
      /\ InSession /\ f.rc > rx_replay_counter /\ f.mic \in {tptk, ptk}
      /\ wpa_state' = "COMPLETED" /\ joined' = joined
      /\ ptk' = f.mic /\ tptk' = IF f.mic = tptk THEN NoKey ELSE tptk
      /\ rx_replay_counter' = f.rc
      /\ snonce' = snonce /\ renew_snonce' = TRUE
      /\ tx' = {Msg4of4(f)} /\ ptk_installed' = TRUE
  BY StaSame DEF StaConfirms
<1>2. \A m \in tx' : m.type = "M4" /\ m.rc = f.rc /\ m.mic = f.mic
  BY <1>1 DEF Msg4of4
<1>3. \E m \in tx' : m.type = "M4" /\ m.mic = f.mic
  BY <1>1 DEF Msg4of4
\* The key is new and gets installed, or it is the one in use.
<1>4. /\ installs' \in [Ptks -> Nat]
      /\ drvPtk' \in [{0, 1} -> Ptks \cup {NoKey}]
      /\ installs'[f.mic] = 1
      /\ \A p \in Ptks : p # f.mic => installs'[p] = installs[p]
      /\ drvTx' = 0 /\ drvPtk'[0] = f.mic
  <2>1. CASE f.mic = tptk
    <3>1. installs \in [Ptks -> Nat] /\ installs[f.mic] = 0
      BY <1>0, <2>1, PtkFields DEF FreshInv, StaTypes
    <3>2. /\ drvPtk' = [drvPtk EXCEPT ![0] = f.mic] /\ drvTx' = 0
          /\ installs' = [installs EXCEPT ![f.mic] = @ + 1]
      BY <2>1 DEF StaConfirms
    <3> QED BY <1>0, <3>1, <3>2 DEF StaTypes
  <2>2. CASE f.mic # tptk
    <3>1. /\ f.mic = ptk /\ ptk_installed = TRUE
          /\ drvTx = 0 /\ drvPtk[0] = ptk
      BY <1>0, <1>1, <2>2 DEF DriverInv
    <3>2. UNCHANGED <<drvPtk, drvTx, installs>>
      BY <2>2, <3>1 DEF StaConfirms
    <3>3. PICK m \in toAp : m.type = "M4" /\ m.mic = ptk
      BY <1>0, <1>1, <3>1 DEF DriverInv
    <3>4. installs[f.mic] = 1
      BY <3>1, <3>3 DEF LinkInv, ConfirmInv
    <3> QED BY <3>1, <3>2, <3>4 DEF StaTypes
  <2> QED BY <2>1, <2>2
<1>5. LinkInv'
  <2>1. ReplyInv'
    BY <1>1, <1>2 DEF LinkInv, ReplyInv
  <2>2. ASSUME NEW m \in toAp', m.type = "M4"
        PROVE  /\ m.mic \in Ptks /\ installs'[m.mic] = 1
               /\ \E g \in toSta : g.mic = m.mic /\ g.rc = m.rc
    <3>1. CASE m \in toAp
      BY <1>4, <2>2, <3>1 DEF LinkInv, ConfirmInv
    <3>2. CASE m \in tx'
      BY <1>0, <1>2, <1>4, <3>2
    <3> QED BY <1>1, <3>1, <3>2
  <2>3. ConfirmInv'
    BY <1>1, <2>2 DEF ConfirmInv
  <2> QED
    BY <1>1, <2>1, <2>3, StaKeepsDone DEF LinkInv
<1>6. StaTypes'
  BY <1>0, <1>1, <1>4 DEF StaTypes, Frame
<1>7. SessionInv'
  BY <1>1 DEF SessionInv, InSession
<1>8. DriverInv'
  BY <1>0, <1>1, <1>3, <1>4 DEF DriverInv, InSession
<1>9. ConfirmedInv'
  <2> SUFFICES ASSUME NEW m \in toAp', m.type = "M4"
               PROVE  /\ m.rc <= f.rc
                      /\ f.mic = m.mic \/ m.mic.an < f.mic.an
                      /\ tptk' # NoKey => m.mic.an < tptk'.an
    BY <1>0, <1>1 DEF ConfirmedInv
  <2>1. CASE m \in toAp
    <3>1. /\ m.rc <= rx_replay_counter
          /\ ptk = m.mic \/ m.mic.an < ptk.an
          /\ tptk # NoKey => m.mic.an < tptk.an
      BY <1>1, <2>1 DEF ConfirmedInv
    <3>2. m.rc \in Int
      BY <2>1 DEF LinkInv, ConfirmInv, ApInv, FrameInv, Frame
    <3>3. m.rc <= f.rc
      BY <1>0, <1>1, <3>1, <3>2 DEF Frame, StaTypes
    <3> QED
      BY <1>0, <1>1, <3>1, <3>3
  <2>2. CASE m \in tx'
    <3>1. m.rc = f.rc /\ m.mic = f.mic
      BY <1>2, <2>2
    <3>2. ASSUME tptk' # NoKey PROVE f.mic.an < tptk'.an
      <4>1. f.mic = ptk /\ tptk' = tptk
        BY <1>1, <3>2
      <4>2. PICK n \in toAp : n.type = "M4" /\ n.mic = ptk
        BY <1>0, <1>1, <4>1 DEF DriverInv
      <4> QED
        BY <1>1, <3>2, <4>1, <4>2 DEF ConfirmedInv
    <3> QED BY <1>0, <3>1, <3>2 DEF Frame
  <2> QED BY <1>1, <2>1, <2>2
<1>10. FreshInv'
  <2>1. f.mic.sn = snonce \/ f.mic.sn < snonce
    BY <1>0, <1>1 DEF FreshInv
  <2>2. f.mic.sn = snonce => tptk' = NoKey
    BY <1>0, <1>1, PtkFields DEF FreshInv, StaTypes
  <2>3. ASSUME NEW p \in Ptks, installs'[p] > 0 \/ p = ptk'
        PROVE  \/ p.sn < snonce
               \/ p.sn = snonce /\ tptk' = NoKey
    <3>1. CASE p = f.mic
      BY <2>1, <2>2, <3>1
    <3>2. CASE p # f.mic
      BY <1>1, <1>4, <2>3, <3>2 DEF FreshInv
    <3> QED BY <3>1, <3>2
  <2>4. ASSUME NEW p \in Ptks PROVE installs'[p] <= 1
    BY <1>4 DEF FreshInv
  <2>5. tptk' # NoKey => tptk'.sn = snonce
    BY <1>1 DEF FreshInv
  <2> QED BY <1>1, <2>3, <2>4, <2>5 DEF FreshInv
<1> QED
  BY <1>5, <1>6, <1>7, <1>8, <1>9, <1>10, StaKeepsAp

LEMMA StaStepKeeps ==
    ASSUME AgreeInv, StaSends, StaStep PROVE AgreeInv'
BY KeepsStep, LeavesStep, JoinsStep, RepliesStep, ConfirmsStep DEF StaStep

-----------------------------------------------------------------------------
(* The Authenticator's steps preserve it.                                  *)

LEMMA ApSame ==
    ASSUME UNCHANGED staVars
    PROVE  UNCHANGED <<wpa_state, ptk, tptk, ptk_installed,
                       rx_replay_counter, snonce, renew_snonce, drvPtk,
                       drvTx, installs>>
BY DEF staVars

LEMMA ApKeepsSta ==
    ASSUME StaTypes, StaInv, UNCHANGED staVars, toAp' = toAp, joined' = joined
    PROVE  StaTypes' /\ StaInv'
<1>1. StaTypes' /\ SessionInv' /\ FreshInv'
  BY ApSame DEF StaTypes, StaInv, SessionInv, FreshInv, InSession
<1>2. DriverInv' /\ ConfirmedInv'
  BY ApSame DEF StaInv, DriverInv, ConfirmedInv, InSession
<1> QED BY <1>1, <1>2 DEF StaInv

LEMMA ApKeepsLink ==
    ASSUME LinkInv, UNCHANGED staVars, toAp' = toAp, toSta \subseteq toSta'
    PROVE  ReplyInv' /\ ConfirmInv'
BY ApSame DEF LinkInv, ReplyInv, ConfirmInv

\* The frame with the next counter and the latest ANonce comes last.
LEMMA AddOrdered ==
    ASSUME NEW S, Ordered(S), NEW h, Frame(h),
           \A f \in S : /\ Frame(f) /\ f.rc < h.rc /\ f.nonce <= h.nonce
                        /\ h.mic = NoKey /\ f.mic # NoKey => f.nonce < h.nonce
    PROVE  Ordered(S \cup {h})
<1> SUFFICES ASSUME NEW f \in S \cup {h}, NEW g \in S \cup {h}
             PROVE  /\ f.rc <= g.rc => f.nonce <= g.nonce
                    /\ f.mic = NoKey /\ g.mic # NoKey /\ f.nonce = g.nonce
                          => f.rc < g.rc
  BY DEF Ordered
<1>1. CASE f \in S /\ g \in S
  BY <1>1 DEF Ordered
<1>2. CASE f \in S /\ g = h
  BY <1>2
<1>3. CASE f = h /\ g \in S
  <2>1. ~(f.rc <= g.rc)
    BY <1>3 DEF Frame
  <2>2. ~(f.mic = NoKey /\ g.mic # NoKey /\ f.nonce = g.nonce)
    BY <1>3 DEF Frame
  <2> QED BY <2>1, <2>2
<1>4. CASE f = h /\ g = h
  BY <1>4 DEF Frame
<1> QED BY <1>1, <1>2, <1>3, <1>4

LEMMA Msg1Frame ==
    ASSUME NEW c \in Nat, NEW n \in 1..MaxAnonce
    PROVE  /\ Frame(Msg1of4(c, n)) /\ Msg1of4(c, n).mic = NoKey
           /\ Msg1of4(c, n).rc = c /\ Msg1of4(c, n).nonce = n
BY DEF Frame, Msg1of4

LEMMA Msg3Frame ==
    ASSUME NEW c \in Nat, NEW p \in Ptks
    PROVE  /\ Frame(Msg3of4(c, p, TRUE, -1, Kdes))
           /\ Msg3of4(c, p, TRUE, -1, Kdes).mic = p
           /\ Msg3of4(c, p, TRUE, -1, Kdes).rc = c
           /\ Msg3of4(c, p, TRUE, -1, Kdes).nonce = p.an
BY PtkFields DEF Frame, Msg3of4

\* Sending h preserves what is known of the frames.
LEMMA SendKeeps ==
    ASSUME ApTypes, FrameInv, CounterInv, OrderInv, wpa_ptk_state # "NONE",
           NEW h, Frame(h), h.rc = rc + 1, ANonce <= h.nonce,
           h.nonce <= ANonce', ANonce' \in Nat,
           toSta' = toSta \cup {h}, rc' = rc + 1,
           h.mic = NoKey => \A f \in toSta : f.mic # NoKey => f.nonce < h.nonce
    PROVE  FrameInv' /\ CounterInv' /\ OrderInv'
<1>0. rc \in Nat /\ ANonce \in Nat
  BY NoncesAssumption DEF ApTypes
<1>1. \A f \in toSta : Frame(f) /\ f.nonce <= ANonce /\ f.rc <= rc
  BY DEF FrameInv, CounterInv
<1>2. \A f \in toSta : f.rc \in Nat /\ f.nonce \in Nat
  BY <1>1 DEF Frame
<1>3. h.nonce \in Nat
  BY DEF Frame
<1>4. FrameInv'
  BY <1>0, <1>1, <1>2, <1>3 DEF FrameInv, Frame
<1>5. CounterInv'
  BY <1>0, <1>1, <1>2 DEF CounterInv
<1>6. \A f \in toSta : f.rc < h.rc /\ f.nonce <= h.nonce
  BY <1>0, <1>1, <1>2, <1>3
<1>7. Ordered(toSta \cup {h})
  BY <1>1, <1>6, AddOrdered DEF OrderInv
<1> QED
  BY <1>4, <1>5, <1>7 DEF OrderInv

LEMMA ApQuietStep ==
    ASSUME AgreeInv, UNCHANGED staVars, ApKeeps \/ ApForgets \/ ApStops
    PROVE  AgreeInv'
<1> USE DEF AgreeInv, TypeInv
<1>1. /\ toAp' = toAp /\ toSta' = toSta /\ joined' = joined
      /\ ANonce' = ANonce /\ ap_installs' = ap_installs
      /\ PTK' \in {PTK, NoKey}
      /\ rc' \in {rc, 0} /\ (wpa_ptk_state' # "NONE" => rc' = rc)
      /\ wpa_ptk_state' \in {wpa_ptk_state, "INITIALIZE", "NONE"}
      /\ wpa_ptk_state' # "NONE" => wpa_ptk_state # "NONE"
  BY DEF ApKeeps, ApForgets, ApStops
<1>2. StaTypes' /\ StaInv' /\ ReplyInv' /\ ConfirmInv'
  BY <1>1, ApKeepsSta, ApKeepsLink
<1>3. ApTypes'
  BY <1>1 DEF ApTypes
<1>4. FrameInv' /\ CounterInv' /\ OrderInv'
  BY <1>1 DEF ApInv, FrameInv, CounterInv, OrderInv
<1>5. AwaitInv'
  BY <1>1 DEF ApInv, AwaitInv, AwaitsReply
<1>6. PrevInv'
  BY <1>1 DEF ApInv, PrevInv, ApKeeps, ApForgets, ApStops
<1>7. GoneInv'
  BY DEF ApInv, GoneInv, ApKeeps, ApForgets, ApStops
<1>8. NonceInv'
  BY <1>1 DEF ApInv, NonceInv, Negotiating
<1>9. DoneInv'
  BY <1>1 DEF LinkInv, DoneInv, ApKeeps, ApForgets, ApStops
<1> QED
  BY <1>2, <1>3, <1>4, <1>5, <1>6, <1>7, <1>8, <1>9 DEF ApInv, LinkInv

LEMMA BeginsNonce ==
    ASSUME ApTypes, NonceInv, ApBegins
    PROVE  NonceInv' /\ ANonce' \in 1..MaxAnonce /\ ANonce < ANonce'
<1>1. /\ ANonce' = ANonce + 1 /\ ANonce' \in 1..MaxAnonce
      /\ ANonce \in Nat
  BY NoncesAssumption DEF ApTypes, ApBegins
<1>2. ASSUME NEW p \in Ptks, ap_installs'[p] > 0 PROVE p.an < ANonce'
  BY <1>1, <1>2, PtkFields DEF NonceInv, ApBegins
<1> QED BY <1>1, <1>2 DEF NonceInv, ApBegins

LEMMA ApRekeysStep ==
    ASSUME AgreeInv, UNCHANGED staVars, ApRekeys
    PROVE  AgreeInv'
<1> USE DEF AgreeInv, TypeInv
<1> DEFINE h == Msg1of4(rc + 1, ANonce + 1)
<1>1. /\ toAp' = toAp /\ toSta' = toSta \cup {h} /\ joined' = joined
      /\ wpa_ptk_state # "NONE" /\ wpa_ptk_state' = "PTKSTART"
      /\ rc' = rc + 1 /\ ANonce' = ANonce + 1 /\ PTK' = NoKey
      /\ ap_installs' = ap_installs
  BY DEF ApRekeys, ApBegins
<1>2. NonceInv' /\ ANonce' \in 1..MaxAnonce /\ ANonce < ANonce'
  BY BeginsNonce DEF ApRekeys, ApInv
<1>3. /\ Frame(h) /\ h.mic = NoKey /\ h.rc = rc + 1 /\ h.nonce = ANonce'
  BY <1>1, <1>2, Msg1Frame DEF ApTypes
<1> HIDE DEF h
<1>4. StaTypes' /\ StaInv' /\ ReplyInv' /\ ConfirmInv'
  BY <1>1, ApKeepsSta, ApKeepsLink
<1>5. ApTypes'
  BY <1>1, <1>2 DEF ApTypes
<1>6. \A f \in toSta : f.nonce < ANonce'
  BY <1>1, NoncesAssumption DEF ApInv, FrameInv, Frame, ApTypes
<1>7. FrameInv' /\ CounterInv' /\ OrderInv'
  BY <1>1, <1>2, <1>3, <1>6, SendKeeps DEF ApInv, ApTypes
<1>8. AwaitInv'
  BY <1>1, <1>3, <1>6 DEF AwaitInv
<1>9. PrevInv' /\ GoneInv' /\ DoneInv'
  BY <1>1 DEF PrevInv, GoneInv, DoneInv
<1> QED
  BY <1>2, <1>4, <1>5, <1>7, <1>8, <1>9 DEF ApInv, LinkInv

\* A new association leaves the frames of the earlier one behind.
LEMMA ApJoinsStep ==
    ASSUME AgreeInv, UNCHANGED staVars, ApJoins
    PROVE  AgreeInv'
<1> USE DEF AgreeInv, TypeInv
<1>1. /\ wpa_state = "ASSOCIATING" /\ wpa_state' = wpa_state
      /\ joined' = TRUE /\ toAp' = {} /\ rc' \in Nat /\ PTK' = NoKey
      /\ ap_installs' = ap_installs
      /\ wpa_ptk_state' \in {"PTKSTART", "INITIALIZE"}
  BY ApSame DEF ApJoins, ApBegins, ApTypes
<1>2. StaTypes' /\ StaInv'
  <2>1. StaTypes' /\ FreshInv'
    BY ApSame DEF StaTypes, StaInv, FreshInv
  <2>2. ~InSession /\ ~InSession' /\ drvTx' = drvTx
    BY <1>1, ApSame DEF InSession
  <2>3. SessionInv' /\ DriverInv' /\ ConfirmedInv'
    BY <1>1, <2>2 DEF StaInv, SessionInv, DriverInv, ConfirmedInv
  <2> QED BY <2>1, <2>3 DEF StaInv
<1>3. LinkInv'
  BY <1>1 DEF LinkInv, ReplyInv, ConfirmInv, DoneInv
<1>4. PrevInv' /\ GoneInv'
  BY <1>1 DEF PrevInv, GoneInv
<1>5. CASE /\ ApBegins /\ wpa_ptk_state' = "PTKSTART"
           /\ toSta' = {Msg1of4(rc', ANonce + 1)}
  <2>1. /\ NonceInv' /\ ANonce' \in 1..MaxAnonce /\ ANonce' = ANonce + 1
    BY <1>5, BeginsNonce DEF ApInv, ApBegins
  <2>2. \A f \in toSta' : /\ Frame(f) /\ f.mic = NoKey
                          /\ f.rc = rc' /\ f.nonce = ANonce'
    BY <1>1, <1>5, <2>1, Msg1Frame
  <2>3. FrameInv' /\ CounterInv'
    BY <1>1, <2>1, <2>2 DEF FrameInv, CounterInv, Frame
  <2>4. OrderInv' /\ AwaitInv'
    BY <1>1, <2>1, <2>2 DEF OrderInv, Ordered, AwaitInv
  <2>5. ApTypes'
    BY <1>1, <2>1 DEF ApTypes
  <2> QED BY <1>2, <1>3, <1>4, <2>1, <2>3, <2>4, <2>5 DEF ApInv
<1>6. CASE /\ wpa_ptk_state' = "INITIALIZE" /\ toSta' = {}
           /\ ANonce' = ANonce
  <2>1. FrameInv' /\ CounterInv' /\ OrderInv' /\ AwaitInv'
    BY <1>6 DEF FrameInv, CounterInv, OrderInv, Ordered, AwaitInv,
       AwaitsReply
  <2>2. ApTypes'
    BY <1>1, <1>6 DEF ApTypes
  <2>3. NonceInv'
    BY <1>1, <1>6 DEF ApInv, NonceInv, Negotiating
  <2> QED BY <1>2, <1>3, <1>4, <2>1, <2>2, <2>3 DEF ApInv
<1> QED
  BY <1>5, <1>6 DEF ApJoins, ApBegins

LEMMA ApResendsStep ==
    ASSUME AgreeInv, UNCHANGED staVars, ApResends
    PROVE  AgreeInv'
<1> USE DEF AgreeInv, TypeInv
<1>1. /\ toAp' = toAp /\ joined' = joined
      /\ rc' = rc + 1 /\ ANonce' = ANonce /\ PTK' = PTK
      /\ prev_key_replay' = prev_key_replay
      /\ ap_installs' = ap_installs /\ ap_drvPtk' = ap_drvPtk
      /\ rc \in Nat /\ ANonce \in 0..MaxAnonce
  BY DEF ApResends, ApTypes
<1>2. /\ wpa_ptk_state # "NONE" /\ Negotiating
      /\ wpa_ptk_state' \in {"PTKSTART", "PTKINITNEGOTIATING"}
  BY DEF ApResends, AwaitsReply, Negotiating
<1>3. StaTypes' /\ StaInv' /\ ReplyInv' /\ ConfirmInv'
  BY <1>1, ApKeepsSta, ApKeepsLink DEF ApResends
<1>4. ApTypes' /\ NonceInv' /\ GoneInv' /\ DoneInv'
  BY <1>1, <1>2 DEF ApTypes, ApInv, NonceInv, Negotiating, GoneInv, DoneInv
<1>5. CASE AwaitsReply
  <2> DEFINE h == Msg1of4(rc + 1, ANonce)
  <2>1. wpa_ptk_state' = "PTKSTART" /\ toSta' = toSta \cup {h}
    BY <1>5 DEF ApResends, AwaitsReply
  <2>2. ANonce \in 1..MaxAnonce
    BY <1>1, <1>2, NoncesAssumption DEF ApInv, NonceInv
  <2>3. Frame(h) /\ h.mic = NoKey /\ h.rc = rc + 1 /\ h.nonce = ANonce
    BY <1>1, <2>2, Msg1Frame
  <2> HIDE DEF h
  <2>4. FrameInv' /\ CounterInv' /\ OrderInv'
    BY <1>1, <1>2, <1>5, <2>1, <2>2, <2>3, SendKeeps DEF ApInv, AwaitInv
  <2>5. AwaitInv' /\ PrevInv'
    BY <1>1, <1>5, <2>1, <2>3 DEF ApInv, AwaitInv, PrevInv
  <2> QED
    BY <1>3, <1>4, <2>4, <2>5 DEF ApInv, LinkInv
<1>6. CASE ~AwaitsReply
  <2>1. /\ wpa_ptk_state = "PTKINITNEGOTIATING"
        /\ wpa_ptk_state' = wpa_ptk_state
    BY <1>6 DEF ApResends
  <2>2. AwaitInv'
    BY <2>1 DEF AwaitInv, AwaitsReply
  <2>3. CASE PTK = NoKey
    <3>1. toSta' = toSta
      BY <1>6, <2>3 DEF ApResends
    <3>2. FrameInv' /\ OrderInv' /\ PrevInv'
      BY <1>1, <2>1, <3>1 DEF ApInv, FrameInv, OrderInv, PrevInv
    <3>3. CounterInv'
      BY <1>1, <1>2, <3>1 DEF ApInv, FrameInv, Frame, CounterInv
    <3> QED
      BY <1>3, <1>4, <2>2, <3>2, <3>3 DEF ApInv, LinkInv
  <2>4. CASE PTK # NoKey
    <3> DEFINE h == Msg3of4(rc + 1, PTK, TRUE, -1, Kdes)
    <3>1. toSta' = toSta \cup {h}
      BY <1>6, <2>4 DEF ApResends
    <3>2. PTK \in Ptks /\ PTK.an = ANonce
      BY <2>4 DEF ApTypes, ApInv, NonceInv
    <3>3. rc + 1 \in Nat
      BY <1>1
    <3>4. Frame(h) /\ h.mic = PTK /\ h.rc = rc + 1 /\ h.nonce = PTK.an
      BY <3>3, <3>2, Msg3Frame, Zenon
    <3> HIDE DEF h
    <3>5. Frame(h) /\ h.mic # NoKey /\ h.rc = rc + 1 /\ h.nonce = ANonce
      BY <2>4, <3>2, <3>4
    <3>6. FrameInv' /\ CounterInv' /\ OrderInv'
      BY <1>1, <1>2, <3>1, <3>5, NoncesAssumption, SendKeeps DEF ApInv
    <3>7. PrevInv'
      BY <1>1, <2>1, <3>1, <3>5 DEF ApInv, PrevInv
    <3> QED
      BY <1>3, <1>4, <2>2, <3>6, <3>7 DEF ApInv, LinkInv
  <2> QED BY <2>3, <2>4
<1> QED BY <1>5, <1>6

\* Message 3/4 is the first for its ANonce, and no later message 1/4 is.
LEMMA ApOffersStep ==
    ASSUME AgreeInv, UNCHANGED staVars, NEW m \in toAp, ApOffers(m)
    PROVE  AgreeInv'
<1> USE DEF AgreeInv, TypeInv
<1> DEFINE h == Msg3of4(rc + 1, m.mic, TRUE, -1, Kdes)
<1>1. /\ toAp' = toAp /\ joined' = joined /\ toSta' = toSta \cup {h}
      /\ rc' = rc + 1 /\ ANonce' = ANonce /\ PTK' = m.mic
      /\ ap_installs' = ap_installs
      /\ Negotiating /\ wpa_ptk_state' = "PTKINITNEGOTIATING"
      /\ rc \in Nat /\ ANonce \in 0..MaxAnonce /\ m.type = "M2"
  BY DEF ApOffers, ApTypes
<1>2. m.mic \in Ptks /\ m.mic.an = ANonce /\ m.mic # NoKey
  BY <1>1, NoKeyAssumption DEF LinkInv, ReplyInv, ApOffers
<1>3. rc + 1 \in Nat
  BY <1>1
<1>4. Frame(h) /\ h.mic = m.mic /\ h.rc = rc + 1 /\ h.nonce = m.mic.an
  BY <1>2, <1>3, Msg3Frame, Zenon
<1> HIDE DEF h
<1>5. Frame(h) /\ h.mic # NoKey /\ h.rc = rc + 1 /\ h.nonce = ANonce
  BY <1>2, <1>4
<1>6. StaTypes' /\ StaInv' /\ ReplyInv' /\ ConfirmInv'
  BY <1>1, ApKeepsSta, ApKeepsLink
<1>7. ApTypes' /\ NonceInv'
  BY <1>1, <1>2 DEF ApTypes, ApInv, NonceInv, Negotiating
<1>8. GoneInv' /\ DoneInv' /\ AwaitInv'
  BY <1>1 DEF GoneInv, DoneInv, AwaitInv, AwaitsReply
<1>9. FrameInv' /\ CounterInv' /\ OrderInv'
  BY <1>1, <1>5, NoncesAssumption, SendKeeps DEF ApInv, Negotiating
<1>10. PrevInv'
  <2> SUFFICES ASSUME NEW f \in toSta', f.mic = NoKey,
                      f.rc \in prev_key_replay'
               PROVE  f.nonce = ANonce
    BY <1>1 DEF PrevInv
  <2>1. PICK g \in toSta : /\ g.mic = NoKey /\ g.rc = m.rc
                           /\ g.nonce = ANonce
    BY <1>1, <1>2 DEF LinkInv, ReplyInv
  <2>2. f \in toSta /\ f.rc > g.rc
    BY <1>1, <1>5, <2>1 DEF ApOffers
  <2>3. /\ f.nonce <= ANonce /\ f.nonce \in Nat /\ f.rc \in Nat
        /\ g.rc \in Nat
    BY <2>1, <2>2 DEF ApInv, FrameInv, Frame
  <2>4. g.nonce <= f.nonce
    BY <2>1, <2>2, <2>3 DEF ApInv, OrderInv, Ordered
  <2> QED BY <1>1, <2>1, <2>3, <2>4
<1> QED
  BY <1>6, <1>7, <1>8, <1>9, <1>10 DEF ApInv, LinkInv

LEMMA ApRefusesStep ==
    ASSUME AgreeInv, UNCHANGED staVars, ApRefuses
    PROVE  AgreeInv'
<1> USE DEF AgreeInv, TypeInv
<1>1. /\ toAp' = toAp /\ toSta' = toSta /\ joined' = joined
      /\ rc' = rc /\ ANonce' = ANonce /\ PTK' = PTK
      /\ ap_installs' = ap_installs
      /\ AwaitsReply /\ wpa_ptk_state' = "PTKCALCNEGOTIATING"
  BY DEF ApRefuses
<1>2. StaTypes' /\ StaInv' /\ ReplyInv' /\ ConfirmInv'
  BY <1>1, ApKeepsSta, ApKeepsLink
<1>3. ApTypes' /\ NonceInv'
  BY <1>1 DEF ApTypes, ApInv, NonceInv, Negotiating, AwaitsReply
<1>4. FrameInv' /\ CounterInv' /\ OrderInv'
  BY <1>1 DEF ApInv, FrameInv, CounterInv, OrderInv, AwaitsReply
<1>5. AwaitInv' /\ PrevInv' /\ GoneInv' /\ DoneInv'
  BY <1>1 DEF ApInv, AwaitInv, PrevInv, GoneInv, DoneInv
<1> QED
  BY <1>2, <1>3, <1>4, <1>5 DEF ApInv, LinkInv

LEMMA ApFinishesStep ==
    ASSUME AgreeInv, UNCHANGED staVars, NEW m \in toAp, ApFinishes(m)
    PROVE  AgreeInv'
<1> USE DEF AgreeInv, TypeInv
<1>1. /\ toAp' = toAp /\ toSta' = toSta /\ joined' = joined
      /\ rc' = rc /\ ANonce' = ANonce /\ PTK' = m.mic
      /\ ap_drvPtk' = m.mic
      /\ ap_installs' = [ap_installs EXCEPT ![m.mic] = @ + 1]
      /\ Negotiating /\ wpa_ptk_state' = "PTKINITDONE"
      /\ m.type = "M4" /\ m.mic.an = ANonce
  BY DEF ApFinishes
<1>2. m.mic \in Ptks /\ m.mic # NoKey
  BY <1>1, NoKeyAssumption DEF LinkInv, ConfirmInv
<1>3. StaTypes' /\ StaInv' /\ ReplyInv' /\ ConfirmInv'
  BY <1>1, ApKeepsSta, ApKeepsLink
<1>4. ApTypes'
  BY <1>1, <1>2 DEF ApTypes
<1>5. NonceInv'
  <2>1. ASSUME NEW p \in Ptks, ap_installs'[p] > 0
        PROVE  p.an < ANonce \/ p.an = ANonce
    BY <1>1, <1>2, <2>1 DEF ApTypes, ApInv, NonceInv
  <2> QED BY <1>1, <1>2, <2>1 DEF NonceInv, Negotiating
<1>6. FrameInv' /\ CounterInv' /\ OrderInv'
  BY <1>1 DEF ApInv, FrameInv, CounterInv, OrderInv, Negotiating
<1>7. AwaitInv' /\ PrevInv' /\ GoneInv'
  BY <1>1 DEF AwaitInv, AwaitsReply, PrevInv, GoneInv
<1>8. DoneInv'
  BY <1>1, <1>2 DEF DoneInv
<1> QED
  BY <1>3, <1>4, <1>5, <1>6, <1>7, <1>8 DEF ApInv, LinkInv

LEMMA ApStepKeeps ==
    ASSUME AgreeInv, UNCHANGED staVars, ApStep PROVE AgreeInv'
BY ApQuietStep, ApRekeysStep, ApJoinsStep, ApResendsStep, ApOffersStep,
   ApRefusesStep, ApFinishesStep DEF ApStep

-----------------------------------------------------------------------------
(* The invariant of the specification.                                     *)

LEMMA InitAgrees == Init => AgreeInv
<1> SUFFICES ASSUME Init PROVE AgreeInv
  OBVIOUS
<1>1. /\ wpa_state = "DISCONNECTED" /\ snonce = 0 /\ tptk = NoKey
      /\ ptk = NoKey /\ rx_replay_counter = -1 /\ drvTx = -1
      /\ drvPtk = [i \in {0, 1} |-> NoKey]
      /\ installs = [p \in Ptks |-> 0]
  BY DEF Init, Sta!Init, Sta!NoDrvPtk, Sta!Ptks, Ptks
<1>2. /\ wpa_ptk_state = "NONE" /\ ANonce = 0 /\ PTK = NoKey /\ rc = 0
      /\ rekey_timer = FALSE /\ ap_installs = [p \in Ptks |-> 0]
      /\ toSta = {} /\ toAp = {} /\ joined = FALSE
  BY DEF Init, Ap!Init, Ap!Ptks, Ptks
<1>3. TypeInv
  BY <1>1, <1>2, NoncesAssumption, BoundsAssumption
     DEF TypeInv, StaTypes, ApTypes
<1>4. ApInv
  BY <1>2 DEF ApInv, FrameInv, CounterInv, OrderInv, Ordered, AwaitInv,
     AwaitsReply, PrevInv, GoneInv, NonceInv, Negotiating
<1>5. SessionInv /\ DriverInv /\ ConfirmedInv
  BY <1>1, <1>2 DEF SessionInv, DriverInv, ConfirmedInv, InSession
<1>6. FreshInv
  BY <1>1, NoKeyAssumption DEF FreshInv
<1>7. LinkInv
  BY <1>2 DEF LinkInv, ReplyInv, ConfirmInv, DoneInv
<1> QED BY <1>3, <1>4, <1>5, <1>6, <1>7 DEF AgreeInv, StaInv

LEMMA StutterAgrees == ASSUME AgreeInv, UNCHANGED vars PROVE AgreeInv'
<1>1. UNCHANGED <<staSession, wpa_ptk_state, ANonce, PTK, rc, rekey_timer,
                  prev_key_replay, ap_drvPtk, ap_installs, toSta, toAp,
                  joined>>
  BY DEF vars, staVars, apVars, staSession
<1>2. TypeInv'
  BY <1>1 DEF AgreeInv, TypeInv, StaTypes, ApTypes, staSession
<1>3. ApInv'
  BY <1>1 DEF AgreeInv, ApInv, FrameInv, CounterInv, OrderInv, AwaitInv,
     AwaitsReply, PrevInv, GoneInv, NonceInv, Negotiating
<1>4. StaInv'
  BY <1>1 DEF AgreeInv, StaInv, SessionInv, DriverInv, ConfirmedInv,
     FreshInv, InSession, staSession
<1>5. LinkInv'
  BY <1>1 DEF AgreeInv, LinkInv, ReplyInv, ConfirmInv, DoneInv, staSession
<1> QED BY <1>2, <1>3, <1>4, <1>5 DEF AgreeInv

\* A step is a step of one side, seen through what it does to the keys.
LEMMA NextEffect ==
    ASSUME LateFrames = FALSE, AgreeInv, Next
    PROVE  (StaStep /\ StaSends) \/ (ApStep /\ UNCHANGED staVars)
BY StaEffect, ApEffect DEF Next, StaActs, ApActs, AgreeInv, TypeInv, ApInv,
   LinkInv

LEMMA NextAgrees ==
    ASSUME LateFrames = FALSE, AgreeInv, [Next]_vars PROVE AgreeInv'
BY NextEffect, StaStepKeeps, ApStepKeeps, StutterAgrees

\* A Supplicant that has confirmed a key made from the latest ANonce uses it.
LEMMA LatestKey ==
    ASSUME AgreeInv, InSession, NEW m \in toAp, m.type = "M4",
           m.mic.an = ANonce
    PROVE  ptk = m.mic /\ drvTx = 0 /\ drvPtk[0] = ptk
<1>1. ptk # NoKey /\ (ptk = m.mic \/ m.mic.an < ptk.an)
  BY DEF AgreeInv, StaInv, ConfirmedInv
<1>2. PICK n \in toAp : n.type = "M4" /\ n.mic = ptk
  BY <1>1 DEF AgreeInv, StaInv, DriverInv
<1>3. PICK g \in toSta : g.mic = ptk
  BY <1>2 DEF AgreeInv, LinkInv, ConfirmInv
<1>4. ptk.an = g.nonce /\ g.nonce <= ANonce /\ g.nonce \in Nat
  BY <1>1, <1>3 DEF AgreeInv, ApInv, FrameInv, Frame
<1>5. ANonce \in Nat
  BY NoncesAssumption DEF AgreeInv, TypeInv, ApTypes
<1>6. ptk = m.mic
  BY <1>1, <1>4, <1>5
<1> QED BY <1>1, <1>6 DEF AgreeInv, StaInv, DriverInv

\* Whatever was lost, repeated or reordered, two sides that have both
\* finished (PTKINITDONE and WPA_COMPLETED) use the same pairwise key, in the
\* state machines and in the drivers, when the frames of an association are
\* not delivered in the next one.
THEOREM KeysAgree ==
    ASSUME LateFrames = FALSE PROVE Spec => []SessionKeysAgree
<1>1. AgreeInv => SessionKeysAgree
  <2> SUFFICES ASSUME AgreeInv, wpa_ptk_state = "PTKINITDONE",
                      wpa_state = "COMPLETED"
               PROVE  PTK = ptk /\ drvTx = 0 /\ drvPtk[0] = ap_drvPtk
    BY DEF SessionKeysAgree
  <2>1. InSession /\ joined
    BY DEF InSession, AgreeInv, StaInv, SessionInv
  <2>2. PICK m \in toAp : m.type = "M4" /\ m.mic = PTK
    BY <2>1 DEF AgreeInv, LinkInv, DoneInv
  <2>3. PTK.an = ANonce /\ ap_drvPtk = PTK
    BY <2>1 DEF AgreeInv, LinkInv, DoneInv, ApInv, NonceInv
  <2> QED BY <2>1, <2>2, <2>3, LatestKey
<1> QED
  BY <1>1, InitAgrees, NextAgrees, PTL DEF Spec

-----------------------------------------------------------------------------
(* The refinement of KeyAgreement.                                         *)

StaKey == IF drvTx = -1 THEN NoKey ELSE drvPtk[drvTx]

LEMMA StaStepRefines ==
    ASSUME AgreeInv, StaStep, StaSends
    PROVE  [Agreement!Next]_(Agreement!vars)
<1> USE DEF Agreement!vars, Agreement!staVars, Agreement!apVars
<1>1. ap_drvPtk' = ap_drvPtk /\ ap_installs' = ap_installs
  BY DEF StaSends, apVars
<1>2. CASE StaLeaves \/ StaStarts
  <2>1. Agreement!StaDrop
    BY <1>1, <1>2 DEF Agreement!StaDrop, StaLeaves, StaStarts
  <2> QED BY <2>1 DEF Agreement!Next
<1>3. CASE UNCHANGED <<drvPtk, drvTx, installs>>
  BY <1>1, <1>3
<1>4. ASSUME NEW f \in toSta, StaConfirms(f),
             ~UNCHANGED <<drvPtk, drvTx, installs>>
      PROVE  Agreement!Next
  <2>1. /\ drvPtk' = [drvPtk EXCEPT ![0] = f.mic] /\ drvTx' = 0
        /\ installs' = [installs EXCEPT ![f.mic] = @ + 1]
        /\ ~(f.mic # tptk /\ ptk_installed)
        /\ f.mic # NoKey /\ f.mic \in {tptk, ptk} /\ InSession
    BY <1>4 DEF StaConfirms
  <2>2. f.mic \in Ptks
    BY <2>1 DEF AgreeInv, TypeInv, StaTypes
  <2>3. f.mic = tptk
    BY <2>1 DEF AgreeInv, StaInv, DriverInv
  <2>4. installs[f.mic] \in Nat /\ ~(installs[f.mic] > 0)
    <3>1. snonce \in Int /\ f.mic.sn = snonce /\ tptk # NoKey
      BY <2>1, <2>3, BoundsAssumption
         DEF AgreeInv, TypeInv, StaTypes, StaInv, FreshInv
    <3> QED
      BY <2>2, <3>1 DEF AgreeInv, TypeInv, StaTypes, StaInv, FreshInv
  <2>5. installs[f.mic] = 0
    BY <2>4
  <2>6. drvTx' # -1 /\ drvPtk'[drvTx'] = f.mic
    BY <2>1 DEF AgreeInv, TypeInv, StaTypes
  <2>7. Agreement!StaInstall(f.mic)
    BY <1>1, <2>1, <2>5, <2>6 DEF Agreement!StaInstall
  <2> QED BY <2>2, <2>7 DEF Agreement!Next
<1> QED
  BY <1>2, <1>3, <1>4 DEF StaStep, StaKeeps, staSession, StaJoins, StaReplies

LEMMA ApStepRefines ==
    ASSUME AgreeInv, ApStep, UNCHANGED staVars
    PROVE  [Agreement!Next]_(Agreement!vars)
<1> USE DEF Agreement!vars, Agreement!staVars, Agreement!apVars
<1>1. drvPtk' = drvPtk /\ drvTx' = drvTx /\ installs' = installs
  BY ApSame
<1>2. CASE ap_drvPtk' \in {ap_drvPtk, NoKey} /\ ap_installs' = ap_installs
  <2>1. CASE ap_drvPtk' = ap_drvPtk
    BY <1>1, <1>2, <2>1
  <2>2. CASE ap_drvPtk' = NoKey
    <3>1. Agreement!ApDrop
      BY <1>1, <1>2, <2>2 DEF Agreement!ApDrop
    <3> QED BY <3>1 DEF Agreement!Next
  <2> QED BY <1>2, <2>1, <2>2
<1>3. ASSUME NEW m \in toAp, ApFinishes(m)
      PROVE  Agreement!Next
  <2>1. /\ ap_drvPtk' = m.mic
        /\ ap_installs' = [ap_installs EXCEPT ![m.mic] = @ + 1]
        /\ m.type = "M4" /\ m.mic.an = ANonce /\ Negotiating
    BY <1>3 DEF ApFinishes
  <2>2. m.mic \in Ptks /\ installs[m.mic] = 1
    BY <2>1 DEF AgreeInv, LinkInv, ConfirmInv
  <2>3. ap_installs[m.mic] = 0
    <3>1. ap_installs[m.mic] \in Nat /\ ANonce \in Nat
      BY <2>2, NoncesAssumption DEF AgreeInv, TypeInv, ApTypes
    <3>2. ~(ap_installs[m.mic] > 0)
      BY <2>1, <2>2, <3>1 DEF AgreeInv, ApInv, NonceInv
    <3> QED BY <3>1, <3>2
  <2>4. StaKey \in {m.mic, NoKey}
    <3>1. CASE InSession
      BY <2>1, <3>1, LatestKey DEF StaKey
    <3>2. CASE ~InSession
      BY <3>2 DEF AgreeInv, StaInv, SessionInv, StaKey
    <3> QED BY <3>1, <3>2
  <2>5. Agreement!ApInstall(m.mic)
    BY <1>1, <2>1, <2>2, <2>3, <2>4 DEF Agreement!ApInstall, StaKey
  <2> QED BY <2>2, <2>5 DEF Agreement!Next
<1>4. ApKeeps \/ ApForgets \/ ApStops \/ ApRekeys \/ ApJoins \/ ApResends
         \/ ApRefuses \/ (\E m \in toAp : ApOffers(m)) =>
      ap_drvPtk' \in {ap_drvPtk, NoKey} /\ ap_installs' = ap_installs
  BY DEF ApKeeps, ApForgets, ApStops, ApRekeys, ApJoins, ApBegins, ApResends,
     ApRefuses, ApOffers
<1> QED
  BY <1>2, <1>3, <1>4 DEF ApStep

\* The two state machines implement KeyAgreement when the frames of an
\* association are not delivered in the next one: PTKINITDONE installs only a
\* PTK that wpa_supplicant_install_ptk() installed before and did not replace
\* since, and neither side installs a PTK twice.
THEOREM Refines ==
    ASSUME LateFrames = FALSE PROVE Spec => ImplementsAgreement
<1>1. Init => Agreement!Init
  BY DEF Init, Sta!Init, Ap!Init, Sta!Ptks, Ap!Ptks, Ptks, Agreement!Init
<1>2. ASSUME AgreeInv, [Next]_vars PROVE [Agreement!Next]_(Agreement!vars)
  <2>1. CASE UNCHANGED vars
    BY <2>1 DEF vars, staVars, apVars, Agreement!vars, Agreement!staVars,
       Agreement!apVars
  <2>2. CASE Next
    BY <1>2, <2>2, NextEffect, StaStepRefines, ApStepRefines
  <2> QED BY <1>2, <2>1, <2>2
<1> QED
  BY <1>1, <1>2, InitAgrees, NextAgrees, PTL
     DEF Spec, ImplementsAgreement, Agreement!Spec
=============================================================================
