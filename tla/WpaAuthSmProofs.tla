-------------------------- MODULE WpaAuthSmProofs --------------------------
(***************************************************************************)
(* What holds of the Authenticator's PTK state machine for every set of    *)
(* frames the environment may deliver, every number of handshakes and      *)
(* every configuration.                                                    *)
(***************************************************************************)
EXTENDS WpaAuthSm, TLAPS

USE BoundsAssumption, NonceAssumption

-----------------------------------------------------------------------------
(* Types.                                                                  *)

LEMMA PtkFields ==
    ASSUME NEW p \in Ptks PROVE p.an \in 1..MaxAnonce /\ p.sn \in 1..MaxSnonce
BY DEF Ptks

LEMMA LimitType == PairwiseUpdateCount \in Nat \ {0}
BY AuthConfigAssumption

LEMMA Msg1Type ==
    ASSUME NEW c \in 0..MaxRc, NEW an \in ANonces
    PROVE  Msg1of4(c, an) \in ApFrames
<1>1. NoKde \in KeyData
  BY DEF NoKde, KeyData
<1> QED BY <1>1 DEF Msg1of4, ApFrames

LEMMA Msg3Type ==
    ASSUME NEW c \in 0..MaxRc, NEW p \in Ptks
    PROVE  Msg3of4(c, p, TRUE, -1, GroupKdes) \in ApFrames
BY AuthConfigAssumption, PtkFields DEF Msg3of4, ApFrames

LEMMA FrameFields ==
    ASSUME NEW f \in Frames
    PROVE  /\ f.rc \in Nat /\ f.nonce \in 0..MaxSnonce
           /\ f.mic \in Ptks \cup {NoKey}
BY StaFramesAssumption DEF StaFrames

\* The send operators keep the replay counters and the frames typed.
LEMMA SendType ==
    ASSUME NEW last \in 0..MaxRc, NEW valid \in SUBSET (1..MaxRc),
           NEW frames, Send(last, valid, frames),
           last + 1 \in 0..MaxRc => frames \subseteq ApFrames
    PROVE  /\ rc' \in 0..MaxRc /\ key_replay' \subseteq 1..MaxRc
           /\ tx' \subseteq ApFrames
<1>1. last + 1 \in 0..MaxRc /\ last + 1 \in 1..MaxRc
  BY DEF Send
<1>2. key_replay' \subseteq valid \cup {last + 1}
  BY DEF Send
<1>3. rc' = last + 1 /\ tx' = frames
  BY DEF Send
<1> QED BY <1>1, <1>2, <1>3

LEMMA Send1Type ==
    ASSUME NEW last \in 0..MaxRc, NEW valid \in SUBSET (1..MaxRc),
           NEW an \in ANonces, Send1of4(last, valid, an)
    PROVE  /\ rc' \in 0..MaxRc /\ key_replay' \subseteq 1..MaxRc
           /\ tx' \subseteq ApFrames
BY SendType, Msg1Type DEF Send1of4

LEMMA Send3Type ==
    ASSUME NEW last \in 0..MaxRc, NEW valid \in SUBSET (1..MaxRc),
           NEW p \in Ptks \cup {NoKey}, Send3of4(last, valid, p)
    PROVE  /\ rc' \in 0..MaxRc /\ key_replay' \subseteq 1..MaxRc
           /\ tx' \subseteq ApFrames
<1>1. last + 1 \in 0..MaxRc =>
        (IF p = NoKey THEN {}
         ELSE {Msg3of4(last + 1, p, TRUE, -1, GroupKdes)}) \subseteq ApFrames
  BY Msg3Type, NoKeyAssumption
<1> QED BY <1>1, SendType DEF Send3of4

LEMMA StartType ==
    ASSUME TypeData, NEW last \in 0..MaxRc, NEW valid \in SUBSET (1..MaxRc),
           Start(last, valid)
    PROVE  /\ rc' \in 0..MaxRc /\ key_replay' \subseteq 1..MaxRc
           /\ tx' \subseteq ApFrames
           /\ wpa_ptk_state' = "PTKSTART" /\ alt' = {} /\ PTK' = NoKey
           /\ ANonce' = ANonce + 1 /\ ANonce' \in 0..MaxAnonce
           /\ TimeoutCtr' = 1 /\ TimeoutCtr' \in 0..PairwiseUpdateCount
<1>1. ANonce + 1 \in ANonces
  BY DEF Start, TypeData
<1>2. Send1of4(last, valid, ANonce + 1)
  BY DEF Start
<1>3. 1 \in 0..PairwiseUpdateCount
  BY LimitType
<1>4. /\ rc' \in 0..MaxRc /\ key_replay' \subseteq 1..MaxRc
      /\ tx' \subseteq ApFrames
  BY <1>1, <1>2, Send1Type
<1> QED BY <1>1, <1>3, <1>4 DEF Start

LEMMA InitType == Init => TypeData
BY LimitType DEF Init, TypeData

LEMMA InitializeFacts ==
    ASSUME Initialize
    PROVE  /\ wpa_ptk_state' = "INITIALIZE" /\ PTK' = NoKey
           /\ drvPtk' = NoKey /\ TimeoutCtr' = 0 /\ tx' = {}
BY DEF Initialize, RemovePtk

LEMMA RequestNewPtkType ==
    ASSUME TypeData, NEW tm \in Nat, RequestNewPtk(tm), UNCHANGED prev_key_replay,
           SNonce' \in 0..MaxSnonce, req_replay_counter' \in Int
    PROVE  TypeData'
<1>1. CASE DenyPtk0Rekey
  <2>1. /\ Initialize /\ timers' = tm
        /\ UNCHANGED <<ANonce, alt, rc, key_replay, installs>>
    BY <1>1 DEF RequestNewPtk
  <2> QED BY <2>1, InitializeFacts, LimitType DEF TypeData
<1>2. CASE ~DenyPtk0Rekey
  <2>1. rc \in 0..MaxRc /\ key_replay \in SUBSET (1..MaxRc)
    BY DEF TypeData
  <2>2. Start(rc, key_replay)
    BY <1>2 DEF RequestNewPtk
  <2> QED BY <1>2, <2>1, <2>2, StartType DEF RequestNewPtk, TypeData
<1> QED BY <1>1, <1>2

\* What a retransmission of message 1/4 needs: a handshake has an ANonce.
NonceDrawn == Negotiating => ANonce > 0

LEMMA NextType == TypeData /\ NonceDrawn /\ [Next]_vars => TypeData'
<1> SUFFICES ASSUME TypeData, NonceDrawn, [Next]_vars PROVE TypeData'
  OBVIOUS
<1>0. rc \in 0..MaxRc /\ key_replay \in SUBSET (1..MaxRc) /\ timers \in Nat
  BY DEF TypeData
<1>1. CASE Associate
  <2>1. Start(0, {}) /\ 0 \in 0..MaxRc
    BY <1>1 DEF Associate
  <2> QED BY <1>1, <2>1, StartType DEF Associate, RemovePtk, TypeData
<1>2. CASE AssociateAgain
  <2>1. Start(0, {}) /\ 0 \in 0..MaxRc
    BY <1>2 DEF AssociateAgain
  <2> QED BY <1>2, <2>1, StartType DEF AssociateAgain, RemovePtk, TypeData
<1>3. CASE Reassociate
  <2>1. CASE DenyPtk0Rekey
    <3>1. Initialize /\ UNCHANGED <<ANonce, alt, rc, key_replay, timers>>
      BY <1>3, <2>1 DEF Reassociate
    <3>2. UNCHANGED <<SNonce, prev_key_replay, req_replay_counter, installs>>
      BY <1>3, <2>1 DEF Reassociate
    <3> QED BY <3>1, <3>2, InitializeFacts, LimitType DEF TypeData
  <2>2. CASE ~DenyPtk0Rekey
    <3>1. Start(rc, key_replay)
      BY <1>3, <2>2 DEF Reassociate
    <3> QED BY <1>0, <1>3, <2>2, <3>1, StartType
               DEF Reassociate, RemovePtk, TypeData
  <2> QED BY <2>1, <2>2
<1>4. CASE AuthEvent
  BY <1>4 DEF AuthEvent, RemovePtk, TypeData, nonceVars, replayVars, timerVars
<1>5. CASE Disassoc
  BY <1>5, LimitType
     DEF Disassoc, Initialize, RemovePtk, TypeData, nonceVars, replayVars
<1>6. CASE StaDeinit
  BY <1>6, LimitType DEF StaDeinit, RemovePtk, TypeData
<1>7. CASE RekeyPtk
  BY <1>0, <1>7, RequestNewPtkType DEF RekeyPtk, TypeData
<1>8. ASSUME NEW f \in Frames, NEW fault \in Faults, Rx2of4(f, fault)
      PROVE  TypeData'
  <2>1. f.nonce \in 0..MaxSnonce /\ f.mic \in Ptks \cup {NoKey}
    BY FrameFields
  <2>2. PTK' \in Ptks \cup {NoKey}
    BY <1>8, <2>1 DEF Rx2of4, Derived, Ptks, TypeData
  <2>3. PICK p \in Ptks \cup {NoKey} : Send3of4(rc, {}, p)
    BY <1>8, <2>2 DEF Rx2of4
  <2>4. /\ rc' \in 0..MaxRc /\ key_replay' \subseteq 1..MaxRc
        /\ tx' \subseteq ApFrames
    BY <1>0, <2>3, Send3Type
  <2>5. alt' \subseteq [sn : 0..MaxSnonce, rc : 0..MaxRc]
    BY <1>8 DEF Rx2of4, AltAfter, TypeData
  <2>6. 1 \in 0..PairwiseUpdateCount
    BY LimitType
  <2> QED BY <1>8, <2>1, <2>2, <2>4, <2>5, <2>6
             DEF Rx2of4, Accepted2of4, TypeData, drvVars
<1>9. ASSUME NEW f \in Frames, NEW fault \in Faults, Rx2of4Bad(f, fault)
      PROVE  TypeData'
  <2>1. alt' \subseteq [sn : 0..MaxSnonce, rc : 0..MaxRc]
    BY <1>9 DEF Rx2of4Bad, AltAfter, TypeData
  <2> QED BY <1>9, <2>1, FrameFields
             DEF Rx2of4Bad, Accepted2of4, TypeData, timerVars, drvVars
<1>10. ASSUME NEW f \in Frames, NEW fault \in Faults, Rx2of4Mismatch(f, fault)
       PROVE  TypeData'
  <2>1. alt' \subseteq [sn : 0..MaxSnonce, rc : 0..MaxRc]
    BY <1>10 DEF Rx2of4Mismatch, AltAfter, TypeData
  <2>2. timers' \in Nat
    BY <1>0, <1>10 DEF Rx2of4Mismatch
  <2>3. prev_key_replay' \subseteq 1..MaxRc
    BY <1>0, <1>10 DEF Rx2of4Mismatch, Accepted2of4
  <2>4. /\ Initialize /\ SNonce' = f.nonce /\ key_replay' = {}
        /\ UNCHANGED <<ANonce, rc, req_replay_counter, installs>>
    BY <1>10 DEF Rx2of4Mismatch
  <2> QED BY <2>1, <2>2, <2>3, <2>4, FrameFields, InitializeFacts, LimitType
             DEF TypeData
<1>11. ASSUME NEW f \in Frames, Rx4of4(f) PROVE TypeData'
  <2>1. f.mic \in Ptks
    BY <1>11, FrameFields, NoKeyAssumption
       DEF Rx4of4, Is4of4, TypeData, Ptks
  <2>2. installs' \in [Ptks -> Nat]
    BY <1>11, <2>1 DEF Rx4of4, TypeData
  <2>3. alt' \subseteq [sn : 0..MaxSnonce, rc : 0..MaxRc]
    BY <1>11 DEF Rx4of4, Accepted4of4, TypeData
  <2> QED BY <1>11, <2>1, <2>2, <2>3, FrameFields, LimitType
             DEF Rx4of4, Accepted4of4, TypeData
<1>12. ASSUME NEW f \in Frames, NEW fault \in Faults, Rx4of4Fail(f, fault)
       PROVE  TypeData'
  <2>1. alt' \subseteq [sn : 0..MaxSnonce, rc : 0..MaxRc]
    BY <1>12 DEF Rx4of4Fail, Accepted4of4, TypeData
  <2> QED BY <1>12, <2>1, FrameFields, LimitType
             DEF Rx4of4Fail, Accepted4of4, Initialize, RemovePtk, TypeData
<1>13. ASSUME NEW f \in Frames, RxPtkRequest(f) PROVE TypeData'
  <2>2. f.rc \in Int
    BY FrameFields
  <2> QED BY <1>13, <2>2, RequestNewPtkType, FrameFields
             DEF RxPtkRequest
<1>14. ASSUME NEW f \in Frames, RxGtkRequest(f) PROVE TypeData'
  <2>0. f.rc \in Int /\ f.nonce \in 0..MaxSnonce
    BY FrameFields
  <2>1. CASE wpa_ptk_state = "PTKCALCNEGOTIATING"
    <3>1. Send3of4(rc, key_replay, PTK) /\ PTK \in Ptks \cup {NoKey}
      BY <1>14, <2>1 DEF RxGtkRequest, TypeData
    <3>2. /\ rc' \in 0..MaxRc /\ key_replay' \subseteq 1..MaxRc
          /\ tx' \subseteq ApFrames
      BY <1>0, <3>1, Send3Type
    <3>3. 1 \in 0..PairwiseUpdateCount
      BY LimitType
    <3> QED BY <1>14, <2>0, <2>1, <3>2, <3>3
               DEF RxGtkRequest, TypeData, drvVars
  <2>2. CASE wpa_ptk_state # "PTKCALCNEGOTIATING"
    <3>1. /\ timers' = 0 /\ tx' = {}
          /\ UNCHANGED <<wpa_ptk_state, rc, key_replay, TimeoutCtr>>
      BY <1>14, <2>2 DEF RxGtkRequest
    <3>2. /\ req_replay_counter' = f.rc /\ SNonce' = f.nonce
          /\ UNCHANGED <<ANonce, alt, PTK, prev_key_replay, drvPtk, installs>>
      BY <1>14 DEF RxGtkRequest, drvVars
    <3> QED BY <2>0, <3>1, <3>2 DEF TypeData
  <2> QED BY <2>1, <2>2
<1>15. CASE TimeoutResend
  <2>1. TimeoutCtr' \in 0..PairwiseUpdateCount
    BY <1>15, LimitType DEF TimeoutResend, LastTry, TypeData
  <2>2. CASE wpa_ptk_state \in {"PTKSTART", "PTKCALCNEGOTIATING"}
    <3>1. /\ Send1of4(rc, key_replay, ANonce)
          /\ wpa_ptk_state' = "PTKSTART" /\ alt' = {}
      BY <1>15, <2>2 DEF TimeoutResend
    <3>2. /\ rc' \in 0..MaxRc /\ key_replay' \subseteq 1..MaxRc
          /\ tx' \subseteq ApFrames
      <4>1. ANonce \in ANonces
        BY <2>2 DEF NonceDrawn, Negotiating, TypeData
      <4> QED BY <1>0, <3>1, <4>1, Send1Type
    <3> QED BY <1>15, <2>1, <3>1, <3>2 DEF TimeoutResend, TypeData, drvVars
  <2>3. CASE wpa_ptk_state = "PTKINITNEGOTIATING"
    <3>1. /\ Send3of4(rc, key_replay, PTK) /\ PTK \in Ptks \cup {NoKey}
          /\ UNCHANGED <<wpa_ptk_state, alt>>
      BY <1>15, <2>3 DEF TimeoutResend, TypeData
    <3>2. /\ rc' \in 0..MaxRc /\ key_replay' \subseteq 1..MaxRc
          /\ tx' \subseteq ApFrames
      BY <1>0, <3>1, Send3Type
    <3> QED BY <1>15, <2>1, <3>1, <3>2 DEF TimeoutResend, TypeData, drvVars
  <2> QED BY <1>15, <2>2, <2>3 DEF TimeoutResend
<1>16. CASE TimeoutLast
  BY <1>0, <1>16, LimitType
     DEF TimeoutLast, Initialize, RemovePtk, TypeData, replayVars
<1>17. CASE TimeoutIdle
  BY <1>0, <1>17
     DEF TimeoutIdle, TypeData, nonceVars, replayVars, drvVars
<1>18. CASE UNCHANGED vars
  BY <1>18 DEF vars, nonceVars, replayVars, timerVars, drvVars, TypeData
<1> QED
  BY <1>1, <1>2, <1>3, <1>4, <1>5, <1>6, <1>7, <1>8, <1>9, <1>10, <1>11,
     <1>12, <1>13, <1>14, <1>15, <1>16, <1>17, <1>18
     DEF Next, Receive, Local, Join, Timeout

LEMMA NextDrawn == TypeData /\ NonceDrawn /\ [Next]_vars => NonceDrawn'
<1> SUFFICES ASSUME TypeData, NonceDrawn, [Next]_vars PROVE NonceDrawn'
  OBVIOUS
<1>0. ANonce \in Nat
  BY DEF TypeData
<1>1. ASSUME NEW last, NEW valid, Start(last, valid) PROVE NonceDrawn'
  BY <1>0, <1>1 DEF Start, NonceDrawn
<1>2. ASSUME Initialize PROVE NonceDrawn'
  BY <1>2 DEF Initialize, NonceDrawn, Negotiating
<1>3. ASSUME NEW f, NEW fault \in Faults,
             Rx2of4(f, fault) \/ Rx2of4Bad(f, fault)
      PROVE  NonceDrawn'
  BY <1>3 DEF Rx2of4, Rx2of4Bad, Is2of4, IsAlt2of4, NonceDrawn, Negotiating
<1>4. ASSUME NEW f, Rx4of4(f) PROVE NonceDrawn'
  BY <1>4 DEF Rx4of4, NonceDrawn, Negotiating
<1>5. ASSUME NEW f, RxGtkRequest(f) PROVE NonceDrawn'
  BY <1>5 DEF RxGtkRequest, NonceDrawn, Negotiating
<1>6. CASE TimeoutResend
  BY <1>6 DEF TimeoutResend, NonceDrawn, Negotiating
<1>7. CASE AuthEvent \/ TimeoutIdle \/ UNCHANGED vars
  BY <1>7 DEF AuthEvent, TimeoutIdle, vars, nonceVars, NonceDrawn, Negotiating
<1>8. CASE StaDeinit
  BY <1>8 DEF StaDeinit, NonceDrawn, Negotiating
<1>9. ASSUME NEW tm, RequestNewPtk(tm) PROVE NonceDrawn'
  BY <1>1, <1>2, <1>9 DEF RequestNewPtk
<1>10. CASE Join
  BY <1>1, <1>2, <1>10 DEF Join, Associate, AssociateAgain, Reassociate
<1>11. CASE Local
  BY <1>2, <1>6, <1>7, <1>8, <1>9, <1>11
     DEF Local, Disassoc, RekeyPtk, Timeout, TimeoutLast
<1>12. ASSUME NEW f \in Frames, Receive(f) PROVE NonceDrawn'
  BY <1>2, <1>3, <1>4, <1>5, <1>9, <1>12
     DEF Receive, Rx2of4Mismatch, Rx4of4Fail, RxPtkRequest
<1> QED BY <1>7, <1>10, <1>11, <1>12 DEF Next

LEMMA NextFlags == TypeFlags /\ [Next]_vars => TypeFlags'
<1> SUFFICES ASSUME TypeFlags, [Next]_vars PROVE TypeFlags'
  OBVIOUS
<1>1. ASSUME NEW tm, RequestNewPtk(tm) PROVE portValid' \in BOOLEAN
  BY <1>1 DEF RequestNewPtk, Initialize, TypeFlags
<1>2. CASE Join
  BY <1>2 DEF Join, Associate, AssociateAgain, Reassociate, Initialize,
     RemovePtk, TypeFlags
<1>3. CASE Local
  BY <1>1, <1>3 DEF Local, AuthEvent, Disassoc, StaDeinit, RekeyPtk, Timeout,
     TimeoutResend, TimeoutLast, TimeoutIdle, Initialize, RemovePtk, drvVars,
     TypeFlags
<1>4. PtkRekey \in BOOLEAN
  BY AuthConfigAssumption
<1>5. ASSUME NEW f \in Frames, Receive(f) PROVE TypeFlags'
  BY <1>1, <1>4, <1>5 DEF Receive, Rx2of4, Rx2of4Bad, Rx2of4Mismatch, Rx4of4,
     Rx4of4Fail, RxPtkRequest, RxGtkRequest, Initialize, RemovePtk, drvVars,
     TypeFlags
<1> QED BY <1>2, <1>3, <1>5 DEF Next, vars, drvVars, TypeFlags

\* The variables of the state machine keep their types: in particular the
\* retry counter never passes wpa_pairwise_update_count, and every frame sent
\* is well-formed.
THEOREM AuthTypeCorrect == Spec => []TypeOK
<1>1. Init => TypeOK /\ NonceDrawn
  BY InitType DEF Init, TypeOK, TypeFlags, NonceDrawn, Negotiating
<1>2. TypeOK /\ NonceDrawn /\ [Next]_vars => (TypeOK /\ NonceDrawn)'
  BY NextType, NextDrawn, NextFlags DEF TypeOK
<1> QED BY <1>1, <1>2, PTL DEF Spec

-----------------------------------------------------------------------------
(* No reinstallation.                                                      *)

LEMMA InitNonce == Init => NonceInv
BY NoKeyAssumption DEF Init, NonceInv, NoReinstall

\* A step that starts a handshake makes every installed key older.
LEMMA StartNonce ==
    ASSUME TypeData, NonceInv, UNCHANGED installs,
           NEW last, NEW valid, Start(last, valid)
    PROVE  NonceInv'
<1>1. /\ ANonce \in Nat /\ ANonce' = ANonce + 1 /\ PTK' = NoKey
      /\ installs' = installs
  BY DEF Start, TypeData
<1>2. ASSUME NEW p \in Ptks, installs'[p] > 0 PROVE p.an < ANonce'
  <2>1. p.an \in Nat /\ Spent(p)
    BY <1>1, <1>2, PtkFields DEF NonceInv
  <2> QED BY <1>1, <2>1 DEF Spent
<1> QED BY <1>1, <1>2 DEF NonceInv, NoReinstall, Spent

\* So does nothing that leaves the nonce alone and installs nothing, unless
\* it would begin to negotiate.
LEMMA IdleNonce ==
    ASSUME NonceInv, UNCHANGED <<installs, ANonce>>,
           PTK' \in {PTK, NoKey}, Negotiating' => Negotiating
    PROVE  NonceInv'
BY DEF NonceInv, NoReinstall, Spent

LEMMA NextNonce == TypeData /\ NonceInv /\ [Next]_vars => NonceInv'
<1> SUFFICES ASSUME TypeData, NonceInv, [Next]_vars PROVE NonceInv'
  OBVIOUS
<1>1. ASSUME NEW tm, RequestNewPtk(tm) PROVE NonceInv'
  <2>1. CASE DenyPtk0Rekey
    BY <1>1, <2>1, IdleNonce DEF RequestNewPtk, Initialize, Negotiating
  <2>2. CASE ~DenyPtk0Rekey
    BY <1>1, <2>2, StartNonce DEF RequestNewPtk
  <2> QED BY <2>1, <2>2
<1>2. CASE Associate \/ AssociateAgain
  BY <1>2, StartNonce DEF Associate, AssociateAgain
<1>3. CASE Reassociate
  <2>1. CASE DenyPtk0Rekey
    BY <1>3, <2>1, IdleNonce DEF Reassociate, Initialize, Negotiating
  <2>2. CASE ~DenyPtk0Rekey
    BY <1>3, <2>2, StartNonce DEF Reassociate
  <2> QED BY <2>1, <2>2
<1>4. CASE AuthEvent \/ Disassoc \/ StaDeinit
  BY <1>4, IdleNonce DEF AuthEvent, Disassoc, StaDeinit, Initialize,
     Negotiating, nonceVars
<1>5. CASE Timeout
  BY <1>5, IdleNonce DEF Timeout, TimeoutResend, TimeoutLast, TimeoutIdle,
     Initialize, Negotiating, nonceVars, drvVars
<1>6. ASSUME NEW f \in Frames, NEW fault \in Faults, Rx2of4(f, fault)
      PROVE  NonceInv'
  <2>1. Negotiating /\ Negotiating' /\ UNCHANGED <<ANonce, installs>>
    BY <1>6 DEF Rx2of4, Is2of4, IsAlt2of4, Negotiating, drvVars
  <2>2. PTK' # NoKey => PTK'.an = ANonce
    BY <1>6 DEF Rx2of4, Derived, NonceInv
  <2> QED BY <2>1, <2>2 DEF NonceInv, NoReinstall, Spent
<1>7. ASSUME NEW f \in Frames, NEW fault \in Faults,
             Rx2of4Bad(f, fault) \/ Rx2of4Mismatch(f, fault)
                \/ Rx4of4Fail(f, fault)
      PROVE  NonceInv'
  BY <1>7, IdleNonce DEF Rx2of4Bad, Rx2of4Mismatch, Rx4of4Fail, Is2of4,
     IsAlt2of4, Accepted4of4, Initialize, Negotiating, drvVars
<1>8. ASSUME NEW f \in Frames, Rx4of4(f) PROVE NonceInv'
  <2>1. f.mic \in Ptks /\ f.mic.an = ANonce
    BY <1>8, FrameFields DEF Rx4of4, Is4of4, NonceInv
  <2>2. Negotiating /\ ~Negotiating'
    BY <1>8 DEF Rx4of4, Is4of4, Negotiating
  <2>3. installs[f.mic] = 0 /\ ANonce \in Nat
    BY <2>1, <2>2, PtkFields DEF NonceInv, Spent, TypeData
  <2>4. /\ installs' = [installs EXCEPT ![f.mic] = @ + 1]
        /\ ANonce' = ANonce /\ PTK' = f.mic
    BY <1>8 DEF Rx4of4, Accepted4of4
  <2>5. ASSUME NEW p \in Ptks PROVE installs'[p] <= 1
    BY <2>1, <2>3, <2>4 DEF NonceInv, NoReinstall, TypeData
  <2>6. ASSUME NEW p \in Ptks, installs'[p] > 0 PROVE Spent(p)'
    <3>1. CASE p = f.mic
      BY <2>1, <2>2, <2>4, <3>1 DEF Spent
    <3>2. CASE p # f.mic
      BY <2>1, <2>2, <2>4, <2>6, <3>2 DEF NonceInv, Spent, TypeData
    <3> QED BY <3>1, <3>2
  <2> QED BY <2>1, <2>4, <2>5, <2>6 DEF NonceInv, NoReinstall
<1>9. ASSUME NEW f \in Frames, RxGtkRequest(f) PROVE NonceInv'
  BY <1>9, IdleNonce DEF RxGtkRequest, Negotiating, drvVars
<1>10. CASE UNCHANGED vars
  BY <1>10, IdleNonce DEF vars, nonceVars, drvVars, Negotiating
<1> QED
  BY <1>1, <1>2, <1>3, <1>4, <1>5, <1>6, <1>7, <1>8, <1>9, <1>10
     DEF Next, Receive, Local, Join, RekeyPtk, RxPtkRequest

\* The Authenticator never gives a PTK to the driver twice (PTKINITDONE),
\* whatever messages are repeated, late or answered with another SNonce.
THEOREM AuthNeverReinstalled == Spec => []NoReinstall
<1>1. Init => TypeOK /\ NonceDrawn /\ NonceInv
  BY InitType, InitNonce DEF Init, TypeOK, TypeFlags, NonceDrawn, Negotiating
<1>2. TypeOK /\ NonceDrawn /\ NonceInv /\ [Next]_vars
        => (TypeOK /\ NonceDrawn /\ NonceInv)'
  BY NextType, NextDrawn, NextFlags, NextNonce DEF TypeOK
<1>3. NonceInv => NoReinstall
  BY DEF NonceInv
<1> QED BY <1>1, <1>2, <1>3, PTL DEF Spec

-----------------------------------------------------------------------------
(* Retransmission timers.                                                  *)

LEMMA NextTimer ==
    ASSUME TypeData, NegotiatingHasTimer, [Next]_vars
    PROVE  NegotiatingHasTimer'
<1>0. timers \in Nat
  BY DEF TypeData
<1>1. ASSUME NEW tm \in Nat, RequestNewPtk(tm) PROVE NegotiatingHasTimer'
  BY <1>1 DEF RequestNewPtk, Initialize, NegotiatingHasTimer, Negotiating, NoRequest
<1>2. CASE Join
  BY <1>0, <1>2 DEF Join, Associate, AssociateAgain, Reassociate, Initialize,
     NegotiatingHasTimer, Negotiating, NoRequest
<1>3. CASE AuthEvent \/ Disassoc \/ StaDeinit
  BY <1>3 DEF AuthEvent, Disassoc, StaDeinit, Initialize, timerVars,
     NegotiatingHasTimer, Negotiating, NoRequest
<1>4. CASE Timeout
  BY <1>0, <1>4 DEF Timeout, TimeoutResend, TimeoutLast, TimeoutIdle,
     Initialize, NegotiatingHasTimer, Negotiating, NoRequest
<1>5. ASSUME NEW f \in Frames, NEW fault \in Faults,
             Rx2of4(f, fault) \/ Rx2of4Bad(f, fault)
      PROVE  NegotiatingHasTimer'
  BY <1>5 DEF Rx2of4, Rx2of4Bad, Is2of4, IsAlt2of4, timerVars,
     NegotiatingHasTimer, Negotiating, NoRequest
<1>6. ASSUME NEW f \in Frames, NEW fault \in Faults,
             \/ Rx2of4Mismatch(f, fault) \/ Rx4of4(f)
             \/ Rx4of4Fail(f, fault)
      PROVE  NegotiatingHasTimer'
  BY <1>6 DEF Rx2of4Mismatch, Rx4of4, Rx4of4Fail, Initialize,
     NegotiatingHasTimer, Negotiating, NoRequest
<1>7. ASSUME NEW f \in Frames, RxGtkRequest(f) \/ RxPtkRequest(f)
      PROVE  NegotiatingHasTimer'
  BY <1>7, FrameFields DEF RxGtkRequest, RxPtkRequest, NegotiatingHasTimer,
     NoRequest
<1>8. CASE UNCHANGED vars
  BY <1>8 DEF vars, timerVars, NegotiatingHasTimer, Negotiating, NoRequest
<1>9. "none" \in Faults
  BY AuthConfigAssumption
<1> QED
  BY <1>0, <1>1, <1>2, <1>3, <1>4, <1>5, <1>6, <1>7, <1>8, <1>9
     DEF Next, Receive, Local, RekeyPtk, RxPtkRequest

\* Unless the station has made a request, a handshake that waits for an answer
\* has a retransmission timer (wpa_send_eapol()), so that it ends.
THEOREM HandshakeHasTimer == Spec => []NegotiatingHasTimer
<1>1. Init => TypeOK /\ NonceDrawn /\ NegotiatingHasTimer
  BY InitType DEF Init, TypeOK, TypeFlags, NonceDrawn, Negotiating,
     NegotiatingHasTimer
<1>2. TypeOK /\ NonceDrawn /\ NegotiatingHasTimer /\ [Next]_vars
        => (TypeOK /\ NonceDrawn /\ NegotiatingHasTimer)'
  BY NextType, NextDrawn, NextFlags, NextTimer DEF TypeOK
<1> QED BY <1>1, <1>2, PTL DEF Spec
=============================================================================
