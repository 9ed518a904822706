---------------------------- MODULE WpaSmProofs ----------------------------
(***************************************************************************)
(* Proofs about WpaSm for every choice of its constants: any set of        *)
(* frames the environment may deliver, any bounds, every configuration and *)
(* every set of faults.                                                    *)
(***************************************************************************)
EXTENDS WpaSm, TLAPS

LEMMA TypeInit == Init => TypeOK
<1> SUFFICES ASSUME Init PROVE TypeOK
  OBVIOUS
<1>1. gk \in KeyData /\ gk_wnm \in KeyData
  BY DEF Init, KeyData, NoKde
<1>2. drvPtk \in [{0, 1} -> Ptks \cup {NoKey}]
  BY DEF Init, NoDrvPtk
<1>3. installs \in [Ptks -> Nat] /\ gkInstalls \in [Kinds -> [GKeys -> 0..2]]
  BY DEF Init
<1>4. snonce \in 0..MaxSnonce /\ rx_replay_counter \in -1..MaxRc
      /\ request_counter \in 0..MaxRequest /\ drvTx \in -1..1
  BY BoundsAssumption, ConfigAssumption DEF Init
<1> QED
  BY <1>1, <1>2, <1>3, <1>4 DEF Init, TypeOK, TypeFlags, TypePtk, TypeGroup

LEMMA DropGkType ==
    ASSUME NEW g \in KeyData PROVE DropGk(g) \in KeyData
BY DEF DropGk, KeyData, Kinds

LEMMA ClearGkType ==
    ASSUME NEW n \in [Kinds -> [GKeys -> 0..2]]
    PROVE  ClearGk(n) \in [Kinds -> [GKeys -> 0..2]]
BY DEF ClearGk, Kinds

LEMMA ProgrammedType ==
    ASSUME TypeOK, NEW keys \in KeyData, NEW kinds
    PROVE  Programmed(keys, kinds) \in KeyData
BY DEF Programmed, KeyData, TypeOK, TypeGroup

LEMMA CountedType ==
    ASSUME TypeOK, NEW keys, NEW kinds
    PROVE  Counted(keys, kinds) \in [Kinds -> [GKeys -> 0..2]]
<1>1. \A n \in 0..2 : Bump(n) \in 0..2
  BY DEF Bump
<1>2. gkInstalls \in [Kinds -> [GKeys -> 0..2]]
  BY DEF TypeOK, TypeGroup
<1> QED
  BY <1>1, <1>2 DEF Counted

LEMMA IgnoredType ==
    ASSUME TypeOK, NEW keys \in KeyData, NEW kinds, NEW fault
    PROVE  Ignored(keys, kinds, fault) \subseteq GKeys
BY DEF Ignored, Programs, KeyData, Kinds, TypeOK, TypeGroup

LEMMA ReplyType ==
    ASSUME TypeOK, NEW f \in Frames, Verified(f)
    PROVE  Msg4of4(f) \in StaFrames /\ Msg2of2(f) \in StaFrames
BY FramesAssumption, BoundsAssumption
   DEF TypeOK, TypePtk, Verified, ApFrames, Msg4of4, Msg2of2, StaFrames

LEMMA Reply2of4Type ==
    ASSUME TypeOK, NEW f \in Frames, Is1of4(f), NEW renew \in BOOLEAN,
           Reply2of4(f, renew)
    PROVE  /\ snonce' \in 0..MaxSnonce
           /\ anonce' \in ANonces
           /\ tptk' \in Ptks /\ tptk'.sn = snonce'
           /\ tx' \subseteq StaFrames
<1>1. f.nonce \in ANonces /\ f.rc \in Nat
  BY FramesAssumption, BoundsAssumption DEF Is1of4, ApFrames
<1>2. snonce' = NextSnonce(renew) /\ NextSnonce(renew) \in 1..MaxSnonce
  BY DEF Reply2of4
<1>3. tptk' = [an |-> f.nonce, sn |-> NextSnonce(renew)] /\ tptk' \in Ptks
  BY <1>1, <1>2 DEF Reply2of4, Ptks
<1>4. Msg2of4(f, tptk') \in StaFrames
  BY <1>1, <1>2, <1>3, BoundsAssumption DEF Msg2of4, StaFrames
<1> QED
  BY <1>1, <1>2, <1>3, <1>4, BoundsAssumption DEF Reply2of4

LEMMA DisconnectedType ==
    ASSUME TypeOK, Disconnected, conf' = conf PROVE TypeOK'
<1>1. TypeFlags'
  BY DEF TypeOK, TypeFlags, Disconnected, Disconnect, NotifyDisassoc, DropSa,
     nonces
<1>2. TypePtk'
  BY DEF TypeOK, TypePtk, Disconnected, Disconnect, NotifyDisassoc, DropSa,
     ClearDriverKeys,
         NoDrvPtk, nonces
<1>3. TypeGroup'
  BY DropGkType, ClearGkType
     DEF TypeOK, TypeGroup, Disconnected, Disconnect, NotifyDisassoc, DropSa,
     ClearDriverKeys
<1> QED
  BY <1>1, <1>2, <1>3 DEF TypeOK, Disconnected

LEMMA SendRequestType ==
    ASSUME TypeOK, NEW error \in BOOLEAN, NEW pair \in BOOLEAN,
           SendRequest(error, pair), request_counter < MaxRequest,
           rekey_timeout' \in BOOLEAN, conf' = conf
    PROVE  TypeOK'
<1> USE DEF ifVars, nonces, ptkVars, gkVars, idVars, drvVars
<1>1. TypeFlags'
  BY DEF TypeOK, TypeFlags, SendRequest
<1>2. TypePtk'
  BY ConfigAssumption DEF TypeOK, TypePtk, SendRequest
<1>3. TypeGroup'
  BY DEF TypeOK, TypeGroup, SendRequest
<1>4. (tx \subseteq StaFrames)'
  BY BoundsAssumption, ConfigAssumption
     DEF TypeOK, TypePtk, SendRequest, MsgRequest, StaFrames
<1> QED
  BY <1>1, <1>2, <1>3, <1>4 DEF TypeOK

LEMMA TypeStep == TypeOK /\ [Next]_vars => TypeOK'
<1> SUFFICES ASSUME TypeOK, [Next]_vars PROVE TypeOK'
  OBVIOUS
<1>0. conf' = conf
  BY DEF Next, vars
<1> USE <1>0
<1> USE DEF ifVars, timers, nonces, ptkVars, gkVars, idVars, drvVars
<1>1. ASSUME NEW f \in Frames, RxEarly(f)
      PROVE  TypeOK'
  <2>1. TypeFlags'
    BY <1>1 DEF TypeOK, TypeFlags, RxEarly
  <2>2. TypePtk' /\ TypeGroup' /\ (tx \subseteq StaFrames)'
    BY <1>1 DEF TypeOK, TypePtk, TypeGroup, RxEarly
  <2> QED BY <2>1, <2>2 DEF TypeOK
<1>2. ASSUME NEW f \in Frames, RxDrop(f)
      PROVE  TypeOK'
  <2>1. TypeFlags'
    BY <1>2 DEF TypeOK, TypeFlags, RxDrop, RxTimers
  <2>2. TypePtk' /\ TypeGroup' /\ (tx \subseteq StaFrames)'
    BY <1>2 DEF TypeOK, TypePtk, TypeGroup, RxDrop
  <2> QED BY <2>1, <2>2 DEF TypeOK
<1>3. ASSUME NEW f \in Frames, RxDecryptFail(f)
      PROVE  TypeOK'
  <2>1. TypeFlags'
    BY <1>3 DEF TypeOK, TypeFlags, RxDecryptFail, RxTimers, InstalledAfter,
       RenewAfter
  <2>2. TypePtk'
    BY <1>3, FramesAssumption DEF TypeOK, TypePtk, RxDecryptFail,
       AcceptMic, Verified, ApFrames
  <2>3. TypeGroup' /\ (tx \subseteq StaFrames)'
    BY <1>3 DEF TypeOK, TypeGroup, RxDecryptFail
  <2> QED BY <2>1, <2>2, <2>3 DEF TypeOK
<1>4. ASSUME NEW f \in Frames, Rx1of4(f)
      PROVE  TypeOK'
  <2>1. TypeFlags'
    BY <1>4 DEF TypeOK, TypeFlags, Rx1of4, Reply2of4, RxTimers
  <2>2. TypePtk'
    BY <1>4, Reply2of4Type DEF TypeOK, TypePtk, Rx1of4, TypeFlags
  <2>3. (tx \subseteq StaFrames)'
    BY <1>4, Reply2of4Type DEF TypeOK, Rx1of4, TypeFlags
  <2>4. TypeGroup'
    BY <1>4 DEF TypeOK, TypeGroup, Rx1of4
  <2> QED BY <2>1, <2>2, <2>3, <2>4 DEF TypeOK
<1>5. ASSUME NEW f \in Frames, NEW fault \in Faults, Rx1of4Fail(f, fault)
      PROVE  TypeOK'
  <2>1. TypeFlags'
    BY <1>5 DEF TypeOK, TypeFlags, Rx1of4Fail, Disconnect, NotifyDisassoc,
       DropSa, ClearDriverKeys
  <2>2. TypePtk'
    BY <1>5, BoundsAssumption DEF TypeOK, TypePtk, Rx1of4Fail, NextSnonce,
       Disconnect, NotifyDisassoc, DropSa, ClearDriverKeys, NoDrvPtk
  <2>3. TypeGroup'
    BY <1>5, DropGkType, ClearGkType DEF TypeOK, TypeGroup, Rx1of4Fail,
       Disconnect, NotifyDisassoc, DropSa, ClearDriverKeys
  <2>4. (tx \subseteq StaFrames)'
    BY <1>5 DEF TypeOK, Rx1of4Fail
  <2> QED BY <2>1, <2>2, <2>3, <2>4 DEF TypeOK
<1>6. ASSUME NEW f \in Frames, NEW fault \in Faults, Rx3of4(f, fault)
      PROVE  TypeOK'
  <2>1. TypeFlags'
    BY <1>6 DEF TypeOK, TypeFlags, Rx3of4, RxTimers, InstalledAfter,
       InstallsPtk, UseExt
  <2>2. TypePtk'
    BY <1>6, FramesAssumption DEF TypeOK, TypePtk, Rx3of4, AcceptMic,
       Is3of4, Verified, ApFrames, CountInstall, KeyIdx
  <2>3. TypeGroup'
    BY <1>6, FramesAssumption, ProgrammedType, CountedType, IgnoredType
       DEF TypeOK,
       TypeGroup, Rx3of4, ApFrames
  <2>4. (tx \subseteq StaFrames)'
    BY <1>6, ReplyType DEF TypeOK, Rx3of4, Is3of4
  <2> QED BY <2>1, <2>2, <2>3, <2>4 DEF TypeOK
<1>7. ASSUME NEW f \in Frames, NEW fault \in Faults, Rx3of4Oci(f, fault)
      PROVE  TypeOK'
  <2>1. TypeFlags'
    BY <1>7 DEF TypeOK, TypeFlags, Rx3of4Oci, RxTimers, InstalledAfter,
       RenewAfter, UseExt
  <2>2. TypePtk'
    BY <1>7, FramesAssumption DEF TypeOK, TypePtk, Rx3of4Oci, AcceptMic,
       Is3of4, Verified, ApFrames, KeyIdx
  <2>3. TypeGroup' /\ (tx \subseteq StaFrames)'
    BY <1>7 DEF TypeOK, TypeGroup, Rx3of4Oci
  <2> QED BY <2>1, <2>2, <2>3 DEF TypeOK
<1>8. ASSUME NEW f \in Frames, NEW fault \in Faults, Rx3of4Fail(f, fault)
      PROVE  TypeOK'
  <2>1. TypeFlags'
    BY <1>8 DEF TypeOK, TypeFlags, Rx3of4Fail, RenewAfter, UseExt,
       Disconnect, NotifyDisassoc, DropSa, ClearDriverKeys
  <2>2. TypePtk'
    BY <1>8, FramesAssumption DEF TypeOK, TypePtk, Rx3of4Fail, Is3of4,
       Verified, ApFrames, CountInstall, Disconnect, NotifyDisassoc, DropSa,
       ClearDriverKeys,
       NoDrvPtk
  <2>3. TypeGroup'
    BY <1>8, DropGkType, ClearGkType DEF TypeOK, TypeGroup, Rx3of4Fail,
       Disconnect, NotifyDisassoc, DropSa, ClearDriverKeys
  <2>4. (tx \subseteq StaFrames)'
    BY <1>8, ReplyType DEF TypeOK, Rx3of4Fail, Is3of4
  <2> QED BY <2>1, <2>2, <2>3, <2>4 DEF TypeOK
<1>9. ASSUME NEW f \in Frames, NEW fault \in Faults, Rx1of2(f, fault)
      PROVE  TypeOK'
  <2>1. TypeFlags'
    BY <1>9 DEF TypeOK, TypeFlags, Rx1of2, InstalledAfter, RenewAfter
  <2>2. TypePtk'
    BY <1>9, FramesAssumption DEF TypeOK, TypePtk, Rx1of2, AcceptMic,
       Is1of2, Verified, ApFrames
  <2>3. TypeGroup'
    BY <1>9, FramesAssumption, ProgrammedType, CountedType, IgnoredType
       DEF TypeOK,
       TypeGroup, Rx1of2, ApFrames
  <2>4. (tx \subseteq StaFrames)'
    BY <1>9, ReplyType DEF TypeOK, Rx1of2, Is1of2
  <2> QED BY <2>1, <2>2, <2>3, <2>4 DEF TypeOK
<1>10. ASSUME NEW f \in Frames, NEW fault \in Faults, Rx1of2Fail(f, fault)
      PROVE  TypeOK'
  <2>1. TypeFlags'
    BY <1>10 DEF TypeOK, TypeFlags, Rx1of2Fail, RenewAfter, Disconnect,
       NotifyDisassoc, DropSa,
       ClearDriverKeys
  <2>2. TypePtk'
    BY <1>10, FramesAssumption DEF TypeOK, TypePtk, Rx1of2Fail, ApFrames,
       Disconnect, NotifyDisassoc, DropSa, ClearDriverKeys, NoDrvPtk
  <2>3. TypeGroup'
    BY <1>10, FramesAssumption, DropGkType, ClearGkType, ProgrammedType,
       CountedType DEF TypeOK, TypeGroup, Rx1of2Fail, ApFrames, Disconnect,
       NotifyDisassoc, DropSa,
       ClearDriverKeys
  <2>4. (tx \subseteq StaFrames)'
    BY <1>10 DEF TypeOK, Rx1of2Fail
  <2> QED BY <2>1, <2>2, <2>3, <2>4 DEF TypeOK
<1>11. ASSUME NEW error \in BOOLEAN, NEW pair \in BOOLEAN, KeyRequest(error, pair)
      PROVE  TypeOK'
  BY <1>11, DisconnectedType, SendRequestType DEF KeyRequest, TypeOK,
     TypeFlags
<1>12. CASE RekeyPtk
  BY <1>12, DisconnectedType, SendRequestType DEF RekeyPtk
<1>13. CASE Associate
  <2>1. TypeFlags'
    BY <1>13 DEF TypeOK, TypeFlags, Associate
  <2>2. TypePtk'
    BY <1>13 DEF TypeOK, TypePtk, Associate, ClearDriverKeys, NoDrvPtk
  <2>3. TypeGroup'
    BY <1>13, ClearGkType DEF TypeOK, TypeGroup, Associate, ClearDriverKeys
  <2>4. (tx \subseteq StaFrames)'
    BY <1>13 DEF TypeOK, Associate
  <2> QED BY <2>1, <2>2, <2>3, <2>4 DEF TypeOK
<1>14. CASE EventAssoc
  <2>1. TypeFlags'
    BY <1>14 DEF TypeOK, TypeFlags, EventAssoc, NotifyAssoc
  <2>2. TypePtk'
    BY <1>14, BoundsAssumption DEF TypeOK, TypePtk, EventAssoc, NotifyAssoc
  <2>3. TypeGroup'
    BY <1>14, DropGkType DEF TypeOK, TypeGroup, EventAssoc, NotifyAssoc
  <2>4. (tx \subseteq StaFrames)'
    BY <1>14 DEF TypeOK, EventAssoc
  <2> QED BY <2>1, <2>2, <2>3, <2>4 DEF TypeOK
<1>15. CASE EventAssocPending
  <2>1. TypeFlags'
    BY <1>15 DEF TypeOK, TypeFlags, EventAssocPending, NotifyAssoc,
       Reply2of4
  <2>2. /\ snonce' \in 0..MaxSnonce /\ anonce' \in ANonces
        /\ tptk' \in Ptks /\ tx' \subseteq StaFrames
    BY <1>15, Reply2of4Type DEF TypeOK, EventAssocPending, TypeFlags
  <2>3. TypePtk'
    BY <1>15, <2>2, BoundsAssumption
       DEF TypeOK, TypePtk, EventAssocPending, NotifyAssoc
  <2>4. TypeGroup'
    BY <1>15, DropGkType DEF TypeOK, TypeGroup, EventAssocPending,
       NotifyAssoc
  <2> QED BY <2>1, <2>2, <2>3, <2>4 DEF TypeOK
<1>16. ASSUME NEW fault \in Faults, EventAssocFail(fault)
      PROVE  TypeOK'
  <2>1. TypeFlags'
    BY <1>16 DEF TypeOK, TypeFlags, EventAssocFail, Disconnect,
       NotifyDisassoc, DropSa,
       ClearDriverKeys
  <2>2. TypePtk'
    BY <1>16, BoundsAssumption DEF TypeOK, TypePtk, EventAssocFail,
       Disconnect, NotifyDisassoc, DropSa, ClearDriverKeys, NoDrvPtk
  <2>3. TypeGroup'
    BY <1>16, DropGkType, ClearGkType DEF TypeOK, TypeGroup,
       EventAssocFail, Disconnect, NotifyDisassoc, DropSa, ClearDriverKeys
  <2>4. (tx \subseteq StaFrames)'
    BY <1>16 DEF TypeOK, EventAssocFail
  <2> QED BY <2>1, <2>2, <2>3, <2>4 DEF TypeOK
<1>17. CASE EventDisassoc
  BY <1>17, DisconnectedType DEF EventDisassoc
<1>18. CASE Timeout
  BY <1>18, DisconnectedType DEF Timeout
<1>19. CASE WnmSleepReq
  <2>1. TypeFlags'
    BY <1>19 DEF TypeOK, TypeFlags, WnmSleepReq
  <2>2. TypePtk' /\ TypeGroup' /\ (tx \subseteq StaFrames)'
    BY <1>19 DEF TypeOK, TypePtk, TypeGroup, WnmSleepReq
  <2> QED BY <2>1, <2>2 DEF TypeOK
<1>20. ASSUME NEW keys \in {f.keys : f \in Frames}, NEW fault \in Faults,
              RxWnmSleepResp(keys, fault)
       PROVE  TypeOK'
  <2>1. TypeFlags'
    BY <1>20 DEF TypeOK, TypeFlags, RxWnmSleepResp
  <2>2. TypeGroup'
    BY <1>20, FramesAssumption, CountedType, IgnoredType DEF TypeOK, TypeGroup,
       RxWnmSleepResp, ApFrames, KeyData
  <2>3. TypePtk' /\ (tx \subseteq StaFrames)'
    BY <1>20 DEF TypeOK, TypePtk, RxWnmSleepResp
  <2> QED BY <2>1, <2>2, <2>3 DEF TypeOK
<1>21. CASE UNCHANGED vars
  BY <1>21 DEF vars, TypeOK, TypeFlags, TypePtk, TypeGroup
<1> QED
  BY <1>1, <1>2, <1>3, <1>4, <1>5, <1>6, <1>7, <1>8, <1>9, <1>10, <1>11,
     <1>12, <1>13, <1>14, <1>15, <1>16, <1>17, <1>18, <1>19, <1>20, <1>21 DEF
     Next, RxEapol, Local, Wnm

\* Type correctness.
THEOREM TypeCorrect == Spec => []TypeOK
BY TypeInit, TypeStep, PTL DEF Spec
-----------------------------------------------------------------------------
(* No PTK is installed twice.                                              *)

\* The PTK that verifies a frame was not yet given to the driver, unless the
\* installed flag says so.
LEMMA FreshInstall ==
    ASSUME TypeOK, ReinstallInv, NEW f \in Frames, Verified(f),
           ~InstalledAfter(f)
    PROVE  f.mic \in Ptks /\ installs[f.mic] = 0
<1>1. f.mic \in Ptks
  BY DEF TypeOK, TypePtk, Verified
<1>2. CASE f.mic = tptk
  <2>1. ~Spent(tptk)
    BY <1>1, <1>2, BoundsAssumption
       DEF ReinstallInv, TptkInv, Spent, TypeOK, TypePtk, Ptks, Verified
  <2>2. ~Used(tptk)
    BY <1>1, <1>2, <2>1 DEF ReinstallInv, SpentInv
  <2> QED
    BY <1>1, <1>2, <2>2 DEF Used, TypeOK, TypePtk
<1>3. CASE f.mic # tptk
  BY <1>1, <1>3 DEF ReinstallInv, InstalledInv, Verified, InstalledAfter
<1> QED
  BY <1>2, <1>3, <1>1

\* That PTK cannot be derived again.
LEMMA MicSpent ==
    ASSUME TypeOK, ReinstallInv, NEW f \in Frames, Verified(f)
    PROVE  /\ f.mic \in Ptks
           /\ \/ f.mic.sn < snonce
              \/ /\ f.mic.sn = snonce /\ RenewAfter(f)
                 /\ f.mic = tptk \/ tptk = NoKey
<1>1. f.mic \in Ptks
  BY DEF TypeOK, TypePtk, Verified
<1>2. CASE f.mic = tptk
  BY <1>1, <1>2 DEF ReinstallInv, TptkInv, RenewAfter, Verified
<1>3. CASE f.mic # tptk
  <2>1. Spent(f.mic)
    BY <1>1, <1>3 DEF ReinstallInv, SpentInv, Used, Verified
  <2> QED
    BY <1>1, <2>1 DEF Spent, RenewAfter
<1> QED
  BY <1>2, <1>3

\* Dropping the keys preserves the invariant when the SNonce moves up or
\* stays due for renewal.
LEMMA DropPreserves ==
    ASSUME TypeOK, ReinstallInv,
           ptk' = NoKey, tptk' = NoKey, installs' = installs,
           snonce' \in Nat,
           \/ snonce' > snonce
           \/ snonce' = snonce /\ (renew_snonce => renew_snonce')
    PROVE  ReinstallInv'
<1>1. SpentInv'
  <2> SUFFICES ASSUME NEW p \in Ptks, Used(p)' PROVE Spent(p)'
    BY DEF SpentInv
  <2>1. Spent(p)
    BY NoKeyAssumption DEF ReinstallInv, SpentInv, Used
  <2> QED
    BY <2>1, BoundsAssumption DEF Spent, Ptks, TypeOK, TypePtk
<1> QED
  BY <1>1 DEF ReinstallInv, TptkInv, InstalledInv, NoReinstall

\* So does deriving a TPTK from a new SNonce, or from one that no accepted
\* key was made from.
LEMMA ReplyPreserves ==
    ASSUME TypeOK, ReinstallInv, NEW f \in Frames, NEW renew \in BOOLEAN,
           Is1of4(f), Reply2of4(f, renew), renew_snonce => renew,
           installs' = installs,
           \/ ptk' = ptk /\ ptk_installed' = ptk_installed
           \/ ptk' = NoKey
    PROVE  ReinstallInv'
<1>0. snonce' = NextSnonce(renew)
  BY DEF Reply2of4
<1>1. snonce' \in Nat /\ tptk' \in Ptks /\ tptk'.sn = snonce'
  BY Reply2of4Type, BoundsAssumption
<1>2. SpentInv'
  <2> SUFFICES ASSUME NEW p \in Ptks, Used(p)' PROVE Spent(p)'
    BY DEF SpentInv
  <2>1. Spent(p)
    BY NoKeyAssumption DEF ReinstallInv, SpentInv, Used
  <2>2. p.sn < snonce'
    BY <1>0, <1>1, <2>1, BoundsAssumption
       DEF Spent, Ptks, TypeOK, TypePtk, NextSnonce
  <2> QED
    BY <2>2 DEF Spent
<1>3. TptkInv'
  BY <1>1 DEF TptkInv
<1> QED
  BY <1>2, <1>3 DEF ReinstallInv, InstalledInv, NoReinstall

\* So does accepting a frame, whether its PTK is kept (and possibly
\* installed) or dropped again by a failure.
LEMMA AcceptPreserves ==
    ASSUME TypeOK, ReinstallInv, NEW f \in Frames, Verified(f),
           snonce' = snonce, renew_snonce' \in BOOLEAN,
           RenewAfter(f) => renew_snonce',
           \/ /\ ptk' = f.mic
              /\ tptk' = IF f.mic = tptk THEN NoKey ELSE tptk
           \/ ptk' = NoKey /\ tptk' = NoKey,
           \/ /\ installs' = installs
              /\ ptk' # NoKey => ptk_installed' = InstalledAfter(f)
           \/ /\ ~InstalledAfter(f)
              /\ installs' = [installs EXCEPT ![f.mic] = @ + 1]
              /\ ptk' # NoKey => ptk_installed' = TRUE
    PROVE  ReinstallInv'
<1>1. /\ f.mic \in Ptks
      /\ \/ f.mic.sn < snonce
         \/ /\ f.mic.sn = snonce /\ RenewAfter(f)
            /\ f.mic = tptk \/ tptk = NoKey
  BY MicSpent
<1>2. installs \in [Ptks -> Nat]
  BY DEF TypeOK, TypePtk
<1>3. ~InstalledAfter(f) => installs[f.mic] = 0
  BY FreshInstall
<1>4. SpentInv'
  <2> SUFFICES ASSUME NEW p \in Ptks, Used(p)' PROVE Spent(p)'
    BY DEF SpentInv
  <2>1. CASE p = f.mic
    BY <1>1, <2>1 DEF Spent
  <2>2. CASE p # f.mic
    <3>1. Used(p)
      BY <1>1, <1>2, <2>2, NoKeyAssumption DEF Used
    <3>2. Spent(p)
      BY <3>1 DEF ReinstallInv, SpentInv
    <3>3. p.sn = snonce /\ tptk = NoKey => tptk' = NoKey
      BY <1>1
    <3> QED
      BY <3>2, <3>3 DEF Spent, RenewAfter
  <2> QED
    BY <2>1, <2>2
<1>5. TptkInv'
  BY DEF ReinstallInv, TptkInv
<1>6. InstalledInv'
  BY <1>1, <1>2, <1>3 DEF InstalledInv
<1>7. NoReinstall'
  <2> SUFFICES ASSUME NEW p \in Ptks PROVE installs'[p] <= 1
    BY DEF NoReinstall
  <2>1. installs[p] <= 1
    BY DEF ReinstallInv, NoReinstall
  <2> QED
    BY <1>1, <1>2, <1>3, <2>1
<1> QED
  BY <1>4, <1>5, <1>6, <1>7 DEF ReinstallInv

\* Nothing the invariant speaks of changes.
LEMMA IdlePreserves ==
    ASSUME ReinstallInv,
           UNCHANGED <<snonce, renew_snonce, tptk, ptk, ptk_installed,
                       installs>>
    PROVE  ReinstallInv'
BY DEF ReinstallInv, SpentInv, Used, Spent, TptkInv, InstalledInv,
       NoReinstall

LEMMA DisconnectedPreserves ==
    ASSUME TypeOK, ReinstallInv, Disconnected
    PROVE  ReinstallInv'
BY DropPreserves, BoundsAssumption
   DEF Disconnected, Disconnect, NotifyDisassoc, DropSa, nonces, TypeOK,
   TypePtk

LEMMA ReinstallStep ==
    TypeOK /\ ReinstallInv /\ [Next]_vars => ReinstallInv'
<1> SUFFICES ASSUME TypeOK, ReinstallInv, [Next]_vars PROVE ReinstallInv'
  OBVIOUS
<1> USE DEF ifVars, timers, nonces, ptkVars, gkVars, idVars, drvVars
<1>1. ASSUME NEW f \in Frames, RxEarly(f) \/ RxDrop(f)
      PROVE  ReinstallInv'
  BY <1>1, IdlePreserves DEF RxEarly, RxDrop
<1>2. ASSUME NEW f \in Frames, RxDecryptFail(f)
      PROVE  ReinstallInv'
  BY <1>2, AcceptPreserves
     DEF RxDecryptFail, AcceptMic, RenewAfter, TypeOK, TypeFlags
<1>3. ASSUME NEW f \in Frames, Rx1of4(f)
      PROVE  ReinstallInv'
  BY <1>3, ReplyPreserves DEF Rx1of4, TypeOK, TypeFlags
<1>4. ASSUME NEW f \in Frames, NEW fault \in Faults, Rx1of4Fail(f, fault)
      PROVE  ReinstallInv'
  BY <1>4, DropPreserves, BoundsAssumption
     DEF Rx1of4Fail, Disconnect, NotifyDisassoc, DropSa, NextSnonce, TypeOK,
     TypePtk
<1>5. ASSUME NEW f \in Frames, NEW fault \in Faults, Rx3of4(f, fault)
      PROVE  ReinstallInv'
  <2>1. /\ Verified(f) /\ AcceptMic(f) /\ snonce' = snonce
        /\ renew_snonce' = TRUE
        /\ ptk_installed' = (InstalledAfter(f) \/ InstallsPtk(f, "ok"))
    BY <1>5 DEF Rx3of4, Is3of4
  <2>2. CASE InstallsPtk(f, "ok")
    <3>1. installs' = [installs EXCEPT ![f.mic] = @ + 1]
      BY <1>5, <2>2 DEF Rx3of4, CountInstall
    <3>2. ~InstalledAfter(f) /\ ptk_installed' = TRUE
      BY <2>1, <2>2 DEF InstallsPtk
    <3> QED
      BY <2>1, <3>1, <3>2, AcceptPreserves DEF AcceptMic
  <2>3. CASE ~InstallsPtk(f, "ok")
    <3>1. installs' = installs
      BY <1>5, <2>3 DEF Rx3of4, CountInstall
    <3>2. ptk_installed' = InstalledAfter(f)
      BY <2>1, <2>3 DEF InstalledAfter
    <3> QED
      BY <2>1, <3>1, <3>2, AcceptPreserves DEF AcceptMic
  <2> QED
    BY <2>2, <2>3
<1>6. ASSUME NEW f \in Frames, NEW fault \in Faults, Rx3of4Oci(f, fault)
      PROVE  ReinstallInv'
  BY <1>6, AcceptPreserves
     DEF Rx3of4Oci, Is3of4, AcceptMic, RenewAfter, TypeOK, TypeFlags
<1>7. ASSUME NEW f \in Frames, NEW fault \in Faults, Rx3of4Fail(f, fault)
      PROVE  ReinstallInv'
  BY <1>7, AcceptPreserves
     DEF Rx3of4Fail, Is3of4, Disconnect, NotifyDisassoc, DropSa,
     CountInstall, InstallsPtk
<1>8. ASSUME NEW f \in Frames, NEW fault \in Faults, Rx1of2(f, fault)
      PROVE  ReinstallInv'
  BY <1>8, AcceptPreserves
     DEF Rx1of2, Is1of2, AcceptMic, RenewAfter, TypeOK, TypeFlags
<1>9. ASSUME NEW f \in Frames, NEW fault \in Faults, Rx1of2Fail(f, fault)
      PROVE  ReinstallInv'
  BY <1>9, AcceptPreserves
     DEF Rx1of2Fail, Is1of2, Disconnect, NotifyDisassoc, DropSa, RenewAfter,
     TypeOK, TypeFlags
<1>10. ASSUME NEW error \in BOOLEAN, NEW pair \in BOOLEAN,
              KeyRequest(error, pair)
       PROVE  ReinstallInv'
  BY <1>10, IdlePreserves, DisconnectedPreserves DEF KeyRequest, SendRequest
<1>11. CASE RekeyPtk
  BY <1>11, IdlePreserves, DisconnectedPreserves DEF RekeyPtk, SendRequest
<1>12. CASE Associate
  BY <1>12, IdlePreserves DEF Associate
<1>13. CASE EventAssoc
  BY <1>13, DropPreserves, BoundsAssumption
     DEF EventAssoc, NotifyAssoc, TypeOK, TypePtk
<1>14. CASE EventAssocPending
  BY <1>14, ReplyPreserves
     DEF EventAssocPending, NotifyAssoc, TypeOK, TypeFlags
<1>15. ASSUME NEW fault \in Faults, EventAssocFail(fault)
       PROVE  ReinstallInv'
  BY <1>15, DropPreserves, BoundsAssumption
     DEF EventAssocFail, Disconnect, NotifyDisassoc, DropSa, TypeOK, TypePtk
<1>16. CASE EventDisassoc \/ Timeout
  BY <1>16, DisconnectedPreserves DEF EventDisassoc, Timeout
<1>17. CASE Wnm
  BY <1>17, IdlePreserves DEF Wnm, WnmSleepReq, RxWnmSleepResp
<1>18. CASE UNCHANGED vars
  BY <1>18, IdlePreserves DEF vars
<1> QED
  BY <1>1, <1>2, <1>3, <1>4, <1>5, <1>6, <1>7, <1>8, <1>9, <1>10, <1>11,
     <1>12, <1>13, <1>14, <1>15, <1>16, <1>17, <1>18
     DEF Next, RxEapol, Local

LEMMA ReinstallInit == Init => ReinstallInv
BY NoKeyAssumption
   DEF Init, ReinstallInv, SpentInv, Used, TptkInv, InstalledInv, NoReinstall

\* For every environment: no PTK is given to the driver twice.
THEOREM NeverReinstalled == Spec => []NoReinstall
<1>1. ReinstallInv => NoReinstall
  BY DEF ReinstallInv
<1> QED
  BY <1>1, TypeInit, TypeStep, ReinstallInit, ReinstallStep, PTL DEF Spec

-----------------------------------------------------------------------------
(* The installed flag and the driver agree.                                *)

\* A verified frame keeps the flag only together with the PTK.
LEMMA InstalledAfterPtk ==
    ASSUME TypeOK, NEW f \in Frames, Verified(f), InstalledAfter(f)
    PROVE  f.mic = ptk /\ ptk_installed
BY DEF Verified, InstalledAfter

LEMMA DriverStep ==
    TypeOK /\ InstalledInDriver /\ [Next]_vars => InstalledInDriver'
<1> SUFFICES ASSUME TypeOK, InstalledInDriver, [Next]_vars
             PROVE  InstalledInDriver'
  OBVIOUS
<1> USE DEF ifVars, timers, nonces, ptkVars, gkVars, idVars, drvVars
<1>1. ASSUME NEW f \in Frames, RxEarly(f) \/ RxDrop(f)
      PROVE  InstalledInDriver'
  BY <1>1 DEF RxEarly, RxDrop, InstalledInDriver, InSession
<1>2. ASSUME NEW f \in Frames, NEW fault \in Faults,
             RxDecryptFail(f) \/ Rx3of4Oci(f, fault) \/ Rx1of2(f, fault)
      PROVE  InstalledInDriver'
  <2>1. /\ InSession /\ Verified(f) /\ ptk' = f.mic /\ drvPtk' = drvPtk
        /\ ptk_installed' = InstalledAfter(f)
    BY <1>2 DEF RxDecryptFail, Rx3of4Oci, Rx1of2, Is3of4, Is1of2, AcceptMic
  <2> QED
    BY <2>1, InstalledAfterPtk DEF InstalledInDriver
<1>3. ASSUME NEW f \in Frames, Rx1of4(f)
      PROVE  InstalledInDriver'
  BY <1>3 DEF Rx1of4, InstalledInDriver
<1>4. ASSUME NEW f \in Frames, NEW fault \in Faults, Rx3of4(f, fault)
      PROVE  InstalledInDriver'
  <2>1. /\ InSession /\ Verified(f) /\ ptk' = f.mic
        /\ ptk_installed' = (InstalledAfter(f) \/ InstallsPtk(f, "ok"))
        /\ drvPtk' = IF InstallsPtk(f, "ok")
                     THEN [drvPtk EXCEPT ![KeyIdx(f)] = f.mic] ELSE drvPtk
    BY <1>4 DEF Rx3of4, Is3of4, AcceptMic
  <2>2. CASE InstallsPtk(f, "ok")
    BY <2>1, <2>2 DEF InstalledInDriver, KeyIdx, TypeOK, TypePtk
  <2>3. CASE ~InstallsPtk(f, "ok")
    <3>1. ptk_installed' = InstalledAfter(f)
      BY <2>1, <2>3 DEF InstalledAfter
    <3> QED
      BY <2>1, <2>3, <3>1, InstalledAfterPtk DEF InstalledInDriver
  <2> QED
    BY <2>2, <2>3
<1>5. ASSUME NEW f \in Frames, NEW fault \in Faults,
             Rx1of4Fail(f, fault) \/ Rx3of4Fail(f, fault)
                \/ Rx1of2Fail(f, fault)
      PROVE  InstalledInDriver'
  BY <1>5 DEF Rx1of4Fail, Rx3of4Fail, Rx1of2Fail, Disconnect, NotifyDisassoc,
     DropSa,
     InstalledInDriver
<1>6. ASSUME NEW error \in BOOLEAN, NEW pair \in BOOLEAN,
             KeyRequest(error, pair)
      PROVE  InstalledInDriver'
  BY <1>6 DEF KeyRequest, SendRequest, Disconnected, Disconnect,
     NotifyDisassoc, DropSa,
     InstalledInDriver, InSession
<1>7. CASE RekeyPtk
  BY <1>7 DEF RekeyPtk, SendRequest, Disconnected, Disconnect,
     NotifyDisassoc, DropSa,
     InstalledInDriver, InSession
<1>8. CASE Associate
  BY <1>8 DEF Associate, InstalledInDriver, InSession
<1>9. CASE EventAssoc \/ EventAssocPending
  BY <1>9 DEF EventAssoc, EventAssocPending, NotifyAssoc, InstalledInDriver
<1>10. ASSUME NEW fault \in Faults, EventAssocFail(fault)
       PROVE  InstalledInDriver'
  BY <1>10 DEF EventAssocFail, Disconnect, NotifyDisassoc, DropSa,
     InstalledInDriver
<1>11. CASE EventDisassoc \/ Timeout
  BY <1>11 DEF EventDisassoc, Timeout, Disconnected, Disconnect,
     NotifyDisassoc, DropSa,
     InstalledInDriver
<1>12. CASE Wnm
  BY <1>12 DEF Wnm, WnmSleepReq, RxWnmSleepResp, InstalledInDriver,
     InSession
<1>13. CASE UNCHANGED vars
  BY <1>13 DEF vars, InstalledInDriver, InSession
<1> QED
  BY <1>1, <1>2, <1>3, <1>4, <1>5, <1>6, <1>7, <1>8, <1>9, <1>10, <1>11,
     <1>12, <1>13, ConfigAssumption DEF Next, RxEapol, Local

\* For every environment: during a session, a PTK that is marked installed
\* is in the driver.
THEOREM FlagMatchesDriver == Spec => []InstalledInDriver
<1>1. Init => InstalledInDriver
  BY DEF Init, InstalledInDriver
<1> QED
  BY <1>1, TypeInit, TypeStep, DriverStep, PTL DEF Spec

-----------------------------------------------------------------------------
(* The replay counter.                                                     *)

LEMMA ReplayStep ==
    ASSUME TypeOK, Next
    PROVE  \/ rx_replay_counter' >= rx_replay_counter
           \/ wpa_state = "ASSOCIATING" /\ wpa_state' # "ASSOCIATING"
<1>0. rx_replay_counter \in Int
  BY DEF TypeOK, TypePtk
<1>1. ASSUME NEW f \in Frames, RxEapol(f)
      PROVE  \/ rx_replay_counter' = rx_replay_counter
             \/ Fresh(f) /\ rx_replay_counter' = f.rc
  BY <1>1 DEF RxEapol, RxEarly, RxDrop, RxDecryptFail, Rx1of4, Rx1of4Fail,
     Rx3of4, Rx3of4Oci, Rx3of4Fail, Rx1of2, Rx1of2Fail, AcceptMic
<1>2. ASSUME NEW f \in Frames, RxEapol(f)
      PROVE  rx_replay_counter' >= rx_replay_counter
  BY <1>0, <1>1, <1>2, FramesAssumption, BoundsAssumption
     DEF Fresh, ApFrames
<1>3. ASSUME Local
      PROVE  \/ rx_replay_counter' = rx_replay_counter
             \/ wpa_state = "ASSOCIATING" /\ wpa_state' # "ASSOCIATING"
  <2>1. ASSUME \/ \E error, pair \in BOOLEAN : KeyRequest(error, pair)
               \/ RekeyPtk \/ Associate \/ EventDisassoc \/ Timeout
        PROVE  rx_replay_counter' = rx_replay_counter
    BY <2>1 DEF KeyRequest, SendRequest, RekeyPtk, Associate, EventDisassoc,
       Timeout, Disconnected
  <2>2. ASSUME \/ EventAssoc \/ EventAssocPending
               \/ \E fault \in Faults : EventAssocFail(fault)
        PROVE  wpa_state = "ASSOCIATING" /\ wpa_state' # "ASSOCIATING"
    BY <2>2 DEF EventAssoc, EventAssocPending, EventAssocFail, Reply2of4,
       Disconnect, NotifyDisassoc, DropSa
  <2> QED
    BY <1>3, <2>1, <2>2 DEF Local
<1>4. ASSUME Wnm PROVE rx_replay_counter' = rx_replay_counter
  BY <1>4 DEF Wnm, WnmSleepReq, RxWnmSleepResp
<1> QED
  BY <1>0, <1>2, <1>3, <1>4 DEF Next

\* For every environment: the replay counter only moves back when a new
\* association starts.
THEOREM ReplayProtected == Spec => ReplayMonotone
BY TypeInit, TypeStep, ReplayStep, PTL DEF Spec, ReplayMonotone
-----------------------------------------------------------------------------
(* The group keys and the driver agree.                                    *)

\* A group key that is programmed is counted; counts never go down.
LEMMA CountedKeys ==
    ASSUME TypeOK, NEW keys \in KeyData, NEW kinds \in SUBSET Kinds
    PROVE  /\ \A k \in Kinds, g \in GKeys :
                 gkInstalls[k][g] > 0 => Counted(keys, kinds)[k][g] > 0
           /\ \A k \in kinds : Programs(k, keys[k]) =>
                 keys[k] \in GKeys /\ Counted(keys, kinds)[k][keys[k]] > 0
<1>1. \A n \in 0..2 : Bump(n) \in 0..2 /\ Bump(n) > 0
  BY DEF Bump
<1>2. gkInstalls \in [Kinds -> [GKeys -> 0..2]]
  BY DEF TypeOK, TypeGroup
<1>3. \A k \in Kinds, g \in GKeys :
         /\ gkInstalls[k][g] \in 0..2
         /\ Counted(keys, kinds)[k][g] =
              IF k \in kinds /\ Programs(k, keys[k]) /\ g = keys[k]
              THEN Bump(gkInstalls[k][g]) ELSE gkInstalls[k][g]
  BY <1>2 DEF Counted
<1>4. \A k \in kinds : Programs(k, keys[k]) => keys[k] \in GKeys /\ k \in Kinds
  BY DEF Programs, KeyData
<1> QED
  BY <1>1, <1>3, <1>4

\* What one message with group keys leaves behind: the keys that were
\* configured still are, and those it programs are now, except an IGTK whose
\* refusal is ignored.
LEMMA ConfiguredKeys ==
    ASSUME TypeOK, NEW keys \in KeyData, NEW kinds \in SUBSET Kinds, NEW fault,
           gkInstalls' = Counted(keys, InDriver(kinds, fault)),
           igtkIgnored' = Ignored(keys, kinds, fault)
    PROVE  /\ \A k \in Kinds, g \in GKeys :
                 Configured(k, g) => Configured(k, g)'
           /\ \A k \in kinds : Programs(k, keys[k]) =>
                 keys[k] \in GKeys /\ Configured(k, keys[k])'
<1>1. InDriver(kinds, fault) \in SUBSET Kinds
  BY DEF InDriver
<1>2. igtkIgnored \subseteq igtkIgnored'
  BY DEF Ignored
<1>3. ASSUME NEW k \in kinds, Programs(k, keys[k])
      PROVE  keys[k] \in GKeys
  BY <1>3 DEF Programs, KeyData
<1>4. ASSUME NEW k \in kinds, Programs(k, keys[k]), k \notin InDriver(kinds, fault)
      PROVE  k = "igtk" /\ keys[k] \in igtkIgnored'
  BY <1>4 DEF InDriver, Ignored
<1> QED
  BY <1>1, <1>2, <1>3, <1>4, CountedKeys DEF Configured

\* Messages with group keys: those that are remembered are configured.
LEMMA ProgramPreserves ==
    ASSUME TypeOK, InSession, GroupInDriver, NEW keys \in KeyData,
           NEW kinds \in SUBSET Kinds, NEW fault,
           gk' = Programmed(keys, kinds), gk_wnm' = gk_wnm,
           gkInstalls' = Counted(keys, InDriver(kinds, fault)),
           igtkIgnored' = Ignored(keys, kinds, fault)
    PROVE  GroupInDriver'
<1> SUFFICES ASSUME NEW k \in {"gtk", "igtk"}
             PROVE  /\ gk'[k] # NoKey => Configured(k, gk[k])'
                    /\ gk_wnm'[k] # NoKey => Configured(k, gk_wnm[k])'
  BY DEF GroupInDriver
<1>1. k \in Kinds
  BY DEF Kinds
<1>2. /\ gk[k] # NoKey => gk[k] \in GKeys /\ Configured(k, gk[k])
      /\ gk_wnm[k] # NoKey => gk_wnm[k] \in GKeys /\ Configured(k, gk_wnm[k])
  BY <1>1 DEF GroupInDriver, TypeOK, TypeGroup, KeyData
<1>3. gk'[k] = IF k \in kinds /\ Programs(k, keys[k]) THEN keys[k] ELSE gk[k]
  BY <1>1 DEF Programmed
<1>4. /\ \A g \in GKeys : Configured(k, g) => Configured(k, g)'
      /\ k \in kinds /\ Programs(k, keys[k]) => Configured(k, keys[k])'
  BY <1>1, ConfiguredKeys
<1> QED
  BY <1>2, <1>3, <1>4 DEF Configured

LEMMA GroupDriverStep ==
    TypeOK /\ GroupInDriver /\ [Next]_vars => GroupInDriver'
<1> SUFFICES ASSUME TypeOK, GroupInDriver, [Next]_vars
             PROVE  GroupInDriver'
  OBVIOUS
<1> USE DEF ifVars, timers, nonces, ptkVars, gkVars, idVars, drvVars
<1>1. ASSUME NEW f \in Frames, NEW fault \in Faults,
             \/ RxEarly(f) \/ RxDrop(f) \/ RxDecryptFail(f) \/ Rx1of4(f)
             \/ Rx3of4Oci(f, fault)
      PROVE  GroupInDriver'
  <2>1. UNCHANGED gkVars /\ (InSession' => InSession)
    BY <1>1 DEF RxEarly, RxDrop, RxDecryptFail, Rx1of4, Rx3of4Oci, InSession
  <2> QED BY <2>1 DEF GroupInDriver, Configured
<1>2. ASSUME NEW f \in Frames, NEW fault \in Faults, Rx3of4(f, fault)
      PROVE  GroupInDriver'
  <2>1. f.keys \in KeyData /\ Kinds \in SUBSET Kinds
    BY FramesAssumption DEF ApFrames
  <2> QED BY <1>2, <2>1, ProgramPreserves DEF Rx3of4
<1>3. ASSUME NEW f \in Frames, NEW fault \in Faults, Rx1of2(f, fault)
      PROVE  GroupInDriver'
  <2>1. f.keys \in KeyData /\ Kinds1of2(f, fault) \in SUBSET Kinds
    BY FramesAssumption DEF ApFrames, Kinds1of2
  <2> QED BY <1>3, <2>1, ProgramPreserves DEF Rx1of2
<1>4. ASSUME NEW f \in Frames, NEW fault \in Faults,
             Rx1of4Fail(f, fault) \/ Rx3of4Fail(f, fault)
                \/ Rx1of2Fail(f, fault)
      PROVE  GroupInDriver'
  BY <1>4 DEF Rx1of4Fail, Rx3of4Fail, Rx1of2Fail, Disconnect,
     GroupInDriver, InSession
<1>5. CASE \/ \E error, pair \in BOOLEAN : KeyRequest(error, pair)
           \/ RekeyPtk \/ EventDisassoc \/ Timeout
  <2>1. UNCHANGED <<wpa_state, gkVars>> \/ wpa_state' = "DISCONNECTED"
    BY <1>5 DEF KeyRequest, RekeyPtk, SendRequest, EventDisassoc, Timeout,
       Disconnected, Disconnect
  <2> QED BY <2>1 DEF GroupInDriver, InSession, Configured
<1>6. CASE Associate
  BY <1>6 DEF Associate, GroupInDriver, InSession
<1>7. CASE EventAssoc \/ EventAssocPending
  BY <1>7 DEF EventAssoc, EventAssocPending, NotifyAssoc, DropGk,
     GroupInDriver, Kinds
<1>8. CASE \E fault \in Faults : EventAssocFail(fault)
  BY <1>8 DEF EventAssocFail, Disconnect, GroupInDriver, InSession
<1>9. CASE WnmSleepReq
  BY <1>9 DEF WnmSleepReq, GroupInDriver, InSession, Configured
<1>10. ASSUME NEW keys \in {f.keys : f \in Frames}, NEW fault \in Faults,
              RxWnmSleepResp(keys, fault)
       PROVE  GroupInDriver'
  <2> DEFINE kinds == Kinds \ {fault}
  <2> SUFFICES ASSUME NEW k \in {"gtk", "igtk"}
               PROVE  /\ gk'[k] # NoKey => Configured(k, gk[k])'
                      /\ gk_wnm'[k] # NoKey => Configured(k, gk_wnm[k])'
    BY DEF GroupInDriver
  <2>1. keys \in KeyData /\ k \in Kinds /\ kinds \in SUBSET Kinds
    BY FramesAssumption DEF ApFrames, Kinds
  <2>2. /\ gk[k] # NoKey => gk[k] \in GKeys /\ Configured(k, gk[k])
        /\ gk_wnm[k] # NoKey =>
              gk_wnm[k] \in GKeys /\ Configured(k, gk_wnm[k])
    BY <1>10, <2>1
       DEF GroupInDriver, RxWnmSleepResp, TypeOK, TypeGroup, KeyData
  <2>3. /\ gk' = gk /\ gkInstalls' = Counted(keys, InDriver(kinds, fault))
        /\ igtkIgnored' = Ignored(keys, kinds, fault)
        /\ gk_wnm'[k] = IF k \in kinds /\ Programs(k, keys[k])
                        THEN keys[k] ELSE gk_wnm[k]
    BY <1>10, <2>1 DEF RxWnmSleepResp
  <2> HIDE DEF kinds
  <2>4. /\ \A g \in GKeys : Configured(k, g) => Configured(k, g)'
        /\ k \in kinds /\ Programs(k, keys[k]) => Configured(k, keys[k])'
    BY <2>1, <2>3, ConfiguredKeys
  <2> QED BY <2>2, <2>3, <2>4 DEF Configured
<1>11. CASE UNCHANGED vars
  BY <1>11 DEF vars, GroupInDriver, InSession, Configured
<1> QED
  BY <1>1, <1>2, <1>3, <1>4, <1>5, <1>6, <1>7, <1>8, <1>9, <1>10, <1>11,
     ConfigAssumption DEF Next, RxEapol, Local, Wnm

\* For every environment, roaming included: during a session the driver has
\* the GTK and the IGTK that wpa_sm would refuse to program again, however
\* they arrived (message 3/4, a group key handshake, WNM-Sleep Mode), except
\* an IGTK whose configuration error wpa_supplicant_install_igtk() ignored.
THEOREM GroupMatchesDriver == Spec => []GroupInDriver
<1>1. Init => GroupInDriver
  BY DEF Init, GroupInDriver, InSession
<1> QED
  BY <1>1, TypeInit, TypeStep, GroupDriverStep, PTL DEF Spec

-----------------------------------------------------------------------------
(* What a disconnection leaves behind, without roaming.                    *)

\* Outside a session neither the rekey timer nor msg_3_of_4_ok is set.  Both
\* survive Associate, so this needs that an association only starts when
\* disconnected.
SessionInv ==
    /\ ~InSession => ~rekey_timeout /\ ~msg_3_of_4_ok
    /\ GroupAfterFourWay
    /\ RekeyTimerHasPtk

LEMMA SessionStep ==
    ASSUME Roam = FALSE, TypeOK, SessionInv, [Next]_vars
    PROVE  SessionInv'
<1> USE DEF ifVars, timers, nonces, ptkVars, gkVars, idVars, drvVars,
            SessionInv, GroupAfterFourWay, RekeyTimerHasPtk, InSession
<1>1. ASSUME NEW f \in Frames, RxEarly(f) \/ RxDrop(f)
      PROVE  SessionInv'
  BY <1>1 DEF RxEarly, RxDrop
<1>2. ASSUME NEW f \in Frames, RxDecryptFail(f) \/ Rx1of4(f)
      PROVE  SessionInv'
  BY <1>2 DEF RxDecryptFail, Rx1of4, Reply2of4, AcceptMic, Verified
<1>3. ASSUME NEW f \in Frames, NEW fault \in Faults,
             Rx3of4(f, fault) \/ Rx3of4Oci(f, fault) \/ Rx1of2(f, fault)
      PROVE  SessionInv'
  BY <1>3 DEF Rx3of4, Rx3of4Oci, Rx1of2, Is3of4, Is1of2, AcceptMic, Verified
<1>4. ASSUME NEW f \in Frames, NEW fault \in Faults,
             Rx1of4Fail(f, fault) \/ Rx3of4Fail(f, fault)
                \/ Rx1of2Fail(f, fault)
      PROVE  SessionInv'
  BY <1>4 DEF Rx1of4Fail, Rx3of4Fail, Rx1of2Fail, Disconnect,
     NotifyDisassoc
<1>5. CASE \/ \E error, pair \in BOOLEAN : KeyRequest(error, pair)
           \/ RekeyPtk \/ EventDisassoc \/ Timeout
  BY <1>5 DEF KeyRequest, RekeyPtk, SendRequest, EventDisassoc, Timeout,
     Disconnected, Disconnect, NotifyDisassoc
<1>6. CASE Associate
  BY <1>6 DEF Associate
<1>7. CASE EventAssoc \/ EventAssocPending
  <2>1. ~rekey_timeout /\ ~msg_3_of_4_ok
    BY <1>7 DEF EventAssoc, EventAssocPending
  <2>2. UNCHANGED <<rekey_timeout, msg_3_of_4_ok>>
    BY <1>7 DEF EventAssoc, EventAssocPending
  <2> QED BY <2>1, <2>2
<1>8. CASE \E fault \in Faults : EventAssocFail(fault)
  BY <1>8 DEF EventAssocFail, Disconnect, NotifyDisassoc
<1>9. CASE Wnm
  <2>1. UNCHANGED <<wpa_state, rekey_timeout, msg_3_of_4_ok, ptk>>
    BY <1>9 DEF Wnm, WnmSleepReq, RxWnmSleepResp
  <2> QED BY <2>1
<1>10. CASE UNCHANGED vars
  BY <1>10 DEF vars
<1> QED
  BY <1>1, <1>2, <1>3, <1>4, <1>5, <1>6, <1>7, <1>8, <1>9, <1>10,
     ConfigAssumption DEF Next, RxEapol, Local

LEMMA SessionAlways ==
    ASSUME Roam = FALSE
    PROVE  Spec => []SessionInv
<1>1. Init => SessionInv
  BY DEF Init, SessionInv, GroupAfterFourWay, RekeyTimerHasPtk
<1>2. TypeOK /\ SessionInv /\ [Next]_vars => SessionInv'
  BY SessionStep
<1> QED
  BY <1>1, <1>2, TypeInit, TypeStep, PTL DEF Spec

\* Without roaming, the PTK rekey timer never outlives its PTK: the request it
\* sends can carry a MIC.
THEOREM TimerHasPtk ==
    ASSUME Roam = FALSE
    PROVE  Spec => []RekeyTimerHasPtk
<1>1. SessionInv => RekeyTimerHasPtk
  BY DEF SessionInv
<1> QED BY <1>1, SessionAlways, PTL

\* Without roaming, no association starts with msg_3_of_4_ok left over from an
\* earlier one, so that a group key message is rejected until message 3/4.
THEOREM FourWayFirst ==
    ASSUME Roam = FALSE
    PROVE  Spec => []GroupAfterFourWay
<1>1. SessionInv => GroupAfterFourWay
  BY DEF SessionInv
<1> QED BY <1>1, SessionAlways, PTL
=============================================================================
