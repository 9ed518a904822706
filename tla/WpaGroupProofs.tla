--------------------------- MODULE WpaGroupProofs ---------------------------
(***************************************************************************)
(* Proofs about the group key state machine: type correctness, the         *)
(* bookkeeping of GKeyDoneStations, when the driver switches to a new GTK, *)
(* that a completed update has delivered the current GTK, and that every   *)
(* station that is waited for has a timer.                                 *)
(***************************************************************************)
EXTENDS WpaGroup, FiniteSetTheorems, TLAPS

USE DEF groupVars, ptkVars, gVars, netVars

\* Cardinalities of the sets of stations the counter is compared with.
LEMMA StationSets ==
    ASSUME NEW S \in SUBSET Stations
    PROVE  /\ IsFiniteSet(S) /\ Cardinality(S) \in Nat
           /\ Cardinality(S) = 0 <=> S = {}
           /\ \A s : Cardinality(S \ {s}) =
                 IF s \in S THEN Cardinality(S) - 1 ELSE Cardinality(S)
<1>1. IsFiniteSet(S)
  BY FS_Subset, GroupAssumption
<1> QED BY <1>1, FS_CardinalityType, FS_EmptySet, FS_RemoveElement

\* The counter of a group step and of the guarded decrement is an integer.
LEMMA GroupStepType ==
    ASSUME TypeOK, NEW c \in Int, GroupStep(c)
    PROVE  /\ wpa_group_state' \in {"SETKEYS", "SETKEYSDONE"}
           /\ GKeyDoneStations' \in Int
           /\ GTK' \in 1..MaxGtk /\ drvGtk' \in 1..MaxGtk
BY DEF TypeOK, GroupStep

LEMMA CountWithoutType ==
    ASSUME TypeOK, NEW s \in Stations
    PROVE  CountWithout(s) \in Int
BY DEF TypeOK, CountWithout

\* Rekeying the GTK preserves the types.
LEMMA SetKeysType ==
    ASSUME TypeOK, NEW t \in SUBSET Stations, SetKeys(t),
           UNCHANGED <<ptkVars, ack, staGtk, is_wnmsleep, env>>
    PROVE  TypeOK'
<1> DEFINE marked == Done \ is_wnmsleep
<1>1. marked \in SUBSET Stations
  BY DEF Done, In
<1>2. Cardinality(marked) \in Int
  BY <1>1, StationSets
<1>3. GTK + 1 \in 1..MaxGtk /\ 1 \in 0..UpdateCount
  BY GroupAssumption DEF TypeOK, SetKeys
<1>4. /\ wpa_ptk_group_state' \in [Stations -> {"IDLE", "REKEYNEGOTIATING"}]
      /\ GTimeoutCtr' \in [Stations -> 0..UpdateCount]
      /\ timer' \subseteq Stations
      /\ pend' \in [Stations -> SUBSET (1..MaxGtk)]
  BY <1>1, <1>3 DEF TypeOK, SetKeys, Negotiate
<1>5. /\ wpa_group_state' \in {"SETKEYS", "SETKEYSDONE"}
      /\ GKeyDoneStations' \in Int
      /\ GTK' \in 1..MaxGtk /\ drvGtk' \in 1..MaxGtk
      /\ GUpdate' \subseteq Stations
  BY <1>1, <1>2, <1>3 DEF TypeOK, SetKeys
<1> QED BY <1>4, <1>5 DEF TypeOK

LEMMA InitType == Init => TypeOK
BY GroupAssumption DEF Init, TypeOK, PtkStates

\* Every step of one station preserves the types.
LEMMA StaType ==
    ASSUME TypeOK, NEW s \in Stations, StaNext(s)
    PROVE  TypeOK'
<1> USE DEF TypeOK, PtkStates, NoPend
<1>0. CountWithout(s) \in Int /\ GKeyDoneStations \in Int
  BY CountWithoutType
<1>1. CASE RxGroupRequest(s)
  <2>1. CASE SetKeys(timer \ {s})
    BY <1>1, <2>1, SetKeysType DEF RxGroupRequest
  <2>2. CASE GKeyDoneStations # 0
    BY <1>1, <2>2 DEF RxGroupRequest
  <2> QED BY <1>1, <2>1, <2>2 DEF RxGroupRequest
<1>2. CASE Associate(s)
  BY <1>0, <1>2, GroupStepType DEF Associate
<1>3. CASE ReAssociate(s)
  BY <1>0, <1>3, GroupStepType DEF ReAssociate
<1>4. CASE AuthEvent(s)
  BY <1>0, <1>4, GroupStepType DEF AuthEvent
<1>5. CASE ReauthEvent(s)
  <2>1. GroupStep(CountWithout(s)) /\ GUpdate' \subseteq Stations
    BY <1>5 DEF ReauthEvent, EndUpdate
  <2>2. GTimeoutCtr' \in [Stations -> 0..UpdateCount]
    BY <1>5, GroupAssumption DEF ReauthEvent
  <2> QED BY <1>0, <1>5, <2>1, <2>2, GroupStepType DEF ReauthEvent
<1>6. CASE RequestNewPtk(s)
  BY <1>0, <1>6, GroupStepType DEF RequestNewPtk
<1>7. CASE Rx2of4(s)
  BY <1>0, <1>7, GroupStepType DEF Rx2of4
<1>8. CASE Rx4of4(s)
  BY <1>0, <1>8, GroupStepType DEF Rx4of4
<1>9. CASE Disassoc(s)
  BY <1>0, <1>9, GroupStepType DEF Disassoc, Initialize, EndUpdate
<1>10. CASE StaDeinit(s)
  BY <1>0, <1>10, GroupAssumption DEF StaDeinit
<1>11. ASSUME NEW gtk \in 1..MaxGtk, StaAnswer(s, gtk) PROVE TypeOK'
  BY <1>11 DEF StaAnswer
<1>12. CASE Rx2of2(s)
  <2>1. GTimeoutCtr' \in [Stations -> 0..UpdateCount]
    BY <1>12, GroupAssumption DEF Rx2of2
  <2> QED BY <1>0, <1>12, <2>1, GroupStepType DEF Rx2of2, EndUpdate
<1>13. CASE Rx2of2Oci(s)
  BY <1>13, GroupAssumption DEF Rx2of2Oci
<1>14. CASE Timeout4Way(s)
  <2>1. CASE Initialize(s)
    BY <1>0, <1>14, <2>1, GroupStepType
    DEF Timeout4Way, Initialize, EndUpdate
  <2>2. CASE UNCHANGED <<ptkVars, GUpdate, ack, timer>>
    BY <1>0, <1>14, <2>2, GroupStepType
    DEF Timeout4Way, Initialize, EndUpdate
  <2> QED BY <1>14, <2>1, <2>2 DEF Timeout4Way
<1>15. CASE TimeoutGroup(s)
  <2>1. CASE TimeoutIdle(s)
    BY <1>0, <2>1, GroupStepType DEF TimeoutIdle
  <2>2. CASE TimeoutResend(s)
    <3>1. GTimeoutCtr[s] + 1 \in 0..UpdateCount
      BY <2>2, GroupAssumption DEF TimeoutResend, MoreTries
    <3> QED BY <1>0, <2>2, <3>1, GroupStepType DEF TimeoutResend
  <2>3. CASE KeyError(s)
    <3>1. GTimeoutCtr' \in [Stations -> 0..UpdateCount]
      BY <2>3, GroupAssumption DEF KeyError
    <3> QED BY <1>0, <2>3, <3>1, GroupStepType
            DEF KeyError, Initialize, EndUpdate
  <2> QED BY <1>15, <2>1, <2>2, <2>3 DEF TimeoutGroup
<1>16. CASE WnmSleepEnter(s)
  BY <1>16 DEF WnmSleepEnter, Done, In
<1>17. CASE WnmSleepExit(s)
  <2>1. CASE s \in Done
    <3>1. GKeyDoneStations + 1 \in Int /\ 1 \in 0..UpdateCount
      BY GroupAssumption
    <3> QED BY <1>17, <2>1, <3>1, GroupStepType DEF WnmSleepExit, Negotiate
  <2>2. CASE s \notin Done
    BY <1>17, <2>2 DEF WnmSleepExit
  <2> QED BY <2>1, <2>2
<1> QED
  BY <1>1, <1>2, <1>3, <1>4, <1>5, <1>6, <1>7, <1>8, <1>9, <1>10, <1>11,
     <1>12, <1>13, <1>14, <1>15, <1>16, <1>17 DEF StaNext

LEMMA TypeStep == TypeOK /\ [Next]_vars => TypeOK'
<1> SUFFICES ASSUME TypeOK, [Next]_vars PROVE TypeOK'
  OBVIOUS
<1>1. CASE RekeyGtk
  <2>1. timer \in SUBSET Stations
    BY DEF TypeOK
  <2> QED BY <1>1, <2>1, SetKeysType DEF RekeyGtk
<1>2. ASSUME NEW s \in Stations, StaNext(s) PROVE TypeOK'
  BY <1>2, StaType
<1>3. CASE UNCHANGED vars
  BY <1>3 DEF TypeOK, vars
<1> QED BY <1>1, <1>2, <1>3 DEF Next

\* The variables of the group key state machine stay in their types.
THEOREM GroupTypeCorrect == Spec => []TypeOK
BY InitType, TypeStep, PTL DEF Spec

-----------------------------------------------------------------------------
(* The bookkeeping of the updates.                                         *)

\* Without WNM-Sleep Mode, a step of a station does one of five things to
\* the group: it runs the group state machine, ends the station's update and
\* then runs it, rekeys the GTK, removes the station, or nothing.
Runs == GUpdate' = GUpdate /\ GroupStep(GKeyDoneStations)
Removes(s) ==
    /\ GUpdate' = GUpdate \ {s}
    /\ GKeyDoneStations' = CountWithout(s)
    /\ UNCHANGED <<wpa_group_state, GTK, drvGtk>>

LEMMA StaKinds ==
    ASSUME "wnm" \notin env, NEW s \in Stations, StaNext(s)
    PROVE  /\ is_wnmsleep' \subseteq is_wnmsleep
           /\ \/ Runs
              \/ EndUpdate(s)
              \/ SetKeys(timer \ {s})
              \/ Removes(s)
              \/ UNCHANGED <<groupVars, GUpdate>>
<1>1. CASE RxGroupRequest(s)
  BY <1>1 DEF RxGroupRequest
<1>2. CASE Associate(s) \/ ReAssociate(s) \/ AuthEvent(s)
  BY <1>2 DEF Associate, ReAssociate, AuthEvent, Runs
<1>3. CASE ReauthEvent(s)
  BY <1>3 DEF ReauthEvent
<1>4. CASE RequestNewPtk(s) \/ Rx2of4(s) \/ Rx4of4(s)
  BY <1>4 DEF RequestNewPtk, Rx2of4, Rx4of4, Runs
<1>5. CASE Disassoc(s)
  BY <1>5 DEF Disassoc, Initialize
<1>6. CASE StaDeinit(s)
  BY <1>6 DEF StaDeinit, Removes
<1>7. CASE \E gtk \in 1..MaxGtk : StaAnswer(s, gtk)
  BY <1>7 DEF StaAnswer
<1>8. CASE Rx2of2(s)
  BY <1>8 DEF Rx2of2
<1>9. CASE Rx2of2Oci(s)
  BY <1>9 DEF Rx2of2Oci
<1>10. CASE Timeout4Way(s)
  BY <1>10 DEF Timeout4Way, Initialize, Runs
<1>11. CASE TimeoutGroup(s)
  BY <1>11 DEF TimeoutGroup, TimeoutIdle, TimeoutResend, MoreTries, KeyError,
               Initialize, Runs
<1>12. CASE WnmSleepEnter(s) \/ WnmSleepExit(s)
  BY <1>12 DEF WnmSleepEnter, WnmSleepExit
<1> QED BY <1>1, <1>2, <1>3, <1>4, <1>5, <1>6, <1>7, <1>8, <1>9, <1>10,
           <1>11, <1>12 DEF StaNext

Switch == SwitchWhenDone /\ drvGtk <= GTK
CountInv ==
    TypeOK /\ "wnm" \notin env /\ is_wnmsleep = {} /\ CountMatches /\ Switch

\* The environment does not change.
LEMMA EnvFixed == [Next]_vars => env' = env
BY DEF Next, vars, RekeyGtk, StaNext, RxGroupRequest, Associate, ReAssociate,
   AuthEvent, ReauthEvent, RequestNewPtk, Rx2of4, Rx4of4, Disassoc,
   StaDeinit, StaAnswer, Rx2of2, Rx2of2Oci, Timeout4Way, TimeoutGroup,
   TimeoutIdle, TimeoutResend, KeyError, WnmSleepEnter, WnmSleepExit

\* What the group step does to the second half of the invariant.
LEMMA GroupStepSwitch ==
    ASSUME TypeOK, Switch, env' = env, "wnm" \notin env,
           NEW c \in Int, GroupStep(c), c # 0 => GKeyDoneStations # 0
    PROVE  Switch'
BY DEF TypeOK, Switch, SwitchWhenDone, GroupStep

LEMMA SetKeysCount ==
    ASSUME CountInv, env' = env, NEW t \in SUBSET Stations, SetKeys(t)
    PROVE  CountMatches' /\ Switch'
<1> USE DEF CountInv
<1>1. Done \in SUBSET Stations /\ Done \ is_wnmsleep = Done
  BY DEF Done, In
<1>2. GUpdate' = Done /\ GKeyDoneStations' = Cardinality(Done)
  BY <1>1 DEF SetKeys
<1>3. CountMatches'
  BY <1>2 DEF CountMatches, CountExact
<1>4. Cardinality(Done) = 0 <=> Done = {}
  BY <1>1, StationSets
<1>5. drvGtk \in 1..GTK
  BY DEF TypeOK, Switch
<1>6. Switch'
  BY <1>1, <1>2, <1>4, <1>5 DEF TypeOK, Switch, SwitchWhenDone, SetKeys
<1> QED BY <1>3, <1>6

LEMMA CountStep == CountInv /\ [Next]_vars => CountInv'
<1> SUFFICES ASSUME CountInv, [Next]_vars PROVE CountInv'
  OBVIOUS
<1> USE DEF CountInv, CountExact
<1>0. env' = env
  BY EnvFixed
<1>1. TypeOK'
  BY TypeStep
<1>2. GUpdate \in SUBSET Stations /\ timer \in SUBSET Stations
  BY DEF TypeOK
<1>3. CASE RekeyGtk
  BY <1>0, <1>1, <1>2, <1>3, SetKeysCount DEF RekeyGtk
<1>4. ASSUME NEW s \in Stations, StaNext(s) PROVE CountInv'
  <2>1. is_wnmsleep' = {}
    BY <1>0, <1>4, StaKinds
  <2>2. CountWithout(s) = Cardinality(GUpdate \ {s}) /\ CountWithout(s) \in Int
    BY <1>0, <1>2, StationSets, CountWithoutType DEF CountMatches, CountWithout
  <2>3. CountWithout(s) # 0 => GKeyDoneStations # 0
    <3>1. GUpdate = {} => CountWithout(s) = 0
      BY <1>0, <1>2, StationSets DEF CountMatches, CountWithout
    <3> QED BY <1>2, <3>1, StationSets DEF CountMatches
  <2>4. CASE Runs
    <3>1. CountMatches'
      BY <1>0, <2>4 DEF Runs, GroupStep, CountMatches
    <3>2. Switch'
      BY <1>0, <2>4, GroupStepSwitch DEF Runs, TypeOK
    <3> QED BY <1>0, <1>1, <2>1, <3>1, <3>2
  <2>5. CASE EndUpdate(s)
    <3>1. CountMatches'
      BY <1>0, <2>2, <2>5 DEF EndUpdate, GroupStep, CountMatches
    <3>2. Switch'
      BY <1>0, <2>2, <2>3, <2>5, GroupStepSwitch DEF EndUpdate
    <3> QED BY <1>0, <1>1, <2>1, <3>1, <3>2
  <2>6. CASE SetKeys(timer \ {s})
    BY <1>0, <1>1, <1>2, <2>1, <2>6, SetKeysCount
  <2>7. CASE Removes(s)
    <3>1. CountMatches'
      BY <1>0, <2>2, <2>7 DEF Removes, CountMatches
    <3>2. Switch'
      BY <1>0, <2>3, <2>7 DEF Removes, Switch, SwitchWhenDone
    <3> QED BY <1>0, <1>1, <2>1, <3>1, <3>2
  <2>8. CASE UNCHANGED <<groupVars, GUpdate>>
    BY <1>0, <1>1, <2>1, <2>8 DEF CountMatches, Switch, SwitchWhenDone
  <2> QED BY <1>4, <2>4, <2>5, <2>6, <2>7, <2>8, StaKinds
<1>5. CASE UNCHANGED vars
  BY <1>0, <1>1, <1>5 DEF vars, CountMatches, Switch, SwitchWhenDone
<1> QED BY <1>3, <1>4, <1>5 DEF Next

LEMMA CountInit == Init => "wnm" \in env \/ CountInv
BY InitType, FS_EmptySet DEF Init, CountInv, CountMatches, CountExact, Switch,
   SwitchWhenDone

LEMMA CountAlways == Spec => []("wnm" \in env \/ CountInv)
<1>1. ("wnm" \in env \/ CountInv) /\ [Next]_vars
         => ("wnm" \in env \/ CountInv)'
  BY CountStep, EnvFixed
<1> QED BY <1>1, CountInit, PTL DEF Spec

\* Without WNM-Sleep Mode, GKeyDoneStations is always the number of stations
\* marked with GUpdateStationKeys, whatever ends their updates.
THEOREM CountCorrect == Spec => []CountMatches
<1>1. "wnm" \in env \/ CountInv => CountMatches
  BY DEF CountInv, CountMatches
<1> QED BY <1>1, CountAlways, PTL

\* Without WNM-Sleep Mode, the driver uses the current GTK as soon as, and
\* only when, no station is waited for.
THEOREM SwitchCorrect == Spec => []SwitchWhenDone
<1>1. "wnm" \in env \/ CountInv => SwitchWhenDone
  BY DEF CountInv, Switch, SwitchWhenDone
<1> QED BY <1>1, CountAlways, PTL

-----------------------------------------------------------------------------
(* Completed updates have delivered the current GTK.                       *)

\* Nothing that concerns station x changes.
Same(x) ==
    /\ pend'[x] = pend[x] /\ ack'[x] = ack[x] /\ staGtk'[x] = staGtk[x]
    /\ wpa_ptk_state'[x] = wpa_ptk_state[x]
    /\ x \in GUpdate' <=> x \in GUpdate
    /\ x \in timer' <=> x \in timer
    /\ GTK' = GTK

LEMMA SameDelivery ==
    ASSUME NEW x \in Stations, Delivery(x), Same(x)
    PROVE  Delivery(x)'
BY DEF Delivery, Same, Done, In

\* A step of one station that does not rekey the GTK leaves the others alone.
LEMMA OthersSame ==
    ASSUME TypeOK, "wnm" \notin env, NEW s \in Stations, StaNext(s),
           ~SetKeys(timer \ {s}), NEW x \in Stations, x # s
    PROVE  Same(x)
<1> USE DEF TypeOK, Same, NoPend, GroupStep
<1>1. CASE RxGroupRequest(s)
  BY <1>1 DEF RxGroupRequest
<1>2. CASE Associate(s) \/ ReAssociate(s) \/ AuthEvent(s)
  BY <1>2 DEF Associate, ReAssociate, AuthEvent
<1>3. CASE ReauthEvent(s)
  BY <1>3 DEF ReauthEvent, EndUpdate
<1>4. CASE RequestNewPtk(s) \/ Rx2of4(s) \/ Rx4of4(s)
  BY <1>4 DEF RequestNewPtk, Rx2of4, Rx4of4
<1>5. CASE Disassoc(s)
  BY <1>5 DEF Disassoc, Initialize, EndUpdate
<1>6. CASE StaDeinit(s)
  BY <1>6 DEF StaDeinit
<1>7. CASE \E gtk \in 1..MaxGtk : StaAnswer(s, gtk)
  BY <1>7 DEF StaAnswer
<1>8. CASE Rx2of2(s)
  BY <1>8 DEF Rx2of2, EndUpdate
<1>9. CASE Rx2of2Oci(s)
  BY <1>9 DEF Rx2of2Oci
<1>10. CASE Timeout4Way(s)
  <2>1. CASE Initialize(s) /\ timer' \in {timer, timer \ {s}}
    BY <1>10, <2>1 DEF Timeout4Way, Initialize, EndUpdate
  <2>2. CASE UNCHANGED <<ptkVars, GUpdate, ack, timer>>
    BY <1>10, <2>2 DEF Timeout4Way, Initialize, EndUpdate
  <2> QED BY <1>10, <2>1, <2>2 DEF Timeout4Way
<1>11. CASE TimeoutGroup(s)
  BY <1>11 DEF TimeoutGroup, TimeoutIdle, TimeoutResend, MoreTries, KeyError,
               Initialize, EndUpdate
<1>12. CASE WnmSleepEnter(s) \/ WnmSleepExit(s)
  BY <1>12 DEF WnmSleepEnter, WnmSleepExit
<1> QED BY <1>1, <1>2, <1>3, <1>4, <1>5, <1>6, <1>7, <1>8, <1>9, <1>10,
           <1>11, <1>12 DEF StaNext

\* The station itself.
LEMMA SelfDelivery ==
    ASSUME TypeOK, "wnm" \notin env, NEW s \in Stations, StaNext(s),
           ~SetKeys(timer \ {s}), Delivery(s)
    PROVE  Delivery(s)'
<1> USE DEF TypeOK, Delivery, NoPend, GroupStep, Done, In
<1>1. CASE RxGroupRequest(s)
  BY <1>1 DEF RxGroupRequest
<1>2. CASE Associate(s) \/ ReAssociate(s)
  BY <1>2 DEF Associate, ReAssociate
<1>3. CASE AuthEvent(s)
  BY <1>3 DEF AuthEvent
<1>4. CASE ReauthEvent(s)
  BY <1>4 DEF ReauthEvent, EndUpdate
<1>5. CASE RequestNewPtk(s) \/ Rx2of4(s) \/ Rx4of4(s)
  <2>1. CASE RequestNewPtk(s)
    BY <2>1 DEF RequestNewPtk
  <2>2. CASE Rx2of4(s)
    BY <2>2 DEF Rx2of4
  <2>3. CASE Rx4of4(s)
    BY <2>3 DEF Rx4of4
  <2> QED BY <1>5, <2>1, <2>2, <2>3
<1>6. CASE Disassoc(s)
  BY <1>6 DEF Disassoc, Initialize, EndUpdate
<1>7. CASE StaDeinit(s)
  BY <1>7 DEF StaDeinit
<1>8. CASE \E gtk \in 1..MaxGtk : StaAnswer(s, gtk)
  BY <1>8 DEF StaAnswer
<1>9. CASE Rx2of2(s)
  BY <1>9 DEF Rx2of2, EndUpdate
<1>10. CASE Rx2of2Oci(s)
  BY <1>10 DEF Rx2of2Oci
<1>11. CASE Timeout4Way(s)
  <2>1. CASE Initialize(s)
    BY <1>11, <2>1 DEF Timeout4Way, Initialize, EndUpdate
  <2>2. CASE UNCHANGED <<ptkVars, GUpdate, ack, timer>>
    BY <1>11, <2>2 DEF Timeout4Way, Initialize, EndUpdate
  <2> QED BY <1>11, <2>1, <2>2 DEF Timeout4Way
<1>12. CASE TimeoutGroup(s)
  <2>1. CASE TimeoutIdle(s)
    BY <2>1 DEF TimeoutIdle
  <2>2. CASE TimeoutResend(s)
    BY <2>2 DEF TimeoutResend
  <2>3. CASE KeyError(s)
    BY <2>3 DEF KeyError, Initialize, EndUpdate
  <2> QED BY <1>12, <2>1, <2>2, <2>3 DEF TimeoutGroup
<1>13. CASE WnmSleepEnter(s) \/ WnmSleepExit(s)
  BY <1>13 DEF WnmSleepEnter, WnmSleepExit
<1> QED BY <1>1, <1>2, <1>3, <1>4, <1>5, <1>6, <1>7, <1>8, <1>9, <1>10,
           <1>11, <1>12, <1>13 DEF StaNext

\* Only a group key request lets a station's step rekey the GTK.
LEMMA OnlyRequestRekeys ==
    ASSUME "wnm" \notin env, NEW s \in Stations, StaNext(s), GTK' # GTK
    PROVE  RxGroupRequest(s)
BY DEF StaNext, Associate, ReAssociate, AuthEvent, ReauthEvent,
       RequestNewPtk, Rx2of4, Rx4of4, Disassoc, StaDeinit, StaAnswer, Rx2of2,
       Rx2of2Oci, Timeout4Way, TimeoutGroup, TimeoutIdle, TimeoutResend,
       MoreTries,
       KeyError, WnmSleepEnter, WnmSleepExit, Initialize, EndUpdate, GroupStep

\* The step that ends the update of a station that stays connected is an
\* answer to a message with the current GTK.
LEMMA EndsDelivered ==
    ASSUME TypeOK, "wnm" \notin env, is_wnmsleep = {},
           NEW s \in Stations, StaNext(s), Delivery(s),
           s \in GUpdate \ GUpdate', wpa_ptk_state'[s] = "PTKINITDONE"
    PROVE  staGtk'[s] = GTK'
<1>1. CASE Rx2of2(s)
  <2>1. s \in Done /\ ack[s] # {} /\ staGtk' = staGtk /\ GTK' = GTK
    BY <1>1 DEF Rx2of2, EndUpdate, GroupStep, Done, In
  <2>2. GTK \in ack[s]
    BY <2>1 DEF Delivery
  <2>3. GTK <= staGtk[s] /\ staGtk[s] <= GTK /\ staGtk[s] \in 0..MaxGtk
    BY <2>2 DEF Delivery, TypeOK
  <2> QED BY <2>1, <2>3 DEF TypeOK
<1>2. CASE RxGroupRequest(s)
  <2>1. wpa_ptk_state' = wpa_ptk_state
    BY <1>2 DEF RxGroupRequest
  <2> QED BY <1>2, <2>1 DEF RxGroupRequest, SetKeys, Done, In
<1>3. CASE Timeout4Way(s) \/ TimeoutGroup(s) \/ Disassoc(s)
  BY <1>3 DEF Timeout4Way, TimeoutGroup, TimeoutIdle, TimeoutResend,
     MoreTries,
              KeyError, Disassoc, Initialize, TypeOK
<1>4. CASE ReauthEvent(s) \/ StaDeinit(s)
  BY <1>4 DEF ReauthEvent, StaDeinit, TypeOK
<1>5. CASE \/ Associate(s) \/ ReAssociate(s) \/ AuthEvent(s)
           \/ RequestNewPtk(s) \/ Rx2of4(s) \/ Rx4of4(s) \/ Rx2of2Oci(s)
           \/ \E gtk \in 1..MaxGtk : StaAnswer(s, gtk)
           \/ WnmSleepEnter(s) \/ WnmSleepExit(s)
  BY <1>5 DEF Associate, ReAssociate, AuthEvent, RequestNewPtk, Rx2of4,
              Rx4of4, Rx2of2Oci, StaAnswer, WnmSleepEnter, WnmSleepExit
<1> QED BY <1>1, <1>2, <1>3, <1>4, <1>5 DEF StaNext

\* A rekeying that starts when no station is waited for.
LEMMA SetKeysDelivery ==
    ASSUME TypeOK, is_wnmsleep = {}, GUpdate = {}, DeliverInv,
           NEW t \in SUBSET timer, SetKeys(t),
           UNCHANGED <<ptkVars, ack, staGtk>>
    PROVE  DeliverInv'
<1> SUFFICES ASSUME NEW x \in Stations PROVE Delivery(x)'
  BY DEF DeliverInv
<1>1. Delivery(x)
  BY DEF DeliverInv
<1>2. GUpdate' = Done /\ Done' = Done /\ GTK' = GTK + 1
  BY DEF SetKeys, Done, In
<1>3. x \in Done => pend'[x] \subseteq {GTK + 1} /\ ack[x] = {} /\ pend[x] = {}
  BY <1>1 DEF SetKeys, Negotiate, Delivery
<1>4. x \notin Done => pend'[x] = pend[x]
  BY DEF SetKeys, Negotiate
<1> QED BY <1>1, <1>2, <1>3, <1>4 DEF TypeOK, Delivery

\* Without WNM-Sleep Mode and overlapping rekeyings, a group key update that
\* ends with the station still connected has delivered the current GTK: no
\* late or repeated message completes it.
THEOREM DeliveryCorrect == Spec => UpdateDelivers
<1> DEFINE Simple == env \cap {"wnm", "overlap"} = {}
           Inv == Simple => CountInv /\ DeliverInv
<1>1. Init => Inv
  <2>1. Init => DeliverInv
    BY DEF Init, DeliverInv, Delivery, Done, In
  <2> QED BY <2>1, CountInit
<1>2. Inv /\ [Next]_vars => Inv'
  <2> SUFFICES ASSUME Simple, CountInv, DeliverInv, [Next]_vars
               PROVE  DeliverInv'
    BY CountStep, EnvFixed
  <2> USE DEF CountInv, CountExact
  <2>1. GKeyDoneStations = 0 => GUpdate = {}
    BY StationSets DEF TypeOK, CountMatches
  <2>2. CASE RekeyGtk
    <3>1. GKeyDoneStations = 0
      BY <2>2 DEF RekeyGtk, Switch, SwitchWhenDone
    <3> QED BY <2>1, <2>2, <3>1, SetKeysDelivery DEF RekeyGtk
  <2>3. ASSUME NEW s \in Stations, StaNext(s) PROVE DeliverInv'
    <3>1. CASE ~SetKeys(timer \ {s})
      <4> SUFFICES ASSUME NEW x \in Stations PROVE Delivery(x)'
        BY DEF DeliverInv
      <4>1. Delivery(x) /\ Delivery(s)
        BY DEF DeliverInv
      <4> QED BY <2>3, <3>1, <4>1, OthersSame, SameDelivery, SelfDelivery
    <3>2. CASE SetKeys(timer \ {s})
      <4>1. GTK' # GTK
        BY <3>2 DEF SetKeys, TypeOK
      <4>2. RxGroupRequest(s)
        BY <2>3, <4>1, OnlyRequestRekeys
      <4>3. GKeyDoneStations = 0 /\ UNCHANGED <<ptkVars, ack, staGtk>>
        BY <4>1, <4>2 DEF RxGroupRequest
      <4> QED BY <2>1, <3>2, <4>3, SetKeysDelivery
    <3> QED BY <3>1, <3>2
  <2>4. CASE UNCHANGED vars
    BY <2>4 DEF vars, DeliverInv, Delivery, Done, In
  <2> QED BY <2>2, <2>3, <2>4 DEF Next
<1>3. Inv /\ [Next]_vars =>
        [Simple => \A s \in GUpdate \ GUpdate' :
            wpa_ptk_state'[s] = "PTKINITDONE" => staGtk'[s] = GTK']_vars
  <2> SUFFICES ASSUME Simple, CountInv, DeliverInv, Next, NEW x \in GUpdate \ GUpdate',
                      wpa_ptk_state'[x] = "PTKINITDONE"
               PROVE  staGtk'[x] = GTK'
    BY DEF vars
  <2> USE DEF CountInv
  <2>1. x \in Stations
    BY DEF TypeOK
  <2>2. ASSUME NEW s \in Stations, StaNext(s), x = s PROVE staGtk'[x] = GTK'
    BY <2>2, EndsDelivered DEF DeliverInv
  <2>3. ASSUME NEW s \in Stations, StaNext(s), x # s,
               ~SetKeys(timer \ {s}) PROVE FALSE
    BY <2>1, <2>3, OthersSame DEF Same
  <2>4. ASSUME NEW t \in SUBSET timer, SetKeys(t),
               UNCHANGED <<ptkVars, ack, staGtk>> PROVE FALSE
    BY <2>1, <2>4 DEF SetKeys, Done, In
  <2>5. ASSUME NEW s \in Stations, StaNext(s), SetKeys(timer \ {s})
        PROVE FALSE
    <3>1. RxGroupRequest(s)
      BY <2>5, OnlyRequestRekeys DEF SetKeys, TypeOK
    <3> QED BY <2>4, <2>5, <3>1 DEF RxGroupRequest
  <2> QED BY <2>2, <2>3, <2>4, <2>5 DEF Next, RekeyGtk
<1> QED BY <1>1, <1>2, <1>3, PTL DEF Spec, UpdateDelivers
-----------------------------------------------------------------------------
(* Stations that are waited for have a timer.                              *)

\* The environments WaitHasTimer is about.
Undisturbed == env \cap {"ptkrekey", "request", "reassoc"} = {}

\* WaitHasTimer is not inductive: a rekeying starts no timer for a station
\* that negotiates already.  Such a station is waited for, and so has one,
\* unless it was disconnected meanwhile.
Waiting(s) ==
    /\ s \in GUpdate => /\ s \in timer /\ s \in Done
                        /\ wpa_ptk_group_state[s] = "REKEYNEGOTIATING"
    /\ wpa_ptk_group_state[s] = "REKEYNEGOTIATING" =>
          s \in GUpdate \/ wpa_ptk_state[s] = "INITIALIZE"
WaitInv == \A s \in Stations : Waiting(s)

\* A rekeying of the GTK that leaves the timers alone.
LEMMA SetKeysWaiting ==
    ASSUME TypeOK, WaitInv, SetKeys(timer), wpa_ptk_state' = wpa_ptk_state
    PROVE  WaitInv'
BY DEF TypeOK, WaitInv, Waiting, SetKeys, Negotiate, Done, In

\* What a step of station s leaves alone of another station, also with
\* WNM-Sleep Mode.
SameWait(x) ==
    /\ wpa_ptk_state'[x] = wpa_ptk_state[x]
    /\ wpa_ptk_group_state'[x] = wpa_ptk_group_state[x]
    /\ x \in GUpdate' <=> x \in GUpdate
    /\ x \in timer' <=> x \in timer

\* A step of station s keeps the invariant for s, and for the other stations.
LEMMA StaWaiting ==
    ASSUME TypeOK, Undisturbed, WaitInv, NEW s \in Stations, StaNext(s)
    PROVE  WaitInv'
<1> SUFFICES Waiting(s)' /\ \A x \in Stations \ {s} : SameWait(x)
  BY DEF WaitInv, Waiting, SameWait, Done, In
<1>0. Waiting(s)
  BY DEF WaitInv
<1> USE <1>0 DEF TypeOK, Undisturbed, Waiting, SameWait, Done, In
<1>1. CASE RxGroupRequest(s) \/ ReAssociate(s) \/ RequestNewPtk(s)
  BY <1>1 DEF RxGroupRequest, ReAssociate, RequestNewPtk
<1>2. CASE Associate(s)
  BY <1>2 DEF Associate
<1>3. CASE AuthEvent(s)
  BY <1>3 DEF AuthEvent
<1>4. CASE ReauthEvent(s)
  BY <1>4 DEF ReauthEvent, EndUpdate
<1>5. CASE Rx2of4(s)
  BY <1>5 DEF Rx2of4
<1>6. CASE Rx4of4(s)
  BY <1>6 DEF Rx4of4
<1>7. CASE Disassoc(s)
  BY <1>7 DEF Disassoc, Initialize, EndUpdate
<1>8. CASE StaDeinit(s)
  BY <1>8 DEF StaDeinit
<1>9. CASE \E gtk \in 1..MaxGtk : StaAnswer(s, gtk)
  BY <1>9 DEF StaAnswer
<1>10. CASE Rx2of2(s)
  BY <1>10 DEF Rx2of2, EndUpdate
<1>11. CASE Rx2of2Oci(s)
  BY <1>11 DEF Rx2of2Oci
<1>12. CASE Timeout4Way(s)
  <2>1. CASE Initialize(s) /\ timer' \in {timer, timer \ {s}}
    BY <1>12, <2>1 DEF Timeout4Way, Initialize, EndUpdate
  <2>2. CASE UNCHANGED <<ptkVars, GUpdate, ack, timer>>
    BY <1>12, <2>2 DEF Timeout4Way
  <2> QED BY <1>12, <2>1, <2>2 DEF Timeout4Way
<1>13. CASE TimeoutIdle(s)
  BY <1>13 DEF TimeoutIdle
<1>14. CASE TimeoutResend(s)
  BY <1>14 DEF TimeoutResend
<1>15. CASE KeyError(s)
  BY <1>15 DEF KeyError, Initialize, EndUpdate
<1>16. CASE WnmSleepEnter(s)
  BY <1>16 DEF WnmSleepEnter
<1>17. CASE WnmSleepExit(s)
  <2>1. CASE s \in Done
    BY <1>17, <2>1 DEF WnmSleepExit, Negotiate
  <2>2. CASE s \notin Done
    BY <1>17, <2>2 DEF WnmSleepExit
  <2> QED BY <2>1, <2>2
<1> QED BY <1>1, <1>2, <1>3, <1>4, <1>5, <1>6, <1>7, <1>8, <1>9, <1>10,
           <1>11, <1>12, <1>13, <1>14, <1>15, <1>16, <1>17
        DEF StaNext, TimeoutGroup

\* Unless the PTK is rekeyed, a GTK requested or the station associates again,
\* every station whose answer the group waits for has its retransmission timer
\* registered: the rekeying goes on, or the station is disconnected.
THEOREM TimerCorrect == Spec => []WaitHasTimer
<1> DEFINE Inv == Undisturbed => WaitInv
<1>1. Init => Inv
  BY DEF Init, WaitInv, Waiting
<1>2. TypeOK /\ Inv /\ [Next]_vars => Inv'
  <2> SUFFICES ASSUME TypeOK, Undisturbed, WaitInv, [Next]_vars PROVE WaitInv'
    BY EnvFixed DEF Undisturbed
  <2>1. CASE RekeyGtk
    BY <2>1, SetKeysWaiting DEF RekeyGtk
  <2>2. ASSUME NEW s \in Stations, StaNext(s) PROVE WaitInv'
    BY <2>2, StaWaiting
  <2>3. CASE UNCHANGED vars
    BY <2>3 DEF vars, WaitInv, Waiting, Done, In
  <2> QED BY <2>1, <2>2, <2>3 DEF Next
<1>3. TypeOK /\ Inv => WaitHasTimer
  BY DEF TypeOK, WaitInv, Waiting, WaitHasTimer, Undisturbed
<1> QED BY <1>1, <1>2, <1>3, GroupTypeCorrect, PTL DEF Spec
=============================================================================
