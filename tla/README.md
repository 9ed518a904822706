# A TLA+ development of wpa_supplicant 2.10

The repository (`src/wpa_supplicant-2.10`) holds wpa_supplicant and the parts
of hostapd it is built with.  Its core is key management: the Supplicant in
`src/rsn_supp/wpa.c`, the Authenticator in `src/ap/wpa_auth.c`, and the code
of `wpa_supplicant/` and `src/ap/` that feeds them events.  Around it are
modelled what comes before the key handshake (IEEE 802.1X and EAP on both ends),
the queue that shares the radio among scans, connections and other operations,
and the secured mesh, where two equal stations authenticate with SAE and open a
link.  The rest is inventoried below.  File names in this document are relative
to `src/wpa_supplicant-2.10`.

## 1. Inventory

Everything runs in one thread under `src/utils/eloop.c`: a handler (frame,
driver event, timer, control command) runs to its end before the next one.
What is concurrent is the other end of the link, the driver and the timers, so
the hard behaviour is the *order* in which handlers run: frames that are lost,
repeated, late or answered twice; timers that were not cancelled; state of the
previous association; a handler that stops half way.

| component | state it keeps | operations | interacts with | what makes it correct |
|---|---|---|---|---|
| Supplicant key management, `src/rsn_supp/wpa.c` | nonces, TPTK and PTK, group keys, replay counter, flags such as `ptk.installed`, `msg_3_of_4_ok` | messages 1/4, 3/4, 1/2, requests, association and disassociation | EAPOL frames from the AP, `set_key` of the driver, events of `wpa_supplicant/events.c` | a key is installed once; flags agree with the driver; replay counters only grow |
| association control, `wpa_supplicant/wpa_supplicant.c`, `events.c` | `wpa_state`, authentication timer, a pending EAPOL frame | associate, event handlers, timeout, deauthenticate | driver events, the above | an attempt completes or is given up |
| Authenticator PTK machine, `src/ap/wpa_auth.c` | state, nonces, PTK, valid replay counters, retry counter, timers | events of the station table, messages 2/4, 4/4, requests, timeouts | frames, `set_key`, the group machine | a key is installed once and after the station; waiting has a timer |
| Authenticator group machine, `src/ap/wpa_auth.c` | GTK, `GKeyDoneStations`, per station `GUpdateStationKeys` and retry counter | rekey, message 2/2, timeouts, everything that ends an update | all stations' PTK machines, WNM-Sleep Mode | the count is the number of marked stations; the switch happens when it is zero; rekeying ends |
| WNM-Sleep Mode, `src/ap/wnm_ap.c`, `wpa_supplicant/wnm_sta.c` | sleeping stations, keys received on exit | enter, exit | both of the above | sleepers are not updated and are updated on exit |
| EAPOL machines, `src/eapol_supp`, `src/eapol_auth`, `src/ap/ieee802_1x.c` | PAE and backend states, the flags they share with EAP, timers | frames, timers, EAP results, logoff, reauthentication | EAP, the key machines (`keyRun`, `portValid`), port control | nobody waits for something that will not come; one answer per request; both ends hold the same key; the key handshake starts with a new one |
| EAP peer and server, `src/eap_peer/eap.c`, `src/eap_server/eap_server.c` | last request and response, Identifiers, decision, key | requests, responses, retransmission, results | the EAPOL machines, methods | duplicates are recognised; a response answers the current request |
| radio work queue, `wpa_supplicant/wpa_supplicant.c` | queue, number of active works, per interface the work in progress | add, start, done, remove, interface removal | scan, connection, GAS, external programs, driver events | works take turns as the driver allows (section 4 has the exception), no lost or freed work, no stall |
| SAE, `src/common/sae.c`, `src/ap/ieee802_11.c`, `wpa_supplicant/sme.c` | commit/confirm state, sync counter | authentication frames, retransmission timer | both sides | accepted on both sides with one PMK |
| mesh peering, `wpa_supplicant/mesh_mpm.c`, `mesh_rsn.c` | link state, nonces, link identifiers and timers per peer, number of links | open, confirm, close, timers, removal | two symmetric peers, SAE | established on both sides with one key; the number of links is right; waiting has a timer |
| PMKSA caches | entries with expiry | add, get, flush, timers | both key machines | no entry is used after it is freed; bounded |
| MKA and MACsec control, `src/pae` | participants, secure channels | MKPDUs, timers | driver | one key server, no reuse of packet numbers |
| TDLS, `src/rsn_supp/tdls.c`; FST, `src/fst`; GAS, `wpa_supplicant/gas_query.c`; RADIUS client, `src/radius` | peers, sessions, queries, requests | request, response, timeout, retry | a peer over an unreliable link | no answer to the wrong request; every request ends |
| ignored BSSIDs, BSS table, scan | bounded lists, timeouts | add, expire, select | association control | bounds |
| EAP methods, WPS, P2P, DPP | large protocol machines | frames | EAPOL, drivers | protocol order |
| cryptography, TLS, drivers, control interfaces, GUIs, configuration | - | I/O, arithmetic, parsing | - | out of scope of a model checker |

`PROJECT.json` lists all components with their status, and the hazards (what
a test would hardly reach) at the line where each one bites.

## 2. Plan

1. **Done** `EapolKey`, `WpaSm`, `WpaGroup`, `WpaAuthSm`: the two ends of the
   key handshakes, with proofs; `Handshake` composes `WpaSm` and `WpaAuthSm`
   and is shown to implement the abstract `KeyAgreement`.
2. **Done** `EapFrames`, `EapolSupp`, `EapolAuth`: the EAPOL and EAP machines of
   each end; `Dot1x` composes them with the start and the end of the key
   handshake.
3. **Done** `RadioWork`: the radio work queue and its users.
4. **Done** `MeshPeer`, `Mesh`: SAE, AMPE and the peer link state machine between
   two mesh stations.
5. **Done** Proofs of all safety invariants of `WpaSm`, `WpaAuthSm`, `WpaGroup`,
   `Dot1x`, `RadioWork` and `Mesh` (section 5).
6. **Done** Proofs of `SessionKeysAgree` and of the refinement of `KeyAgreement`, where frames
   end with their association (`LateFrames` = FALSE).
7. Later: PMKSA caches and ignored BSSIDs (timers, bounds), the event loop (the
   fairness the other modules assume), `radius_client.c`, the dialogs of
   `gas_query.c`, FST sessions, TDLS, `ieee802_1x_cp.c`; Extended Key ID and the
   group handshake in `WpaAuthSm`/`Handshake`.

## 3. Modules

Cryptography is symbolic: a PTK is the pair of its nonces, a MIC is the PTK it
was made with, group keys are abstract values (`GKeys`) or numbers in order of
generation.  Operators whose comment starts with "Mutant" are plausible wrong
versions of the definition that follows them.  They are not used by the
specifications; replacing the definition by one of them breaks the property
named in `PROJECT.json`, which shows that the property depends on that code.

* `EapolKey`: the frames of both directions, and the constructors of each
  message.  `ApFrames` are the frames with the ACK bit, `StaFrames` the others.
* `WpaSm`: the Supplicant.  `conf` is its configuration, chosen at the start
  from `Confs` (`sm->proto`, `sm->ext_key_id`, `sm->wpa_deny_ptk0_rekey`).
  `wpa_state` ... `wnmsleep_used` belong to struct
  `wpa_supplicant`, `snonce` ... `rekey_timeout` to struct `wpa_sm`, `drvPtk`,
  `drvTx`, `installs` and `gkInstalls` record what was given to the driver, and
  `igtkIgnored` the IGTKs that the driver refused and struct `wpa_sm` remembers all
  the same, because `wpa_supplicant_install_igtk()` ignores the error when the bytes of
  the KeyID are swapped (fault "keyid").  One
  action per way through a handler: `Rx3of4`, `Rx3of4Oci` and `Rx3of4Fail` are
  the three ways `wpa_supplicant_process_3_of_4()` returns, and `Stop3of4` says
  where it stops for a given fault.  A failing handler disconnects within the
  same step (`Disconnect`), as `wpa_supplicant_deauthenticate()` does.
  Every frame of `Frames` may arrive at any time, any number of times, and
  every fault of `Faults` may happen.
* `WpaAuthSm`: the PTK state machine of one station.  `wpa_sm_step()` runs the
  state machine to a fixed point within each handler, so only the states in
  which it rests appear.  `key_replay` and `prev_key_replay` are the valid
  replay counters, `alt` the alternative SNonce, `timers` the number of
  registrations of `wpa_send_eapol_timeout` (they accumulate, as
  `eloop_register_timeout` does not replace).
* `WpaGroup`: `struct wpa_group` and the PTK group state machine of every
  station.  `env`, chosen from `Envs` at the start, is the set of optional
  events that may happen; a property that the code only keeps without some of
  them says so itself.  `pend` and `ack` stand for the
  group messages whose answer would be accepted and those answered.
* `KeyAgreement`: the promise of the 4-way handshake: the Authenticator
  installs only a key the Supplicant has installed and has not replaced, and
  nobody installs a key twice.
* `Handshake`: `Sta == INSTANCE WpaSm`, `Ap == INSTANCE WpaAuthSm`, and the
  frames sent so far in each direction.  A frame may be delivered at any later
  time, any number of times or never; `LateFrames` says whether that includes the
  associations after the one it was sent in (a new association otherwise empties both
  directions, and a message that the Supplicant has kept in `pending_eapol_rx` since an
  earlier association is not processed).  `joined` orders an association: the
  Authenticator handles the association request (`Ap!Join`) before the
  Supplicant handles the association event.  `Agreement` is the refinement
  mapping: the driver's keys and installation counts of both ends.
* `EapFrames`: EAPOL and EAP frames, `[t, ty, id, n]`: kind, method, Identifier
  and the method's challenge, which stands for its key too.
* `EapolSupp`: SUPP_PAE, SUPP_BE and the EAP peer.  `eapol_sm_step()` runs the
  machines in turn until none changes; `spc` is the position in that loop, and
  one entered state is one action, so the flags are seen exactly when the code
  reads them.  `sf` is the set of flags that are true, `sTmr` the running timers,
  `peer` the EAP peer's session.  A method is one request with a challenge and any
  outcome of `Outcomes`, `pending` (it waits for the user) included.  `owed` is
  history: a received packet that was not answered yet.
* `EapolAuth`: AUTH_PAE, BE_AUTH, REAUTH_TIMER and the EAP server, in the same
  style.  A frame only sets flags and schedules `eapol_sm_step_run()` (`aPend`), so
  several may come before it runs.  `rsn` is the RSN authenticator as far as it
  matters here: it waits in AUTHENTICATION2 for `keyRun`, takes the PMK and clears
  `keyRun` (INITPMK), and is told of reauthentications on its own.
* `Dot1x`: both ends and the links between them, the events that reach both
  (association, disassociation), and the key handshake as three steps: message
  1/4 at the Supplicant, its completion with equal keys there and at the
  Authenticator (`WpaSm` and `WpaAuthSm` have its detail).  A run of one side's
  machines is finished before the next event (`Idle`), which loses nothing as the
  two sides share no memory.
* `RadioWork`: `radio` is struct `wpa_radio` with the queue, the number of active
  works and whether `radio_start_next_work()` is scheduled.  One action per
  request, per callback of the works (`StartScan`, `StartConnect`, `StartGas`,
  `StartExt`), per way a work ends and per way works are removed.  `Without(q, W)` is
  the queue without the works of `W`, the others in their order.  `sim` and `sme`
  are the driver's flags, `env` the optional events as in `WpaGroup`.
* `MeshPeer`: a mesh station's record of its peer and one operator per handler,
  from the record before to the record after with the frames it sends in `out`.
  The handlers call each other in the code (`sae_sm_step()` starts AMPE, which opens
  the link), and so do the operators.  `Mesh`: two such stations, the frames
  between them, timers, removal and restart.  Random values (commits, nonces, link
  identifiers; in `Dot1x` challenges) are unused members of a set.
* `MCWpaSm`, `MCWpaAuthSm`, `MCWpaGroup`, `MCHandshake`, `MCDot1x`, `MCRadioWork`,
  `MCMesh`: instances for TLC.
* `WpaSmProofs`, `WpaAuthSmProofs`, `WpaGroupProofs`, `HandshakeProofs`, `Dot1xProofs`,
  `RadioWorkProofs` and `MeshProofs`: theorems.  `EapolSuppProofs` holds the lemmas about the
  Supplicant that `Dot1xProofs` rests on; those about the Authenticator are in its first part.

## 4. Runs

| run | checks | what it shows |
|---|---|---|
| `sta` | `TypeOK`, `NoReinstall`, `InstalledInDriver`, `GroupInDriver`, `RekeyTimerHasPtk`, `GroupAfterFourWay`, `ReplayMonotone`, `AssocSettles` | the Supplicant, in RSN with Extended Key ID and in WPA, under arbitrary frames and every failure, without roaming; an association ends, under weak fairness of the authentication timer |
| `group` | `TypeOK`, `CountMatches`, `SwitchWhenDone`, `WaitHasTimer`, `UpdateDelivers`, `RekeyCompletes` | GTK rekeying of two stations: the count, the switch, late answers, timers, and that a rekeying ends even if stations never answer |
| `auth_all` | `TypeOK`, `NoReinstall`, `NegotiatingHasTimer`, `HandshakeEnds` | the Authenticator under arbitrary answers and failures; a 4-way handshake that waits has a timer, and retries or gives up |
| `handshake_rekey` | `SessionKeysAgree`, `ImplementsAgreement` | both ends and a network that loses, repeats and reorders frames implement `KeyAgreement` and finish with the same key, with retransmissions, PTK rekeying by either end and roaming, where frames end with their association |
| `dot1x` | `TypeOK`, `SuppQuiescent`, `AnsweredOnce`, `KeyRunFresh`, `KeysAgree`, `ResponseFresh`, `LoopsEnd`, `TickRuns` | the two EAPOL/EAP ends neither wait for each other for ever nor loop, answer a request once, and start the key handshake with the same, new key |
| `radio` | `TypeOK`, `ActiveCount`, `WorkPointers`, `RadioShared`, `NoStall`, `Drains` | two interfaces share a radio; works are counted, referred to and started whatever ends or removes them, and the queue runs empty |
| `mesh` | `TypeOK`, `LinkKeysAgree`, `SaeKeysAgree`, `PlinkCount`, `WaitsHaveTimer` | two mesh stations that open, lose, remove and reopen their link |

Five runs show where a comment in the code or its README says something the code does
not do (`findings` in `PROJECT.json`):

* `sta_bigtk`: the BIGTK is not dropped with the other keys.
* `group_wnm`: a repeated exit from WNM-Sleep Mode counts a station twice
  (`CountExact`; `CountMatches` is the same without WNM-Sleep Mode).
* `radio_stall`: an external radio work that is removed with its interface leaves
  `ext_work_in_progress` set, and later works of the interface are not started.
* `radio_exclusive`: `radio_add_work()` is for operations that require "exclusive radio
  control", but on a driver without simultaneous operations `radio_start_next_work()`
  looks at the first work of the queue only.  A connection attempt is put in front;
  if `radio_remove_works()` has scheduled the start of the next work while a scan runs
  (a disconnection, or `sme_authenticate()` called a second time), the attempt is started
  beside the scan.  `RadioShared`, checked and proved, is what is left: no two works
  run that are not connection attempts.
* `handshake_late`: when frames of the previous association still arrive, the two ends can
  finish with different keys, so that no data can be exchanged.
  A message 2/4 of the previous association, received after message 3/4 was sent,
  matches `prev_key_replay` with another SNonce; its MIC fails, and the Authenticator is
  back in PTKCALCNEGOTIATING and sends message 1/4 again, with the same ANonce.  The
  Supplicant answers one message 1/4 and then, having installed that key,
  a later one with a new SNonce.  The Authenticator takes the first answer, then the
  second as an alternative SNonce, and sends message 3/4 for each; the Supplicant
  answers both, and the message 4/4 of the first is accepted through
  `wpa_try_alt_snonce()` (`src/ap/wpa_auth.c:933`) although the Supplicant has since installed the
  second key.  It takes three tries of a message; `PairwiseUpdateCount` is 4 by default.
  Without late frames `SessionKeysAgree` and the refinement of `KeyAgreement` are proved for all
  constants (section 5).  A message 1/4 kept in `pending_eapol_rx` from an earlier
  association counts as a late frame: the same course of events can arise from it,
  with more handshakes.  The code drops a pending frame that is older than 200 ms.

More differences were met while modelling; the actions model what the
code does, and the runs leave them out where they matter:

* `msg_3_of_4_ok` is not cleared by `wpa_sm_notify_assoc()`, so
  `GroupAfterFourWay` is checked without roaming.  For the same reason
  `RekeyTimerHasPtk` is: a roaming Supplicant keeps the rekey timer of the
  previous PTK.  `NoReinstall` and `InstalledInDriver` are proved with roaming.
* `wpa_group_update_sta()` says of a station that is marked already "This
  should not really happen", but it does whenever a rekeying starts before the
  previous one was answered ("overlap" in `env`).
* Message 1/2 is retransmitted to a station that entered WNM-Sleep Mode after it
  was first sent, although `wnm_ap.c` marks the station "so that AP won't update
  GTK/IGTK/BIGTK during WNM Sleep".  An update started by the exit may also
  overlap a rekeying, so `UpdateDelivers` is stated without "wnm".
* In `Mesh`, a commit to a peer that was accepted from the PMKSA cache clears the
  SAE instance (`sae_group_allowed()` sets the group again) and ends in a second
  AMPE exchange while the link is established.  `num_plinks` is incremented again
  at its end and decremented once: `PlinkCount` states the drift (`again`).
* A confirm that arrives in ACCEPTED is always rejected, because
  `sae_accept_sta()` moves the scalar the check needs.
* `mesh_mpm_plink_close()` leaves a removed peer in HOLDING without a timer, so
  `WaitsHaveTimer` excepts it (`removed`).
* After a logoff and logon the EAP peer has dropped its key but kept its decision;
  message 1/4 then makes it succeed without a key, and the handshake fails:
  `KeysAgree` allows a key that is not there.
* In `RadioWork`, an interface that is disabled while an external scan runs on it
  keeps `external_scan_req_interface` until the next scan event, so `NoStall` and
  `Drains` leave out this pair of events (`Steady`), and external works.
  `Drains` also leaves out scans whose results cannot be fetched.
* An IGTK that the driver refused for its KeyID, and whose refusal was ignored, is
  remembered as if it was configured.  When the AP sends the same IGTK with a right KeyID
  later in the session it is not configured.  `GroupInDriver` excepts these IGTKs
  (`igtkIgnored`); it has no exception for a GTK.

### Bounds

On the Supplicant `MaxSnonce` 2 gives a key and its successor; with replay
counters 0..3 a complete handshake can be followed by a rekeying whose messages
mix with those of the first.  The configuration (`conf`) is one of two: RSN with
Extended Key ID, and WPA with `wpa_deny_ptk0_rekey`; the same frames, with Key IDs
0, 1 and none, go to both, so that each also gets what is meant for the other.  Counter
1 is used with the first key, counter 3 with both: a retransmission and a rekeying.  On the Authenticator
`MaxAnonce` 3 and `MaxRc` 8 leave room for retransmissions within three
handshakes, with 4 counters kept (`MaxReplay`, the code's own limit).
`PairwiseUpdateCount` and `UpdateCount` are 2 (the default is 4): one first try
and one retry, so both sides of the limit occur; `handshake_late` needs 3.  Two stations are enough for one to end its update
while another is waited for.
`MaxGtk` 3 allows two overlapping rekeyings.  In `Handshake`, replay counters up
to 5 (`handshake_rekey`) allow two handshakes in a row with a retry.  `handshake_late`
goes up to 7 and three SNonces, which the counterexample takes; to find it in reasonable time TLC
explores only the behaviours of `Spec` in which no answer reaches the Authenticator
in the first association and neither end gives up the second (`LateSpec` in
`MCHandshake`).  A violation there is one of `Spec`.  `MaxCount` bounds the drift of
`GKeyDoneStations` in `group_wnm`; `MaxRequest` the number of key requests.
`Bump` stops counting at 2.  `DisableRetries` is FALSE in every run; the theorems
hold for both values.

`Dot1x` bounds what does not come from the protocol itself: losses, duplicates,
expiring timers, requests of the user and reassociations, two of them in any
behaviour (`MaxEvents`; `aWhile` then expires only with the port down, as with the port
up it takes three timers, which the proofs cover), while frames, outcomes and handshakes are not limited.
Two are enough for a lost frame and the timer that repairs it, for a
reauthentication after a logoff or reassociation, and for a duplicate of a
retransmission.  One frame may be in flight each way; a newer one pushes it out.
Identifiers wrap at `IdMod` 4 and start at 3, so that the wrap happens.  Of seven
challenges one is unused in every reachable state.  `ReAuthMax`,
`MaxRetrans` and `MaxStart` are 1 (2, 5 and 3 in the code), so that each limit is
reached; `MaxLoop` and `MaxSteps` are the code's 100.

`RadioWork` has two interfaces, at most three works in the queue (`MaxQueue`) and
three added altogether (`MaxAdds`): one in progress, one that may join it, and
one that waits.  `MaxActive` 2 is the code's, and the module assumes no more: with 3, a
driver with simultaneous operations could be given a second scan of an interface whose
first was not ended because its results could not be fetched.  `MCEnvs` takes each optional event
alone, and the pairs in which one leaves state behind for the other.  `radio_exclusive`
has one interface and none of the optional events.

In `Mesh`, `MaxEvents` 2 counts losses, removals, restarts, and timers that expire
while a frame is on its way; a timer that expires when nothing is on its way is
free.  `MaxRetries`, `AuthRetry` 1 and `SaeSync` 0 let every limit be reached;
`MaxPlinks` 2 leaves room for the second count of a link.  Commits, nonces and
link identifiers are chosen fresh among 12, 10 and 10, more than can be in use at
once.  The two stations are symmetric.

Deadlock is checked, except where the system may stop: in `WpaAuthSm` every
station may leave for good and ANonces run out; in `Dot1x`, `RadioWork` and `Mesh`
the bounded events run out, and an authenticated port, an empty queue or an
established link then stay as they are.

### Fairness

`FairSpec` of each module asks for weak fairness of timer handlers only:
`eloop_run()` runs every expired timeout.  Nothing is assumed about frames, the
driver or the user, so the liveness properties hold although the other end
never answers.  `AssocSettles` needs the authentication timer (restarted by the
first EAPOL frame, `wpa_supplicant_rx_eapol()`); `RekeyCompletes` and
`HandshakeEnds` need the retransmission timers.  `WaitHasTimer` and
`RekeyCompletes` leave out PTK rekeying, requests for a new GTK and reassociation:
each of these makes the code cancel the timer of a station that is waited for
(see the hazard at `src/ap/wpa_auth.c:1346`, which these properties therefore do not cover).
`NegotiatingHasTimer` and `HandshakeEnds` except stations that made a request since they
associated, for the same reason.  Every
accepted message 2/4 with another SNonce resets `TimeoutCtr`, so `HandshakeEnds`
also ends where the model's replay counters do.

`FairSpec` of `RadioWork` asks for weak fairness of `StartNextWork` (a timer) and of
`Finish`: a work that was started ends, because the driver reports the end of every
scan and connection attempts, GAS queries and external works have timeouts.

No liveness is stated for `Dot1x` and `Mesh`.  Under fairness of timers alone a
mesh link need not heal: the timers of the two ends may expire in an order that
lets each undo what the other has begun (the comment in `mesh_mpm_action_rx()` on
"livelock" is about the same), and the code relies on random delays.  Instead
`WaitsHaveTimer`, `TickRuns` and `SuppQuiescent` say that nothing waits without a
timer.

## 5. Proofs

TLAPS proves the following for every value of the constants that satisfies the
`ASSUME`s of the modules.  These are typing assumptions (bounds are naturals, `NoKey`
and `None` are not among the values they stand apart from, `Frames` are frames, options
are Booleans), that a mesh has two stations, and that `MaxActive` is 1 or 2
(section 4, Bounds).

Supplicant, `WpaSmProofs`:

* `TypeCorrect`: the type invariant.
* `NeverReinstalled`.  `NoReinstall` is not inductive: what forbids
  a second installation is that a PTK that was ever accepted can not become the
  TPTK again.  `ReinstallInv` says so: every PTK that was installed or accepted
  was made from an older SNonce, or from the current one with renewal due and
  no TPTK pending (`SpentInv`); a TPTK is made from the current SNonce
  (`TptkInv`); a PTK that is not marked installed never was (`InstalledInv`).
* `FlagMatchesDriver`: from `TypeOK` and the invariant itself, one step per
  action that clears driver keys.
* `GroupMatchesDriver`: the same for the group keys, whichever of message 3/4, the
  group handshake and WNM-Sleep Mode brought them, except an IGTK whose refusal by the
  driver was ignored since the driver's keys were last cleared.
* `ReplayProtected`: an action property, from the guard `Fresh` and the fact
  that only an association event resets the counter.
* `TimerHasPtk`, `FourWayFirst`, under `Roam = FALSE`, the configuration the run
  checks and the one in which they hold (section 4): outside a session neither the
  rekey timer nor `msg_3_of_4_ok` is set (`SessionInv`).

Authenticator, `WpaAuthSmProofs`, `WpaGroupProofs`:

* `AuthTypeCorrect`, `GroupTypeCorrect`: type invariants, the retry limits included.
* `AuthNeverReinstalled`: through `NonceInv`, every PTK is made from the latest
  ANonce and an installed one belongs to a finished handshake or an older
  ANonce.
* `HandshakeHasTimer`: of a station that has made no request since it associated; the
  requests are seen in `req_replay_counter`, which INITPSK resets.
* `CountCorrect`, `SwitchCorrect` (without "wnm" in `env`): the count and the
  switch are proved together, with the finite-set lemmas for adding, removing
  and replacing marked stations.
* `DeliveryCorrect` (without "wnm" and "overlap"): through `DeliverInv`, only
  the current GTK can be outstanding for a station that is waited for.
* `TimerCorrect`: `WaitHasTimer` is not inductive, because a rekeying starts no timer
  for a station that negotiates already.  `WaitInv` adds that such a station is one that
  is waited for, or was disconnected.

4-way handshake, `HandshakeProofs`, for any number of associations, handshakes, rekeyings and
retransmissions, under `LateFrames = FALSE`; besides typing it assumes that message 3/4 of an
RSN carries a GTK (`KdesAssumption`), as PTKINITNEGOTIATING always adds one:

* `KeysAgree`: finished sides use the same key.  `Refines`: `Spec` implements `KeyAgreement`.
  Both rest on `AgreeInv`.  The Authenticator's frames are ordered: a higher replay counter
  never has an older ANonce, and after message 3/4 was sent for an ANonce no message 1/4
  is (`OrderInv`).  A Supplicant that has answered message 3/4 therefore derives no other key
  from the same ANonce: any message 1/4 that it still accepts has a later one
  (`ConfirmedInv`).  The Authenticator installs the key of its latest ANonce, on a message
  4/4 made with it, so the Supplicant still has that key.  Late frames break the
  ordering, by the way section 4 describes.

802.1X, `Dot1xProofs`, for every capacity of the link, every limit of the counters
and any number of events; the invariant is `SuppInv /\ AuthInv /\ LinkTypes /\ Challenge`:

* `TypeCorrect`, `Quiescent`, `OneAnswer`, `TickCorrect` rest on `SuppInv`.  It says, for each
  position in the loop of `eapol_sm_step()`, which flags may be set there: a packet
  that SUPP_BE hands to the EAP peer in REQUEST is consumed in the same round.
* `KeyRunCorrect`, `ResponseCorrect` rest on `AuthInv`: what AUTH_PAE has done when the loop gets
  to the server (`AuthFlow`), that a restart asked for is not lost (`AuthRestarts`), that the
  server's key is the challenge of the method just completed (`AuthServer`), that `keyRun`
  outlives that key only within one run of the loop (`AuthKeyRun`), and that a key
  is not offered twice (`AuthKeyUsed`).
* `KeyAgreed` needs both sides and the link (`Challenge`): behind a request of the
  current conversation the link holds only its frames, so once the Supplicant has
  answered the current challenge it can not come to hold the key of an older one.
* `LoopsBounded`: `SuppLeft` and `AuthLeft` bound the changes of state still to come in a run of each
  loop, from the states of its machines and the flags and expired timers that can set
  off more.  No step makes the rounds done and this bound larger in all, so the two loops end
  within 37 and 99 rounds; the code gives up after 100.  The theorem needs `ReAuthMax` at least
  1 (`AUTH_PAE_DEFAULT_reAuthMax` is 2).  With 0, AUTH_PAE would go round without end: CONNECTING
  counts one attempt, finds it too many, and returns through DISCONNECTED and RESTART.

Radio, `RadioWorkProofs`, for any number of interfaces and works:

* `TypeCorrect`, `CountCorrect`, `PointersCorrect`, `SharingCorrect`, `NeverStalls`, from one invariant: the
  count is the number of started works, no interface has two started works of a type that
  has a pointer, nothing runs next to a connection attempt except what the driver's flags
  allow (`Counted`), `scan_work` and `connect_work` say whether there is such a work (`Refs`),
  and an external scan is only remembered while the driver runs it (`ExtScanInv`).
  Removing works from the queue leaves a subsequence; that it exists and what it
  does to the count is shown with an order-preserving bijection, not by induction over
  the queue.

Mesh, `MeshProofs`, for every number of losses, removals and restarts:

* `TypeCorrect`, `LinksCounted`, `TimersRun`: properties of one station's record, so the invariant
  `RecInv` is shown to be preserved by each operator of `MeshPeer`, and every action is
  a composition of them.  It adds that one timer runs for a link until it
  is given up (`OneTimer`), that an entry waits for authentication exactly while it is IDLE
  (`Pending`), and which commits and keys a state of SAE has (`Keyed`).
* `SaeAgree`: a Confirm on its way, and a commit that was accepted, do not contradict the
  other station's instance (`Agrees`).  A new commit is unused, so it agrees with all that
  is on its way.
* `LinkAgree`: a frame says which link and which run of AMPE it belongs to by its link
  identifiers and its key, while a station that restarts, is removed or runs SAE again leaves
  frames of the old link behind.  `LinkInv` says of each end that its frames carry its own
  values (`Honest`), that nobody uses a key of a commit not accepted yet (`Secret`), that behind
  a frame of the current link there is none of an earlier one (`Ordered`) and none at all
  once the peer has learnt of the link (`Current`), and that a station which has a Confirm for
  this link and key, or one on its way (`Evidence`), has a peer with its identifier (`Answered`);
  if both have, they run AMPE with the same key (`SameKey`).  The key in the driver is then
  that of the nonces now in use (`Installed`).  Every handler is shown to be one of four
  changes of the link (`LinkStep`: the entry is freed, stays, begins a new run, or is
  made), and the invariant is proved once for each of them.

Only model-checked:

* `AssocSettles`, `RekeyCompletes`, `HandshakeEnds`, `Drains`: liveness, out of the prover's reach.

With late frames neither `SessionKeysAgree` nor `ImplementsAgreement` is claimed: section 4
shows that the code does not guarantee them.

## 6. What is left out

* Supplicant: EAP-based PMKs (the `-2` result of `wpa_supplicant_get_pmk()`),
  FT, FILS, OWE, DPP, P2P; the flag `own_disconnect_req`; malformed frames that
  set the encryption bit without a MIC.  `WpaSm` assumes PMF and beacon
  protection, so that IGTK and BIGTK are configured.
* Authenticator: Extended Key ID, EAP and FT key management, rejection for lack
  of entropy, TKIP MIC failure countermeasures, `wpa_disable_eapol_key_retries`
  in the group handshake; WPA(v1) group handshake after the 4-way handshake;
  VLAN groups; `FATAL_FAILURE`.
* `Handshake`: group messages, WNM-Sleep Mode and failing operations, which the
  component modules cover.
* `Dot1x`: forced port control, dynamic WEP (KEY_RX, AUTH_KEY_TX), CTRL_DIR, a PMKSA,
  FT or FILS in place of the authentication, ERP, Nak and Notification, methods of
  several rounds and their limits, the EAP proxy, a RADIUS server behind the
  Authenticator, `altAccept` and `altReject`; of the Supplicant, that RESTART is refused when
  PTK 0 must not be rekeyed (`eapol_sm_confirm_auth()`, `eapol_supp_sm.c:328`: wpa_supplicant
  then reconnects) and `eapTriggerStart` (262, 425), the answer to an
  EAP-Initiate/Re-auth-Start for which there are no ERP keys.  A 4-way handshake that fails is
  the disassociation that follows.  The exits after 100 rounds are not modelled;
  `LoopsEnd` shows that they are not taken.
* `RadioWork`: P2P, DPP and PASN works, scans that must only report new results, and
  several GAS queries of one interface at a time.
* `Mesh`: an open mesh, `no_auto_peer`, anti-clogging, SAE groups, hash-to-element and
  SAE-PK, OCV, the inactivity timer, MGTK and IGTK.  The counters `send_confirm` and
  `rc` are not kept: whether a repeated confirm is fresh is a choice.  Random link
  identifiers are never equal.  Frames are handled in the order they are received:
  the queue in which `ieee802_11.c` (3734-3745, 1631-1711) holds SAE commits back under load is
  left out, so that a commit is neither overtaken by a peering frame sent after it
  nor replaced by a newer one before it is handled.
* `GroupAfterFourWay` and `RekeyTimerHasPtk` with roaming (see section 4).

### Not modelled

The components that `PROJECT.json` marks so.  P2P, WPS, DPP, FT/FILS, TDLS, MKA, FST,
RADIUS and the BSS table hold state machines that could be modelled in the same
way; they are left to later work for their size.  Cryptography, TLS, drivers,
configuration and user interfaces are arithmetic, parsing and I/O, which a model
checker has nothing to say about.
