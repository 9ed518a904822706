------------------------------ MODULE RadioWork ------------------------------
(* The radio work queue of wpa_supplicant.c: the interfaces that share a radio *)
(* queue their scans, connection attempts, GAS queries and the operations of   *)
(* external programs, and a callback starts the next one when the radio is     *)
(* free.  The users of the queue are modelled as far as they hold a work:      *)
(* scan.c, sme.c and wpa_supplicant.c (connect), gas_query.c, ctrl_iface.c     *)
(* (external works), and the driver events that end a scan or disable an       *)
(* interface.  A work is [i, type, bands, started]: its interface, its type,   *)
(* the bands it uses, and whether its callback has run.                        *)
EXTENDS Integers, Sequences, SequencesExt, FiniteSets

CONSTANTS Ifaces,
          None,        \* no interface, no scan in the driver
          MaxActive,   \* MAX_ACTIVE_WORKS (2)
          MaxQueue,    \* works in the queue
          MaxAdds,     \* works added altogether
          Envs         \* sets of optional events, see AllEnv

AllEnv == {"ext",       \* external programs add works
           "extscan",   \* external programs scan
           "disable",   \* interfaces are disabled and enabled
           "remove",    \* interfaces are removed
           "flush",     \* the FLUSH command
           "nores"}     \* results of a scan cannot be fetched from the driver

ASSUME RadioWorkAssumption ==
  /\ None \notin Ifaces
  /\ MaxActive \in {1, 2} /\ MaxQueue \in Nat /\ MaxAdds \in Nat
  /\ Envs \subseteq SUBSET AllEnv

VARIABLES env,
          sim,      \* WPA_DRIVER_FLAGS_OFFCHANNEL_SIMULTANEOUS
          sme,      \* WPA_DRIVER_FLAGS_SME
          radio,    \* struct wpa_radio: the queue, the count of active works,
                    \* and whether radio_start_next_work is scheduled
          up, gone, \* interfaces that are enabled; that were removed
          scan_work, connect_work, ext_work_in_progress,   \* interfaces with it
          external_scan_req_interface,
          drvScan,  \* the interface whose scan the driver runs, or None
          adds

flags == <<scan_work, connect_work, ext_work_in_progress>>
config == <<env, sim, sme>>
vars == <<config, radio, up, gone, flags, external_scan_req_interface, drvScan, adds>>

Types == {"scan", "connect", "gas-query", "ext"}

\* A scan uses every band, the other works one channel.
Works == [i : Ifaces, type : {"scan"}, bands : {"all"}, started : BOOLEAN]
           \cup [i : Ifaces, type : Types \ {"scan"},
                 bands : {"2.4", "5"}, started : BOOLEAN]

Queue == radio.work
Started == {k \in DOMAIN Queue : Queue[k].started}

TypeOK ==
  /\ env \in Envs /\ sim \in BOOLEAN /\ sme \in BOOLEAN
  /\ radio \in [work : Seq(Works), num_active_works : 0 .. MaxQueue, timer : BOOLEAN]
  /\ Len(radio.work) <= MaxQueue
  /\ up \subseteq Ifaces /\ gone \subseteq Ifaces
  /\ scan_work \subseteq Ifaces /\ connect_work \subseteq Ifaces
  /\ ext_work_in_progress \subseteq Ifaces
  /\ external_scan_req_interface \in Ifaces \cup {None}
  /\ drvScan \in Ifaces \cup {None}
  /\ adds \in 0 .. MaxAdds

Init ==
  /\ env \in Envs /\ sim \in BOOLEAN /\ sme \in BOOLEAN
  /\ radio = [work |-> <<>>, num_active_works |-> 0, timer |-> FALSE]
  /\ up = Ifaces /\ gone = {}
  /\ scan_work = {} /\ connect_work = {} /\ ext_work_in_progress = {}
  /\ external_scan_req_interface = None /\ drvScan = None
  /\ adds = 0

----------------------------------------------------------------------------
(* Operations on the radio r; ext is ext_work_in_progress at that point.       *)

\* radio_work_check_next for interface i.
CheckNext(r, i, ext) ==
  IF r.work # <<>> /\ i \notin ext THEN [r EXCEPT !.timer = TRUE] ELSE r

\* Mutant: a pending work is counted too.
WorkFreeUncond(r, k) ==
  [r EXCEPT !.work = RemoveAt(@, k), !.num_active_works = @ - 1]

\* radio_work_free.
WorkFree(r, k) ==
  [r EXCEPT !.work = RemoveAt(@, k),
            !.num_active_works = IF r.work[k].started THEN @ - 1 ELSE @]

\* Mutant: the next work is not started.
WorkDoneQuietly(r, k, ext) == WorkFree(r, k)

\* radio_work_done.
WorkDone(r, k, ext) ==
  IF r.work[k].started THEN CheckNext(WorkFree(r, k), r.work[k].i, ext)
  ELSE WorkFree(r, k)

\* Mutant: the works in progress are not counted off.
ActiveLeftAll(r, freed) == r.num_active_works

\* The number of active works when the works with indices freed are freed.
ActiveLeft(r, freed) ==
  r.num_active_works - Cardinality({k \in freed : r.work[k].started})

\* The queue q without the works in W, in the same order.
Without(q, W) ==
  LET K == {k \in DOMAIN q : q[k] \notin W}
      h == CHOOSE h \in [1 .. Cardinality(K) -> K] :
             \A j, m \in 1 .. Cardinality(K) : j < m => h[j] < h[m]
  IN [j \in 1 .. Cardinality(K) |-> q[h[j]]]

\* The works in W are freed.
TakeOut(r, W) ==
  [r EXCEPT !.work = Without(@, W),
            !.num_active_works = ActiveLeft(r, {k \in DOMAIN r.work : r.work[k] \in W})]

\* radio_remove_works of interface i, for the works in W.
RemoveWorks(r, i, W, ext) == CheckNext(TakeOut(r, W), i, ext)

\* The works of interface i in the queue, of one of the types.
WorksOf(i, types) == {w \in Range(Queue) : w.i = i /\ w.type \in types}

\* radio_add_work; a work may be put in front of all others.
AddWork(r, w, next, ext) ==
  LET q == IF next THEN <<w>> \o r.work ELSE Append(r.work, w)
      s == [r EXCEPT !.work = q]
  IN IF r.work = <<>> \/ (sim /\ r.num_active_works < MaxActive)
     THEN CheckNext(s, w.i, ext) ELSE s

NewWork(i, type, b) == [i |-> i, type |-> type, bands |-> b, started |-> FALSE]

\* The first of the indices S, or 0.
First(S) == IF S = {} THEN 0 ELSE Min(S)

\* Mutant: a work behind a queued connection attempt is started next to another.
GetNextPastConnect(r) ==
  LET q == r.work
      a == First({k \in DOMAIN q : q[k].started})
  IN IF a = 0 THEN 1
     ELSE First({k \in DOMAIN q : /\ ~q[k].started
                                   /\ q[k].type # q[a].type
                                   /\ q[k].bands # q[a].bands})

\* radio_work_get_next_work: the index of the work that a driver with
\* simultaneous off-channel operations may start, or 0.  A scan is passed over
\* while an external scan runs if it must only report new results; none does here.
GetNextWork(r) ==
  LET q == r.work
      a == First({k \in DOMAIN q : q[k].started})
  IN IF a = 0 THEN 1
     ELSE IF q[a].type = "connect" THEN 0
     ELSE First({k \in DOMAIN q :
            /\ ~q[k].started
            /\ \A m \in 1 .. k : ~q[m].started => q[m].type # "connect"
            /\ ~(q[k].i = q[a].i /\ q[k].type = "scan" /\ q[a].type = "scan")
            /\ q[k].type # q[a].type /\ q[k].bands # q[a].bands})

----------------------------------------------------------------------------
(* radio_start_next_work, from its timer.                                      *)

\* The work that is started now, or 0.
ToStart ==
  IF Queue = <<>> THEN 0
  ELSE IF ~sim THEN (IF Queue[1].started \/ external_scan_req_interface # None THEN 0 ELSE 1)
  ELSE IF radio.num_active_works < MaxActive THEN GetNextWork(radio) ELSE 0

NothingToStart ==
  /\ radio.timer /\ ToStart = 0
  /\ radio' = [radio EXCEPT !.timer = FALSE,
                            !.num_active_works = IF Queue = <<>> THEN 0 ELSE @]
  /\ UNCHANGED <<config, up, gone, flags, external_scan_req_interface, drvScan, adds>>

\* The radio when the work to start has been marked, before its callback.
Marked ==
  [radio EXCEPT !.timer = FALSE, !.work[ToStart].started = TRUE,
                !.num_active_works = (IF sim /\ Started = {} THEN 0 ELSE @) + 1]

\* After the callback another work is looked for, if there may be more.
AfterCb(r, i, ext) ==
  IF sim /\ r.num_active_works < MaxActive THEN CheckNext(r, i, ext) ELSE r

StartOf(type) == radio.timer /\ ToStart # 0 /\ Queue[ToStart].type = type

\* wpas_trigger_scan_cb.  The driver runs one scan at a time, and may refuse.
StartScan ==
  LET i == Queue[ToStart].i
      ext == ext_work_in_progress
  IN /\ StartOf("scan")
     /\ \/ /\ drvScan = None
           /\ drvScan' = i
           /\ scan_work' = scan_work \cup {i}
           /\ radio' = AfterCb(Marked, i, ext)
        \/ /\ radio' = AfterCb(WorkDone(Marked, ToStart, ext), i, ext)
           /\ UNCHANGED <<drvScan, scan_work>>
     /\ UNCHANGED <<config, up, gone, connect_work, ext_work_in_progress,
                    external_scan_req_interface, adds>>

\* sme_auth_start_cb, wpas_start_assoc_cb.  The BSS or network may have gone, or
\* the driver may refuse: wpas_connect_work_done.
StartConnect ==
  LET i == Queue[ToStart].i
      ext == ext_work_in_progress
  IN /\ StartOf("connect")
     /\ \/ /\ connect_work' = connect_work \cup {i}
           /\ radio' = AfterCb(Marked, i, ext)
        \/ /\ radio' = AfterCb(WorkDone(Marked, ToStart, ext), i, ext)
           /\ UNCHANGED connect_work
     /\ UNCHANGED <<config, up, gone, scan_work, ext_work_in_progress,
                    external_scan_req_interface, drvScan, adds>>

\* gas_query_start_cb.
StartGas ==
  LET i == Queue[ToStart].i
      ext == ext_work_in_progress
  IN /\ StartOf("gas-query")
     /\ radio' \in {AfterCb(Marked, i, ext),
                    AfterCb(WorkDone(Marked, ToStart, ext), i, ext)}
     /\ UNCHANGED <<config, up, gone, flags, external_scan_req_interface, drvScan, adds>>

\* wpas_ctrl_radio_work_cb.
StartExt ==
  LET i == Queue[ToStart].i
      ext == ext_work_in_progress \cup {i}
  IN /\ StartOf("ext")
     /\ ext_work_in_progress' = ext
     /\ radio' = AfterCb(Marked, i, ext)
     /\ UNCHANGED <<config, up, gone, scan_work, connect_work,
                    external_scan_req_interface, drvScan, adds>>

StartNextWork == NothingToStart \/ StartScan \/ StartConnect \/ StartGas \/ StartExt

----------------------------------------------------------------------------
(* Works are added.                                                            *)

MayAdd(i) ==
  /\ i \in up /\ adds < MaxAdds /\ Len(Queue) < MaxQueue
  /\ adds' = adds + 1
  /\ UNCHANGED <<config, up, gone, flags, external_scan_req_interface, drvScan>>

Add(w) == radio' = AddWork(radio, w, FALSE, ext_work_in_progress)

\* wpa_supplicant_trigger_scan.
TriggerScan(i) ==
  /\ i \notin scan_work
  /\ MayAdd(i)
  /\ Add(NewWork(i, "scan", "all"))

\* sme_authenticate, or wpa_supplicant_associate without SME.  The first drops a
\* queued attempt in favour of the new one, the second rejects the new one.
Connect(i) ==
  LET pending == WorksOf(i, {"connect"})
      ext == ext_work_in_progress
      r == IF pending # {} THEN RemoveWorks(radio, i, pending, ext) ELSE radio
  IN /\ i \notin connect_work
     /\ sme \/ pending = {}
     /\ MayAdd(i)
     /\ radio' = AddWork(r, NewWork(i, "connect", "5"), TRUE, ext)

\* gas_query_req; an interface has one query at a time here.
GasQuery(i, b) ==
  /\ \A k \in DOMAIN Queue : ~(Queue[k].i = i /\ Queue[k].type = "gas-query")
  /\ MayAdd(i)
  /\ Add(NewWork(i, "gas-query", b))

\* wpas_ctrl_radio_work_add.
ExtAdd(i) ==
  /\ "ext" \in env
  /\ MayAdd(i)
  /\ Add(NewWork(i, "ext", "2.4"))

----------------------------------------------------------------------------
(* Works end.                                                                  *)

StartedOf(i, type) == {k \in Started : Queue[k].i = i /\ Queue[k].type = type}

\* Mutant: the scan ends and its work is left.
ScanDoneLeft(r, i) == r

\* The end of a scan frees its work, if there is one.
ScanDone(r, i) ==
  IF i \in scan_work /\ StartedOf(i, "scan") # {}
  THEN WorkDone(r, Min(StartedOf(i, "scan")), ext_work_in_progress) ELSE r

\* EVENT_SCAN_RESULTS for the interface whose scan the driver has run or aborted;
\* on a disabled interface it only ends the external scan.  When the results
\* cannot be fetched and the scan was for AP mode, ap_scan=2 or a SCAN TYPE=ONLY
\* command, the handler returns without touching the work.  A work that was left
\* so meets the results of a later external scan: in AP mode these free it,
\* otherwise the handler returns before that, too.
ScanResults ==
  /\ drvScan # None
  /\ drvScan' = None
  /\ external_scan_req_interface' = None
  /\ \/ /\ drvScan \in up
        /\ radio' = CheckNext(ScanDone(radio, drvScan), drvScan, ext_work_in_progress)
        /\ scan_work' = scan_work \ {drvScan}
     \/ /\ drvScan \in up /\ "nores" \in env
        /\ radio' = CheckNext(radio, drvScan, ext_work_in_progress)
        /\ UNCHANGED scan_work
     \/ drvScan \notin up /\ UNCHANGED <<radio, scan_work>>
  /\ UNCHANGED <<config, up, gone, connect_work, ext_work_in_progress, adds>>

\* An external program scans: EVENT_SCAN_STARTED without a request of our own.
ExtScan(i) ==
  /\ "extscan" \in env
  /\ i \in up /\ drvScan = None
  /\ drvScan' = i
  /\ external_scan_req_interface' = i
  /\ adds < MaxAdds /\ adds' = adds + 1
  /\ UNCHANGED <<config, radio, up, gone, flags>>

\* wpas_connect_work_done, when the attempt has succeeded, failed or timed out.
ConnectDone(i) ==
  /\ i \in connect_work
  /\ connect_work' = connect_work \ {i}
  /\ \E k \in StartedOf(i, "connect") : radio' = WorkDone(radio, k, ext_work_in_progress)
  /\ UNCHANGED <<config, up, gone, scan_work, ext_work_in_progress,
                 external_scan_req_interface, drvScan, adds>>

\* The end of a GAS query, and gas_query_stop, which takes a query that has not
\* started out of the queue with radio_remove_pending_work.
GasDone(i) ==
  /\ \E k \in DOMAIN Queue :
       /\ Queue[k].i = i /\ Queue[k].type = "gas-query"
       /\ radio' = WorkDone(radio, k, ext_work_in_progress)
  /\ UNCHANGED <<config, up, gone, flags, external_scan_req_interface, drvScan, adds>>

\* wpas_ctrl_radio_work_timeout.
ExtTimeout(i) ==
  /\ ext_work_in_progress' = ext_work_in_progress \ {i}
  /\ \E k \in StartedOf(i, "ext") : radio' = WorkDone(radio, k, ext_work_in_progress')
  /\ UNCHANGED <<config, up, gone, scan_work, connect_work,
                 external_scan_req_interface, drvScan, adds>>

\* wpas_ctrl_radio_work_done, on interface i for an external work of any
\* interface, started or not.
ExtDone(i) ==
  /\ i \notin gone
  /\ ext_work_in_progress' = ext_work_in_progress \ {i}
  /\ \E k \in DOMAIN Queue :
       Queue[k].type = "ext" /\ radio' = WorkDone(radio, k, ext_work_in_progress')
  /\ UNCHANGED <<config, up, gone, scan_work, connect_work,
                 external_scan_req_interface, drvScan, adds>>

----------------------------------------------------------------------------
(* Works are removed.                                                          *)

\* Mutant: the reference to the work that is freed stays.
DeinitKeeps(S) == UNCHANGED <<scan_work, connect_work>>

\* The callbacks with deinit=1 of the started works of the interfaces in S.
DeinitWorks(S) ==
  /\ scan_work' = scan_work \ {i \in S : StartedOf(i, "scan") # {}}
  /\ connect_work' = connect_work \ {i \in S : StartedOf(i, "connect") # {}}

\* EVENT_INTERFACE_DISABLED.
InterfaceDisabled(i) ==
  /\ "disable" \in env
  /\ i \in up
  /\ up' = up \ {i}
  /\ DeinitWorks({i})
  /\ radio' = RemoveWorks(radio, i, WorksOf(i, Types), ext_work_in_progress)
  /\ UNCHANGED <<config, gone, ext_work_in_progress, external_scan_req_interface,
                 drvScan, adds>>

\* EVENT_INTERFACE_ENABLED.
InterfaceEnabled(i) ==
  /\ i \notin up \cup gone
  /\ up' = up \cup {i}
  /\ UNCHANGED <<config, radio, gone, flags, external_scan_req_interface, drvScan, adds>>

\* wpas_request_disconnection: connection attempts are given up.
RequestDisconnection(i) ==
  /\ i \notin gone /\ Queue # <<>>
  /\ connect_work' = connect_work \ {i}
  /\ radio' = RemoveWorks(radio, i, WorksOf(i, {"connect"}), ext_work_in_progress)
  /\ UNCHANGED <<config, up, gone, scan_work, ext_work_in_progress,
                 external_scan_req_interface, drvScan, adds>>

\* wpa_supplicant_ctrl_iface_flush on interface i: all works of the radio.
Flush(i) ==
  /\ "flush" \in env
  /\ i \notin gone /\ Queue # <<>>
  /\ DeinitWorks(Ifaces)
  /\ radio' = RemoveWorks(radio, i, Range(Queue), ext_work_in_progress)
  /\ ext_work_in_progress' = ext_work_in_progress \ {i}
  /\ UNCHANGED <<config, up, gone, external_scan_req_interface, drvScan, adds>>

\* wpas_ctrl_radio_work_flush ends the external works of every interface one by
\* one; ending one in progress schedules the next work if any is left then.
FlushExt(r, ext) ==
  LET E == {k \in DOMAIN r.work : r.work[k].type = "ext"}
      q == TakeOut(r, {r.work[k] : k \in E})
      wakes(k) == /\ r.work[k].started /\ r.work[k].i \notin ext
                  /\ q.work # <<>> \/ \E m \in E : m > k
  IN [q EXCEPT !.timer = @ \/ \E k \in E : wakes(k)]

\* wpa_supplicant_deinit_iface with radio_remove_interface, while other
\* interfaces keep the radio.
RemoveInterface(i) ==
  /\ "remove" \in env
  /\ i \notin gone /\ Cardinality(Ifaces \ gone) > 1
  /\ up' = up \ {i} /\ gone' = gone \cup {i}
  /\ DeinitWorks({i})
  /\ radio' = RemoveWorks(FlushExt(radio, ext_work_in_progress), i,
                          WorksOf(i, Types), ext_work_in_progress)
  /\ external_scan_req_interface' = IF external_scan_req_interface = i THEN None
                                    ELSE external_scan_req_interface
  /\ drvScan' = IF drvScan = i THEN None ELSE drvScan
  /\ UNCHANGED <<config, ext_work_in_progress, adds>>

Finish == \/ ScanResults
          \/ \E i \in Ifaces : ConnectDone(i) \/ GasDone(i) \/ ExtTimeout(i)

Next ==
  \/ StartNextWork \/ Finish
  \/ \E i \in Ifaces :
       \/ TriggerScan(i) \/ Connect(i) \/ (\E b \in {"2.4", "5"} : GasQuery(i, b))
       \/ ExtAdd(i) \/ ExtScan(i) \/ ExtDone(i)
       \/ InterfaceDisabled(i) \/ InterfaceEnabled(i) \/ RequestDisconnection(i)
       \/ Flush(i) \/ RemoveInterface(i)

Spec == Init /\ [][Next]_vars

\* The event loop runs its timers, and the driver, the protocols (by their
\* timeouts) and external works end what was started.
FairSpec == Spec /\ WF_vars(StartNextWork) /\ WF_vars(Finish)

----------------------------------------------------------------------------
\* num_active_works is the number of works in progress, whichever way they end:
\* it is unsigned, and limits how many the driver is given.
ActiveCount == radio.num_active_works = Cardinality(Started)

\* An interface's scan_work and connect_work refer to a work in progress, and a
\* scan or connection attempt in progress is referred to: the reference is the
\* only way to end it, and a stale one would refer to freed memory.
WorkPointers ==
  \A i \in Ifaces :
    /\ Cardinality(StartedOf(i, "scan")) = (IF i \in scan_work THEN 1 ELSE 0)
    /\ Cardinality(StartedOf(i, "connect")) = (IF i \in connect_work THEN 1 ELSE 0)

\* radio_add_work() is for "an operation that requires exclusive radio control":
\* a driver without simultaneous operations is given one work at a time.
RadioExclusive == ~sim => Cardinality(Started) <= 1

\* What holds in its place.  A driver that can do two things at a time is given
\* nothing next to a connection attempt (radio_work_get_next_work()), and no more
\* than two works; one that cannot is given at most one work that is not a
\* connection attempt, whatever is put in front of a work in progress.
RadioShared ==
  /\ sim => /\ Cardinality(Started) <= MaxActive
            /\ \A k \in Started : Queue[k].type = "connect" => Started = {k}
  /\ ~sim => Cardinality({k \in Started : Queue[k].type # "connect"}) <= 1

\* The radio is free for a work in the queue.
RadioFree == Queue # <<>> /\ Started = {} /\ (sim \/ external_scan_req_interface = None)

\* The environments in which the queue is known to keep going.
Steady == "ext" \notin env /\ ~({"extscan", "disable"} \subseteq env)

\* Once the radio is free, the start of the next work is scheduled: no work is
\* left waiting in the queue for an event that will not come.
NoStall == Steady /\ RadioFree => radio.timer

\* "Once the radio is available, the registered callback function will be called"
\* (radio_add_work), whatever happens on the interfaces that share the radio.
CallbackCalled == RadioFree => radio.timer

\* Every work that is added is started and ends, or is removed: when no more works
\* are added the queue runs empty.
Drains == Steady /\ "nores" \notin env => <>[](Queue = <<>>)
=============================================================================
