------------------------------- MODULE MeshPeer -------------------------------
(* One mesh station's view of one peer in a secured mesh: the SAE instance     *)
(* (src/ap/ieee802_11.c, src/common/sae.c), the AMPE keys (mesh_rsn.c) and the *)
(* peer link state machine (mesh_mpm.c), which run in one thread and call each *)
(* other.  A handler is an operator from the station's record to the record    *)
(* after it; the frames it sends are appended to the field out.                *)
(*                                                                             *)
(* A commit (scalar and element) is a number, and the PMK that two commits give *)
(* is the set of both; {} is the PMK, or cache, that is not there.  Nonces and *)
(* link identifiers are numbers too, with 0 for one that is not known.         *)
EXTENDS Integers, Sequences

CONSTANTS Commits, Nonces, Lids,   \* positive numbers
          SaeSync,                 \* sae_sync
          MaxRetries,              \* dot11MeshMaxRetries
          AuthRetry,               \* MESH_AUTH_RETRY
          MaxPlinks                \* max_plinks

ASSUME MeshAssumption ==
  /\ Commits \cup Nonces \cup Lids \subseteq Nat \ {0}
  /\ {SaeSync, MaxRetries, AuthRetry, MaxPlinks} \subseteq Nat

Opening == {"OPN_SNT", "OPN_RCVD", "CNF_RCVD"}

\* No struct sta_info for the peer.
NoEntry ==
  [known |-> FALSE,
   sae |-> "NOTHING", own |-> 0, peer |-> 0, acc |-> 0, pmk |-> {}, sync |-> 0,
   retr |-> FALSE,                        \* auth_sae_retransmit_timer is pending
   auth |-> FALSE, tries |-> 0,           \* mesh_auth_timer, sae_auth_retry
   plink |-> "IDLE", ptm |-> 0, retries |-> 0,   \* plink_timers pending, mpm_retries
   lid |-> 0, plid |-> 0, n |-> 0, pn |-> 0, aek |-> {},
   mtk |-> <<>>,                          \* in the driver
   caching |-> FALSE,                     \* mesh_sae_pmksa_caching
   removed |-> FALSE,                     \* closed by MESH_PEER_REMOVE
   cache |-> {}, num |-> 0,               \* of the station: PMKSA, num_plinks
   again |-> 0,            \* history: established links that were opened again
   out |-> <<>>]

\* The records whose frames to be sent are in Outs.
Records(Outs) ==
  [known : BOOLEAN,
   sae : {"NOTHING", "COMMITTED", "CONFIRMED", "ACCEPTED"},
   own : Commits \cup {0}, peer : Commits \cup {0}, acc : Commits \cup {0},
   pmk : SUBSET Commits, sync : 0 .. SaeSync + 1,
   retr : BOOLEAN, auth : BOOLEAN, tries : 0 .. AuthRetry + 1,
   plink : Opening \cup {"IDLE", "ESTAB", "HOLDING", "BLOCKED"},
   ptm : 0 .. 2, retries : 0 .. MaxRetries,
   lid : Lids \cup {0}, plid : Lids \cup {0},
   n : Nonces \cup {0}, pn : Nonces \cup {0}, aek : SUBSET Commits,
   mtk : {<<>>} \cup ((SUBSET Commits) \X (Nonces \X Nonces) \X (Lids \X Lids)),
   caching : BOOLEAN, removed : BOOLEAN,
   cache : SUBSET Commits, num : Nat, again : Nat,
   out : Outs]

----------------------------------------------------------------------------
\* Frames.

AuthKinds == {"commit", "confirm", "reject"}

Frames ==
  [k : {"commit"}, c : Commits] \cup [k : {"confirm"}, c : Commits, p : Commits]
    \cup [k : {"reject"}]
    \cup [k : {"open", "cnf", "close"}, lid : Lids, plid : Lids \cup {0},
          n : Nonces \cup {0}, pn : Nonces \cup {0}, pmk : SUBSET Commits,
          aek : SUBSET Commits]

Send(e, f) == [e EXCEPT !.out = Append(@, f)]

SendCommit(e)  == Send(e, [k |-> "commit", c |-> e.own])
SendConfirm(e) == Send(e, [k |-> "confirm", c |-> e.own, p |-> e.peer])
Reject(e)      == Send(e, [k |-> "reject"])

\* mesh_mpm_send_plink_action, mesh_rsn_protect_frame: the Chosen PMK is that of
\* the SAE instance, the key the one derived when AMPE started.
SendAction(e, k) ==
  Send(e, [k |-> k, lid |-> e.lid, plid |-> IF k = "open" THEN 0 ELSE e.plid,
           n |-> e.n, pn |-> e.pn, pmk |-> e.pmk, aek |-> e.aek])

----------------------------------------------------------------------------
\* The entry of the peer.

\* Mutant: num_plinks is decremented whatever the state of the link was.
PlinkLeftAlways(e) == e.num - 1

PlinkLeft(e) == IF e.plink = "ESTAB" THEN e.num - 1 ELSE e.num

\* ap_free_sta, mesh_mpm_free_sta.
FreeSta(e) ==
  [NoEntry EXCEPT !.cache = e.cache, !.num = PlinkLeft(e), !.again = e.again, !.out = e.out]

\* mesh_mpm_add_peer, mesh_mpm_init_link.
AddPeer(e, lid) ==
  [NoEntry EXCEPT !.known = TRUE, !.lid = lid, !.cache = e.cache, !.num = e.num, !.again = e.again]

\* mesh_mpm_plink_open
PlinkOpen(e, next) == [SendAction(e, "open") EXCEPT !.plink = next, !.ptm = 1]

\* auth_start_ampe, mesh_mpm_auth_peer, mesh_rsn_init_ampe_sta.
StartAmpe(e, n) ==
  PlinkOpen([e EXCEPT !.auth = FALSE, !.n = n, !.pn = 0, !.aek = e.pmk,
                      !.again = IF e.plink = "ESTAB" THEN @ + 1 ELSE @], "OPN_SNT")

\* sae_accept_sta: the peer's scalar moves to peer_commit_scalar_accepted.
AcceptSta(e, n) ==
  [StartAmpe(e, n) EXCEPT !.sae = "ACCEPTED", !.acc = e.peer, !.peer = 0, !.cache = e.pmk]

\* sae_set_group, sae_clear_data.
SaeClear(e) ==
  [e EXCEPT !.sae = "NOTHING", !.own = 0, !.peer = 0, !.acc = 0, !.pmk = {}, !.sync = 0]

\* mesh_rsn_auth_sae_sta, auth_sae_init_committed: a cached PMKSA is used as it
\* is, without an SAE group; otherwise a new commit c is sent.
AuthSae(e, c, n) ==
  IF e.cache # {}
    THEN [AcceptSta([e EXCEPT !.pmk = e.cache], n) EXCEPT !.caching = TRUE]
    ELSE SendCommit([SaeClear(e) EXCEPT !.own = c, !.sae = "COMMITTED", !.retr = TRUE,
                                        !.auth = TRUE, !.caching = FALSE])

----------------------------------------------------------------------------
\* SAE.

\* Mutant: one retransmission too many.
BigSyncLate(e) == e.sync > SaeSync + 1

BigSync(e) == e.sync > SaeSync

ToNothing(e) == [e EXCEPT !.sae = "NOTHING", !.sync = 0]

\* sae_process_commit and the Confirm that follows it.
ProcessCommit(e) == SendConfirm([e EXCEPT !.pmk = {e.own, e.peer}, !.retr = TRUE])

\* A frame of the peer's SAE cancels the use of a cached PMKSA.
CancelCaching(e) ==
  IF e.caching THEN [e EXCEPT !.caching = FALSE, !.cache = {}] ELSE e

\* sae_parse_commit: an instance that never had a group (a cached PMKSA was used)
\* is cleared by sae_group_allowed.
ParseGroup(e) == IF e.own = 0 THEN SaeClear(e) ELSE e

SaeCommit(e, c) ==   \* sae_sm_step with a Commit
  CASE e.sae = "NOTHING" ->
         ProcessCommit([SendCommit([e EXCEPT !.own = c])
                          EXCEPT !.sae = "CONFIRMED", !.sync = 0])
    [] e.sae = "COMMITTED" ->
         ProcessCommit([e EXCEPT !.sae = "CONFIRMED", !.sync = 0])
    [] e.sae = "CONFIRMED" /\ BigSync(e) -> [ToNothing(e) EXCEPT !.retr = FALSE]
    [] e.sae = "CONFIRMED" /\ ~BigSync(e) ->
         ProcessCommit(SendCommit([e EXCEPT !.own = c, !.sync = @ + 1]))
    [] e.sae = "ACCEPTED" -> FreeSta([e EXCEPT !.cache = {}])

RxCommit(e, f, c) ==
  LET g == ParseGroup(CancelCaching(e))
  IN IF g.sae = "ACCEPTED" /\ g.acc = f.c THEN Reject(g)
     ELSE SaeCommit([g EXCEPT !.peer = f.c], c)

\* Mutant: the sender's view of this side's commit is not checked.
VerifiedHalf(e, f) == e.peer # 0 /\ f.c = e.peer

\* sae_check_confirm.  In ACCEPTED there is no peer_commit_scalar any more, so
\* that the Confirm that sae_sm_step would send there is never sent.
Verified(e, f) == e.peer # 0 /\ f.c = e.peer /\ f.p = e.own

RxConfirm(e, f, n) ==
  LET g == CancelCaching(e)
  IN CASE g.sae = "NOTHING" -> g
       [] g.sae = "COMMITTED" /\ BigSync(g) -> [ToNothing(g) EXCEPT !.retr = FALSE]
       [] g.sae = "COMMITTED" /\ ~BigSync(g) ->
            SendCommit([g EXCEPT !.sync = @ + 1, !.retr = TRUE])
       [] g.sae = "CONFIRMED" /\ Verified(g, f) -> AcceptSta([g EXCEPT !.retr = FALSE], n)
       [] OTHER -> Reject(g)

\* auth_sae_retransmit_timer
RetransmitTimer(e) ==
  LET g == [e EXCEPT !.retr = FALSE]
      s == [g EXCEPT !.sync = @ + 1]
  IN IF BigSync(g) THEN ToNothing(g)
     ELSE CASE s.sae = "COMMITTED" -> SendCommit([s EXCEPT !.retr = TRUE])
            [] s.sae = "CONFIRMED" -> SendConfirm([s EXCEPT !.retr = TRUE])
            [] OTHER -> s

\* mesh_auth_timer
AuthTimer(e, c, n) ==
  LET g == [e EXCEPT !.auth = FALSE]
  IN IF g.sae = "ACCEPTED" THEN g
     ELSE IF g.tries < AuthRetry THEN [AuthSae(g, c, n) EXCEPT !.tries = @ + 1]
     ELSE IF g.tries = AuthRetry
       THEN [g EXCEPT !.plink = "BLOCKED", !.sae = "NOTHING", !.tries = @ + 1]
     ELSE FreeSta(g)

----------------------------------------------------------------------------
\* Mesh peering management.

\* Mutant: no holding timer is started.
HoldNoTimer(e) ==
  SendAction([e EXCEPT !.plink = "HOLDING", !.num = PlinkLeft(e)], "close")

\* The link is given up; a timer that runs is not cancelled.
Hold(e) ==
  SendAction([e EXCEPT !.plink = "HOLDING", !.num = PlinkLeft(e), !.ptm = @ + 1], "close")

\* Mutant: each side puts its own value first.
InOrderOwnFirst(x, y) == <<x, y>>

\* The order in which mesh_rsn_derive_mtk takes a value of this side and the
\* peer's, the same on both sides.
InOrder(x, y) == IF x < y THEN <<x, y>> ELSE <<y, x>>

\* mesh_rsn_derive_mtk, mesh_mpm_plink_estab.
Estab(e) ==
  [e EXCEPT !.mtk = <<e.pmk, InOrder(e.n, e.pn), InOrder(e.lid, e.plid)>>,
            !.plink = "ESTAB", !.num = @ + 1, !.caching = FALSE, !.ptm = 0]

\* mesh_mpm_fsm
Fsm(e, ev) ==
  CASE e.plink = "IDLE" /\ ev = "CLS_ACPT" -> FreeSta(e)
    [] e.plink = "IDLE" /\ ev = "OPN_ACPT" -> SendAction(PlinkOpen(e, "OPN_RCVD"), "cnf")
    [] e.plink = "IDLE" /\ ev = "REQ_RJCT" -> SendAction(e, "close")
    [] e.plink \in Opening \cup {"ESTAB"} /\ ev \in {"OPN_RJCT", "CLS_ACPT"} -> Hold(e)
    [] e.plink = "OPN_SNT" /\ ev = "OPN_ACPT" ->
         SendAction([e EXCEPT !.plink = "OPN_RCVD"], "cnf")
    [] e.plink = "OPN_SNT" /\ ev = "CNF_ACPT" -> [e EXCEPT !.plink = "CNF_RCVD", !.ptm = 1]
    [] e.plink \in {"OPN_RCVD", "ESTAB"} /\ ev = "OPN_ACPT" -> SendAction(e, "cnf")
    [] e.plink = "OPN_RCVD" /\ ev = "CNF_ACPT" -> Estab(e)
    [] e.plink = "CNF_RCVD" /\ ev = "OPN_ACPT" -> SendAction(Estab(e), "cnf")
    [] e.plink = "HOLDING" /\ ev = "CLS_ACPT" -> FreeSta(e)
    [] e.plink = "HOLDING" /\ ev \in {"OPN_ACPT", "CNF_ACPT", "OPN_RJCT"} ->
         SendAction(e, "close")
    [] OTHER -> e

\* The end of mesh_mpm_action_rx: the identifiers decide on the event.
RxOpen(e, f) ==
  IF e.num >= MaxPlinks THEN Fsm(e, "REQ_RJCT")
  ELSE IF e.plid \notin {0, f.lid} THEN e
  ELSE Fsm([e EXCEPT !.plid = f.lid], "OPN_ACPT")

RxCnf(e, f) ==
  IF e.num >= MaxPlinks THEN Fsm(e, "REQ_RJCT")
  ELSE IF e.lid # f.plid \/ e.plid \notin {0, f.lid} THEN e
  ELSE Fsm([e EXCEPT !.plid = f.lid], "CNF_ACPT")

RxClose(e, f) ==
  IF e.plink = "ESTAB" \/ (e.plid = f.lid /\ e.lid = f.plid) THEN Fsm(e, "CLS_ACPT") ELSE e

\* mesh_rsn_process_ampe: the nonces are compared, and the peer's is taken over,
\* before anything else of the frame is looked at.
NonceOk(e, f) == f.pn \in {0, e.n}

RxAmpe(e, f) ==
  LET g == [e EXCEPT !.pn = f.n]
  IN IF f.pmk # e.pmk THEN e
     ELSE IF f.aek # e.aek THEN (IF f.k = "open" THEN Fsm(e, "OPN_RJCT") ELSE e)
     ELSE IF ~NonceOk(e, f) THEN e
     ELSE CASE f.k = "open" -> RxOpen(g, f)
            [] f.k = "cnf" -> RxCnf(g, f)
            [] f.k = "close" -> RxClose(g, f)

\* mesh_mpm_action_rx: an Open of a peer without an entry starts one if its PMKSA
\* is cached.
RxAction(e, f, lid, n) ==
  CASE e.known -> IF e.sae = "ACCEPTED" THEN RxAmpe(e, f) ELSE e
    [] ~e.known /\ f.k = "open" /\ e.cache # {} -> RxAmpe(AuthSae(AddPeer(e, lid), 0, n), f)
    [] OTHER -> e

\* plink_timer
PlinkTimer(e) ==
  LET g == [e EXCEPT !.ptm = @ - 1]
  IN CASE g.plink \in {"OPN_SNT", "OPN_RCVD"} /\ g.retries < MaxRetries ->
            [SendAction(g, "open") EXCEPT !.ptm = @ + 1, !.retries = @ + 1]
       [] g.plink = "CNF_RCVD" \/ (g.plink \in Opening /\ g.retries >= MaxRetries) -> Hold(g)
       [] g.plink = "HOLDING" ->
            FreeSta(IF g.caching THEN [g EXCEPT !.cache = {}] ELSE g)
       [] OTHER -> g

\* mesh_mpm_plink_close (MESH_PEER_REMOVE): no holding timer is started.
PlinkClose(e) ==
  [SendAction([e EXCEPT !.plink = "HOLDING", !.num = PlinkLeft(e)], "close")
     EXCEPT !.ptm = 0, !.auth = FALSE, !.removed = TRUE]
=============================================================================
