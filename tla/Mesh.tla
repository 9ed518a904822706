--------------------------------- MODULE Mesh ---------------------------------
(* Two mesh stations that authenticate with SAE, or with a cached PMKSA, and   *)
(* open a peer link, over a medium that loses frames.  Either may be restarted *)
(* or told to remove its peer at any time.                                     *)
EXTENDS MeshPeer, Functions

CONSTANTS Sta,         \* the two stations
          MaxEvents    \* losses, restarts, removals, and timers that expire while
                       \* a frame is on its way

ASSUME StaAssumption ==
  /\ \E s, t \in Sta : s # t /\ Sta = {s, t}
  /\ MaxEvents \in Nat

VARIABLES node,        \* each station's record of the other one
          air,         \* the frames on their way to each station
          events

vars == <<node, air, events>>

Other(s) == CHOOSE t \in Sta : t # s

Flying == UNION {Range(air[s]) : s \in Sta}

\* Commits, nonces and link identifiers are random: unlike all that are in use.
Used(OfNode(_), OfFrame(_)) ==
  UNION ({OfNode(node[s]) : s \in Sta} \cup {OfFrame(f) : f \in Flying})

KeyCommits(e) == IF e.mtk = <<>> THEN {} ELSE e.mtk[1]
KeyNonces(e)  == IF e.mtk = <<>> THEN {} ELSE Range(e.mtk[2])
KeyLids(e)    == IF e.mtk = <<>> THEN {} ELSE Range(e.mtk[3])

NodeCommits(e)  == {e.own, e.peer, e.acc} \cup e.pmk \cup e.cache \cup e.aek \cup KeyCommits(e)
FrameCommits(f) == CASE f.k = "commit"  -> {f.c}
                     [] f.k = "confirm" -> {f.c, f.p}
                     [] f.k = "reject"  -> {}
                     [] OTHER           -> f.pmk \cup f.aek

NodeNonces(e)  == {e.n, e.pn} \cup KeyNonces(e)
FrameNonces(f) == IF f.k \in AuthKinds THEN {} ELSE {f.n, f.pn}

NodeLids(e)  == {e.lid, e.plid} \cup KeyLids(e)
FrameLids(f) == IF f.k \in AuthKinds THEN {} ELSE {f.lid, f.plid}

\* One that is not in use, if the supply S (a bound) still has one.
Fresh(S, used) == IF S \subseteq used THEN {} ELSE {CHOOSE x \in S : x \notin used}

FreshCommits == Fresh(Commits, Used(NodeCommits, FrameCommits))
FreshNonces  == Fresh(Nonces, Used(NodeNonces, FrameNonces))
FreshLids    == Fresh(Lids, Used(NodeLids, FrameLids))

TypeOK ==
  /\ node \in [Sta -> Records({<<>>})]
  /\ Flying \subseteq Frames
  /\ events \in 0 .. MaxEvents

Init ==
  /\ node = [s \in Sta |-> NoEntry]
  /\ air = [s \in Sta |-> <<>>]
  /\ events = 0

\* Station s is left with the record e, whose frames go on the air; the first
\* taken of the frames on their way to s are consumed.
Handle(s, e, taken) ==
  /\ node' = [node EXCEPT ![s] = [e EXCEPT !.out = <<>>]]
  /\ air' = [air EXCEPT ![s] = SubSeq(@, taken + 1, Len(@)), ![Other(s)] = @ \o e.out]

Step(s, e) == Handle(s, e, 0)

Event == events < MaxEvents /\ events' = events + 1

\* A timer may race a frame that is on its way, but rarely.
Race == IF \A s \in Sta : air[s] = <<>> THEN UNCHANGED events ELSE Event

\* wpa_mesh_new_mesh_peer, on a Beacon of the peer.
NewPeer(s) ==
  /\ ~node[s].known
  /\ \E l \in FreshLids, c \in FreshCommits, n \in FreshNonces :
       Step(s, AuthSae(AddPeer(node[s], l), c, n))
  /\ UNCHANGED events

\* handle_auth and mesh_mpm_action_rx.  A Confirm in ACCEPTED whose send-confirm
\* counter is not a new one is ignored: the counter is abstracted to a choice.
Received(e, f) ==
  IF f.k \in AuthKinds /\ (~e.known \/ e.plink = "BLOCKED") THEN {e}
  ELSE CASE f.k \notin AuthKinds -> {RxAction(e, f, l, n) : l \in FreshLids, n \in FreshNonces}
         [] f.k = "commit" -> {RxCommit(e, f, c) : c \in FreshCommits}
         [] f.k = "confirm" -> {RxConfirm(e, f, n) : n \in FreshNonces}
                                 \cup {g \in {CancelCaching(e)} : e.sae = "ACCEPTED"}
         [] f.k = "reject" -> {CancelCaching(e)}

Receive(s) ==
  /\ air[s] # <<>>
  /\ \E e \in Received(node[s], Head(air[s])) : Handle(s, e, 1)
  /\ UNCHANGED events

Lose(s) ==
  /\ air[s] # <<>>
  /\ air' = [air EXCEPT ![s] = Tail(@)]
  /\ Event
  /\ UNCHANGED node

Retransmit(s) == node[s].retr /\ Step(s, RetransmitTimer(node[s])) /\ Race

AuthTimeout(s) ==
  /\ node[s].auth
  /\ \E c \in FreshCommits, n \in FreshNonces : Step(s, AuthTimer(node[s], c, n))
  /\ Race

PlinkTimeout(s) == node[s].ptm > 0 /\ Step(s, PlinkTimer(node[s])) /\ Race

RemovePeer(s) == node[s].known /\ Step(s, PlinkClose(node[s])) /\ Event

\* The station leaves the mesh (mesh_mpm_deinit) or stops without a word, and
\* starts again with an empty cache.
Restart(s) ==
  /\ node[s] # NoEntry
  /\ \/ node[s].known /\ Step(s, [NoEntry EXCEPT !.out = PlinkClose(node[s]).out])
     \/ Step(s, NoEntry)
  /\ Event

Next ==
  \E s \in Sta : \/ NewPeer(s) \/ Receive(s) \/ Lose(s)
                 \/ Retransmit(s) \/ AuthTimeout(s) \/ PlinkTimeout(s)
                 \/ RemovePeer(s) \/ Restart(s)

Spec == Init /\ [][Next]_vars

----------------------------------------------------------------------------
Established(s) == node[s].plink = "ESTAB"

\* Two stations that both hold their link for established use the same key,
\* whatever frames of earlier links are still on their way and although a frame's
\* nonce is taken over before its link identifiers are compared.  With different
\* keys neither would notice: an established link has no timer.
LinkKeysAgree ==
  (\A s \in Sta : Established(s)) => \A s, t \in Sta : node[s].mtk = node[t].mtk

\* A station that accepted the commit that its peer still uses has the peer's PMK,
\* however commits crossed, were repeated or replaced before; only then can the
\* peering frames, protected with a key of the PMK, be understood.
SaeKeysAgree ==
  \A s, t \in Sta : /\ s # t /\ node[s].sae = "ACCEPTED" /\ node[t].sae = "ACCEPTED"
                    /\ node[s].acc # 0 /\ node[s].acc = node[t].own
                    => node[s].pmk = node[t].pmk

\* num_plinks, which is compared with max_peer_links, counts the established
\* links on every path that ends one, plus the links that were authenticated
\* anew while they were established: those are never subtracted.
PlinkCount ==
  \A s \in Sta : node[s].num = (IF Established(s) THEN 1 ELSE 0) + node[s].again

\* A link that is being opened or was given up has a timer, unless the user
\* removed the peer, and an entry that has not been authenticated yet has the
\* authentication timer: nothing waits for a frame that may have been lost.
WaitsHaveTimer ==
  \A s \in Sta :
    /\ node[s].plink \in Opening \cup {"HOLDING"} /\ ~node[s].removed => node[s].ptm > 0
    /\ node[s].known /\ node[s].plink = "IDLE" => node[s].auth
=============================================================================
