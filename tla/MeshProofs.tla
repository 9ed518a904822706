------------------------------ MODULE MeshProofs ------------------------------
(* Proofs about Mesh: type correctness, the count of established links, the    *)
(* timers of what waits, and the agreement of the keys that SAE and AMPE give. *)
(* A handler turns the record of a peer into the record after it, so that most *)
(* of the invariant is about one record, which every handler preserves.        *)
EXTENDS Mesh, TLAPS

----------------------------------------------------------------------------
(* The record of a peer.                                                       *)

\* A frame that is protected with a key has a nonce.
GoodFrames == {f \in Frames : f.k \notin AuthKinds /\ f.aek # {} => f.n # 0}

\* The fields of a record and what each of them holds, between handlers or,
\* with frames in out, within one.
FieldTypes ==
  [known |-> BOOLEAN, sae |-> {"NOTHING", "COMMITTED", "CONFIRMED", "ACCEPTED"},
   own |-> Commits \cup {0}, peer |-> Commits \cup {0}, acc |-> Commits \cup {0},
   pmk |-> SUBSET Commits, sync |-> 0 .. SaeSync + 1,
   retr |-> BOOLEAN, auth |-> BOOLEAN, tries |-> 0 .. AuthRetry + 1,
   plink |-> Opening \cup {"IDLE", "ESTAB", "HOLDING", "BLOCKED"},
   ptm |-> 0 .. 2, retries |-> 0 .. MaxRetries,
   lid |-> Lids \cup {0}, plid |-> Lids \cup {0},
   n |-> Nonces \cup {0}, pn |-> Nonces \cup {0}, aek |-> SUBSET Commits,
   mtk |-> {<<>>} \cup ((SUBSET Commits) \X (Nonces \X Nonces) \X (Lids \X Lids)),
   caching |-> BOOLEAN, removed |-> BOOLEAN,
   cache |-> SUBSET Commits, num |-> Nat, again |-> Nat,
   out |-> Seq(GoodFrames)]

Fields == DOMAIN FieldTypes

Typed(e) == /\ e = [x \in Fields |-> e[x]]
            /\ \A x \in Fields : e[x] \in FieldTypes[x]

LEMMA FieldsAre ==
  Fields = {"known", "sae", "own", "peer", "acc", "pmk", "sync", "retr", "auth", "tries",
            "plink", "ptm", "retries", "lid", "plid", "n", "pn", "aek", "mtk", "caching",
            "removed", "cache", "num", "again", "out"}
BY DEF Fields, FieldTypes

LEMMA SetField ==
  ASSUME NEW e, Typed(e), NEW x \in Fields, NEW v \in FieldTypes[x]
  PROVE  Typed([e EXCEPT ![x] = v])
BY DEF Typed

LEMMA SettledRecord ==
  ASSUME NEW e, Typed(e), e.out = <<>>
  PROVE  e \in Records({<<>>})
BY FieldsAre DEF Typed, FieldTypes, Records

LEMMA RecordTyped ==
  ASSUME NEW e \in Records(Seq(GoodFrames))
  PROVE  Typed(e)
BY FieldsAre DEF Typed, FieldTypes, Records

\* The part of PlinkCount and of WaitsHaveTimer that is about one record, and
\* what makes it inductive: the authentication timer runs exactly until the link
\* leaves IDLE, as it does when SAE accepts the peer, and before the peer is known
\* there is no link.
Counted(e) == e.num = (IF e.plink = "ESTAB" THEN 1 ELSE 0) + e.again
Timed(e)   == e.plink \in Opening \cup {"HOLDING"} /\ e.removed = FALSE => e.ptm > 0
Pending(e) == /\ e.plink = "IDLE" /\ e.known = TRUE => e.auth = TRUE
              /\ e.auth = TRUE => e.plink = "IDLE" /\ e.known = TRUE
              /\ e.plink = "IDLE" => e.sae # "ACCEPTED"
              /\ e.known = FALSE => e.plink = "IDLE"

\* One timer runs for a link until the link is given up.
OneTimer(e) == /\ e.plink \in Opening => e.ptm <= 1
               /\ e.plink \in {"IDLE", "ESTAB", "BLOCKED"} => e.ptm = 0

\* What a state of SAE says of the values that the frames carry.
Keyed(e) == /\ e.known = TRUE => e.lid # 0
            /\ e.known = FALSE => e.sae = "NOTHING"
            /\ e.sae \in {"COMMITTED", "CONFIRMED"} => e.own # 0
            /\ e.sae = "CONFIRMED" => e.peer # 0
            /\ e.sae \in {"CONFIRMED", "ACCEPTED"} => e.pmk # {}
            /\ e.sae = "ACCEPTED" => e.aek # {}
            /\ e.aek # {} => e.n # 0

RecInv(e) == Typed(e) /\ Counted(e) /\ Timed(e) /\ Pending(e) /\ OneTimer(e) /\ Keyed(e)

LEMMA TypesAre ==
  /\ FieldTypes["known"] = BOOLEAN /\ FieldTypes["retr"] = BOOLEAN
  /\ FieldTypes["auth"] = BOOLEAN /\ FieldTypes["caching"] = BOOLEAN
  /\ FieldTypes["removed"] = BOOLEAN
  /\ FieldTypes["sae"] = {"NOTHING", "COMMITTED", "CONFIRMED", "ACCEPTED"}
  /\ FieldTypes["own"] = Commits \cup {0} /\ FieldTypes["peer"] = Commits \cup {0}
  /\ FieldTypes["acc"] = Commits \cup {0} /\ FieldTypes["pmk"] = SUBSET Commits
  /\ FieldTypes["aek"] = SUBSET Commits /\ FieldTypes["cache"] = SUBSET Commits
  /\ FieldTypes["sync"] = 0 .. SaeSync + 1 /\ FieldTypes["tries"] = 0 .. AuthRetry + 1
  /\ FieldTypes["retries"] = 0 .. MaxRetries /\ FieldTypes["ptm"] = 0 .. 2
  /\ FieldTypes["plink"] = Opening \cup {"IDLE", "ESTAB", "HOLDING", "BLOCKED"}
  /\ FieldTypes["lid"] = Lids \cup {0} /\ FieldTypes["plid"] = Lids \cup {0}
  /\ FieldTypes["n"] = Nonces \cup {0} /\ FieldTypes["pn"] = Nonces \cup {0}
  /\ FieldTypes["mtk"] = {<<>>} \cup ((SUBSET Commits) \X (Nonces \X Nonces) \X (Lids \X Lids))
  /\ FieldTypes["num"] = Nat /\ FieldTypes["again"] = Nat
  /\ FieldTypes["out"] = Seq(GoodFrames)
BY DEF FieldTypes

LEMMA Holds ==
  ASSUME NEW e, Typed(e)
  PROVE  /\ e.known \in BOOLEAN /\ e.auth \in BOOLEAN /\ e.removed \in BOOLEAN
         /\ e.caching \in BOOLEAN
         /\ e.sae \in {"NOTHING", "COMMITTED", "CONFIRMED", "ACCEPTED"}
         /\ e.plink \in Opening \cup {"IDLE", "ESTAB", "HOLDING", "BLOCKED"}
         /\ e.own \in Commits \cup {0} /\ e.peer \in Commits \cup {0} /\ e.acc \in Commits \cup {0}
         /\ e.pmk \subseteq Commits /\ e.aek \subseteq Commits /\ e.cache \subseteq Commits
         /\ e.sync \in 0 .. SaeSync + 1 /\ e.tries \in 0 .. AuthRetry + 1
         /\ e.retries \in 0 .. MaxRetries /\ e.ptm \in 0 .. 2
         /\ e.num \in Nat /\ e.again \in Nat
         /\ e.lid \in Lids \cup {0} /\ e.plid \in Lids \cup {0}
         /\ e.n \in Nonces \cup {0} /\ e.pn \in Nonces \cup {0}
         /\ e.out \in Seq(GoodFrames)
BY FieldsAre, TypesAre DEF Typed

LEMMA SendTyped ==
  ASSUME NEW e, Typed(e), NEW f \in GoodFrames
  PROVE  Typed(Send(e, f))
<1> DEFINE o == Append(e.out, f)
<1>1. o \in FieldTypes["out"]
  BY FieldsAre, TypesAre DEF Typed
<1>2. Send(e, f) = [e EXCEPT !.out = o]
  BY DEF Send
<1> HIDE DEF o
<1> QED BY <1>1, <1>2 DEF Typed

LEMMA SendRec ==
  ASSUME NEW e, RecInv(e), NEW f \in GoodFrames
  PROVE  RecInv(Send(e, f))
<1> DEFINE g == Send(e, f)
<1>1. Typed(g)
  BY SendTyped DEF RecInv
<1>2. \A x \in Fields \ {"out"} : g[x] = e[x]
  BY DEF RecInv, Typed, Send
<1> HIDE DEF g
<1>3. RecInv(g)
  BY <1>1, <1>2, FieldsAre DEF RecInv, Counted, Timed, Pending, OneTimer, Keyed
<1> QED BY <1>3 DEF g

LEMMA NoEntryTyped == Typed(NoEntry)
<1>1. NoEntry \in Records(Seq(GoodFrames))
  <2>1. <<>> \in Seq(GoodFrames)
    OBVIOUS
  <2>2. SaeSync \in Nat /\ MaxRetries \in Nat /\ AuthRetry \in Nat
    BY MeshAssumption
  <2> QED BY <2>1, <2>2 DEF NoEntry, Records
<1> QED BY <1>1, RecordTyped

LEMMA FreeStaRec ==
  ASSUME NEW e, Typed(e), Counted(e)
  PROVE  RecInv(FreeSta(e))
<1>1. Typed(FreeSta(e))
  <2>1. PlinkLeft(e) \in FieldTypes["num"]
    BY FieldsAre, TypesAre DEF Typed, Counted, PlinkLeft
  <2>2. e.cache \in FieldTypes["cache"] /\ e.again \in FieldTypes["again"] /\ e.out \in FieldTypes["out"]
    BY FieldsAre DEF Typed
  <2> DEFINE a == [NoEntry EXCEPT !.cache = e.cache]
             b == [a EXCEPT !.num = PlinkLeft(e)]
             c == [b EXCEPT !.again = e.again]
  <2>3. Typed(a) BY <2>2, NoEntryTyped, SetField, FieldsAre
  <2>4. Typed(b) BY <2>1, <2>3, SetField, FieldsAre
  <2>5. Typed(c) BY <2>2, <2>4, SetField, FieldsAre
  <2>6. Typed([c EXCEPT !.out = e.out]) BY <2>2, <2>5, SetField, FieldsAre
  <2>7. FreeSta(e) = [c EXCEPT !.out = e.out] BY DEF FreeSta
  <2> HIDE DEF c
  <2> QED BY <2>6, <2>7
<1>2. /\ e.num \in Nat /\ e.again \in Nat /\ Counted(e)
  BY Holds
<1> QED BY <1>1, <1>2 DEF RecInv, Counted, Timed, Pending, OneTimer, Keyed,
                          FreeSta, NoEntry, PlinkLeft, Opening

LEMMA SendActionTyped ==
  ASSUME NEW e, Typed(e), Keyed(e), e.known = TRUE, NEW k \in {"open", "cnf", "close"}
  PROVE  /\ Typed(SendAction(e, k)) /\ \A x \in Fields \ {"out"} : SendAction(e, k)[x] = e[x]
         /\ RecInv(e) => RecInv(SendAction(e, k))
<1> DEFINE f == [k |-> k, lid |-> e.lid, plid |-> IF k = "open" THEN 0 ELSE e.plid,
                 n |-> e.n, pn |-> e.pn, pmk |-> e.pmk, aek |-> e.aek]
<1>1. /\ e.lid \in Lids /\ e.plid \in Lids \cup {0} /\ e.n \in Nonces \cup {0}
      /\ e.pn \in Nonces \cup {0} /\ e.pmk \subseteq Commits /\ e.aek \subseteq Commits
      /\ e.aek # {} => e.n # 0
  BY Holds DEF Keyed
<1>2. f \in GoodFrames
  BY <1>1 DEF GoodFrames, Frames, AuthKinds
<1>3. SendAction(e, k) = Send(e, f)
  BY DEF SendAction
<1> HIDE DEF f
<1>4. \A x \in Fields \ {"out"} : Send(e, f)[x] = e[x]
  BY DEF Typed, Send
<1> QED BY <1>2, <1>3, <1>4, SendTyped, SendRec

LEMMA SendActionRec ==
  ASSUME NEW e, RecInv(e), e.known = TRUE, NEW k \in {"open", "cnf", "close"}
  PROVE  RecInv(SendAction(e, k))
BY SendActionTyped DEF RecInv

LEMMA HoldRec ==
  ASSUME NEW e, Typed(e), Counted(e), Pending(e), OneTimer(e), Keyed(e),
         e.plink \in Opening \cup {"ESTAB"}
  PROVE  RecInv(Hold(e))
<1> DEFINE g == [e EXCEPT !.plink = "HOLDING", !.num = PlinkLeft(e), !.ptm = @ + 1]
<1>1. /\ e.num \in Nat /\ e.again \in Nat /\ e.ptm \in 0 .. 1 /\ e.known = TRUE
  BY Holds DEF OneTimer, Opening, Pending
<1>2. /\ "HOLDING" \in FieldTypes["plink"] /\ e.ptm + 1 \in FieldTypes["ptm"]
      /\ PlinkLeft(e) \in FieldTypes["num"]
  BY <1>1, TypesAre DEF PlinkLeft, RecInv, Counted
<1>3. Typed(g)
  BY <1>2, FieldsAre DEF Typed, RecInv
<1>4. RecInv(g)
  BY <1>1, <1>3, FieldsAre DEF RecInv, Counted, Timed, Pending, OneTimer, Keyed, PlinkLeft, Opening, Typed
<1>5. g.known = TRUE
  BY <1>1, FieldsAre DEF RecInv, Typed
<1>6. Hold(e) = SendAction(g, "close")
  BY DEF Hold
<1> HIDE DEF g
<1> QED BY <1>4, <1>5, <1>6, SendActionRec

\* SAE, or a cached PMKSA, has accepted the peer: the link is opened, anew if it
\* was established.
LEMMA AcceptRec ==
  ASSUME NEW e, Typed(e), Counted(e), e.known = TRUE, e.lid # 0, e.pmk # {},
         NEW n \in Nonces
  PROVE  RecInv(AcceptSta(e, n)) /\ AcceptSta(e, n).plink = "OPN_SNT"
<1> DEFINE g == [e EXCEPT !.auth = FALSE, !.n = n, !.pn = 0, !.aek = e.pmk,
                          !.again = IF e.plink = "ESTAB" THEN @ + 1 ELSE @]
           f == [k |-> "open", lid |-> g.lid, plid |-> 0,
                 n |-> g.n, pn |-> g.pn, pmk |-> g.pmk, aek |-> g.aek]
           h == [Send(g, f) EXCEPT !.plink = "OPN_SNT", !.ptm = 1]
           a == AcceptSta(e, n)
<1>1. /\ e.num \in Nat /\ e.again \in Nat /\ e.lid \in Lids /\ e.pmk \subseteq Commits
      /\ e.peer \in Commits \cup {0}
  BY Holds
<1>2. Typed(g)
  <2>1. /\ FALSE \in FieldTypes["auth"] /\ n \in FieldTypes["n"] /\ 0 \in FieldTypes["pn"]
        /\ e.pmk \in FieldTypes["aek"]
        /\ (IF e.plink = "ESTAB" THEN e.again + 1 ELSE e.again) \in FieldTypes["again"]
    BY <1>1, TypesAre
  <2>2. g = [x \in Fields |-> g[x]]
    BY DEF Typed
  <2>3. \A x \in Fields : g[x] \in FieldTypes[x]
    BY <2>1 DEF Typed
  <2> QED BY <2>2, <2>3 DEF Typed
<1>3. /\ g.known = TRUE /\ g.auth = FALSE /\ g.lid = e.lid /\ g.n = n /\ g.pn = 0
      /\ g.pmk = e.pmk /\ g.aek = e.pmk /\ g.num = g.again
  BY <1>1, FieldsAre DEF Typed, Counted
<1> HIDE DEF g
<1>4. f \in GoodFrames
  BY <1>1, <1>3, MeshAssumption DEF GoodFrames, Frames, AuthKinds
<1> HIDE DEF f
<1>5. Typed(Send(g, f))
  BY <1>2, <1>4, SendTyped
<1>6. \A x \in Fields \ {"out"} : Send(g, f)[x] = g[x]
  BY <1>2 DEF Typed, Send
<1>7. Typed(h)
  <2>1. "OPN_SNT" \in FieldTypes["plink"] /\ 1 \in FieldTypes["ptm"]
    BY TypesAre DEF Opening
  <2> QED BY <1>5, <2>1, FieldsAre DEF Typed
<1>8. /\ h.known = TRUE /\ h.auth = FALSE /\ h.lid = e.lid /\ h.n = n /\ h.aek = e.pmk
      /\ h.pmk = e.pmk /\ h.num = h.again /\ h.plink = "OPN_SNT" /\ h.ptm = 1
  BY <1>3, <1>5, <1>6, FieldsAre DEF Typed
<1>9. a = [h EXCEPT !.sae = "ACCEPTED", !.acc = e.peer, !.peer = 0, !.cache = e.pmk]
  BY DEF AcceptSta, StartAmpe, PlinkOpen, SendAction, g, f
<1> HIDE DEF h, a
<1>10. Typed(a)
  <2>1. /\ "ACCEPTED" \in FieldTypes["sae"] /\ e.peer \in FieldTypes["acc"]
        /\ 0 \in FieldTypes["peer"] /\ e.pmk \in FieldTypes["cache"]
    BY <1>1, TypesAre
  <2>2. a = [x \in Fields |-> a[x]]
    BY <1>7, <1>9 DEF Typed
  <2>3. \A x \in Fields : a[x] \in FieldTypes[x]
    BY <1>7, <1>9, <2>1 DEF Typed
  <2> QED BY <2>2, <2>3 DEF Typed
<1>11. /\ a.known = TRUE /\ a.auth = FALSE /\ a.lid = e.lid /\ a.n = n /\ a.aek = e.pmk
       /\ a.pmk = e.pmk /\ a.num = a.again /\ a.plink = "OPN_SNT" /\ a.ptm = 1
       /\ a.sae = "ACCEPTED"
  BY <1>7, <1>8, <1>9, FieldsAre DEF Typed
<1>12. n # 0 /\ a.again \in Nat
  BY <1>10, Holds, MeshAssumption
<1>13. RecInv(a)
  BY <1>10, <1>11, <1>12 DEF RecInv, Counted, Timed, Pending, OneTimer, Keyed, Opening
<1> QED BY <1>11, <1>13 DEF a 

LEMMA SendAuthRec ==
  ASSUME NEW e, RecInv(e)
  PROVE  /\ RecInv(Reject(e))
         /\ e.own # 0 => RecInv(SendCommit(e))
         /\ e.own # 0 /\ e.peer # 0 => RecInv(SendConfirm(e))
<1>1. e.own \in Commits \cup {0} /\ e.peer \in Commits \cup {0}
  BY Holds DEF RecInv
<1>2. [k |-> "reject"] \in GoodFrames
  BY DEF GoodFrames, Frames, AuthKinds
<1>3. ASSUME e.own # 0 PROVE [k |-> "commit", c |-> e.own] \in GoodFrames
  BY <1>1, <1>3 DEF GoodFrames, Frames, AuthKinds
<1>4. ASSUME e.own # 0, e.peer # 0
      PROVE  [k |-> "confirm", c |-> e.own, p |-> e.peer] \in GoodFrames
  BY <1>1, <1>4 DEF GoodFrames, Frames, AuthKinds
<1> QED BY <1>2, <1>3, <1>4, SendRec DEF Reject, SendCommit, SendConfirm

\* A record whose link is that of e, when the state of SAE is not ACCEPTED or
\* has not changed.
SameLink(e, g) ==
  /\ \A x \in {"known", "auth", "plink", "ptm", "num", "again", "removed", "lid", "n", "aek"} :
       g[x] = e[x]
  /\ g.sae = "ACCEPTED" => e.sae = "ACCEPTED"

LEMMA SameLinkRec ==
  ASSUME NEW e, RecInv(e), NEW g, Typed(g), SameLink(e, g), Keyed(g)
  PROVE  RecInv(g)
BY DEF RecInv, SameLink, Counted, Timed, Pending, OneTimer

LEMMA AuthSaeRec ==
  ASSUME NEW e, Typed(e), Counted(e), e.known = TRUE, e.plink = "IDLE", e.lid # 0, e.ptm = 0,
         e.aek # {} => e.n # 0,
         NEW c \in Commits \cup {0}, c = 0 => e.cache # {}, NEW n \in Nonces
  PROVE  RecInv(AuthSae(e, c, n))
<1>1. CASE e.cache # {}
  <2> DEFINE g == [e EXCEPT !.pmk = e.cache]
             h == AcceptSta(g, n)
  <2>1. e.cache \in FieldTypes["pmk"]
    BY Holds, TypesAre
  <2>2. Typed(g) /\ Counted(g) /\ g.known = TRUE /\ g.lid # 0 /\ g.pmk # {}
    BY <1>1, <2>1, FieldsAre DEF Typed, Counted
  <2> HIDE DEF g
  <2>3. RecInv(h)
    BY <2>2, AcceptRec
  <2> HIDE DEF h
  <2> DEFINE k == [h EXCEPT !.caching = TRUE]
  <2>4. AuthSae(e, c, n) = k
    BY <1>1 DEF AuthSae, h, g
  <2>5. TRUE \in FieldTypes["caching"]
    BY TypesAre
  <2>6. Typed(k)
    BY <2>3, <2>5 DEF Typed, RecInv
  <2>7. SameLink(h, k) /\ Keyed(k)
    BY <2>3, FieldsAre DEF SameLink, Keyed, Typed, RecInv
  <2> HIDE DEF k
  <2> QED BY <2>3, <2>4, <2>6, <2>7, SameLinkRec
<1>2. CASE e.cache = {}
  <2> DEFINE h == SaeClear(e)
             g == [h EXCEPT !.own = c, !.sae = "COMMITTED", !.retr = TRUE,
                            !.auth = TRUE, !.caching = FALSE]
  <2>1. /\ "NOTHING" \in FieldTypes["sae"] /\ 0 \in FieldTypes["own"] /\ 0 \in FieldTypes["peer"]
        /\ 0 \in FieldTypes["acc"] /\ {} \in FieldTypes["pmk"] /\ 0 \in FieldTypes["sync"]
        /\ c \in FieldTypes["own"] /\ "COMMITTED" \in FieldTypes["sae"]
        /\ TRUE \in FieldTypes["retr"] /\ TRUE \in FieldTypes["auth"]
        /\ FALSE \in FieldTypes["caching"]
    BY TypesAre, MeshAssumption
  <2>2. Typed(h)
    BY <2>1 DEF Typed, SaeClear
  <2>3. \A x \in Fields \ {"sae", "own", "peer", "acc", "pmk", "sync"} : h[x] = e[x]
    BY DEF Typed, SaeClear
  <2> HIDE DEF h
  <2>4. Typed(g)
    BY <2>1, <2>2 DEF Typed
  <2>5. /\ g.known = TRUE /\ g.plink = "IDLE" /\ g.auth = TRUE /\ g.sae = "COMMITTED"
        /\ g.own = c /\ g.ptm = 0 /\ g.lid = e.lid /\ g.aek = e.aek /\ g.n = e.n
        /\ g.num = e.num /\ g.again = e.again
    BY <2>2, <2>3, FieldsAre DEF Typed
  <2> HIDE DEF g
  <2>6. RecInv(g)
    BY <1>2, <2>4, <2>5 DEF RecInv, Counted, Timed, Pending, OneTimer, Keyed, Opening
  <2>7. AuthSae(e, c, n) = SendCommit(g)
    BY <1>2 DEF AuthSae, g, h
  <2>8. c # 0
    BY <1>2
  <2> QED BY <2>5, <2>6, <2>7, <2>8, SendAuthRec
<1> QED BY <1>1, <1>2

----------------------------------------------------------------------------
(* The handlers of SAE.                                                        *)

LEMMA CancelCachingRec ==
  ASSUME NEW e, RecInv(e)
  PROVE  /\ RecInv(CancelCaching(e)) /\ SameLink(e, CancelCaching(e))
         /\ \A x \in {"sae", "own", "peer", "acc", "pmk", "out", "sync"} :
              CancelCaching(e)[x] = e[x]
<1> DEFINE g == CancelCaching(e)
<1>1. {} \in FieldTypes["cache"] /\ FALSE \in FieldTypes["caching"]
  BY TypesAre
<1>2. Typed(g)
  BY <1>1 DEF Typed, RecInv, CancelCaching
<1>3. \A x \in Fields \ {"cache", "caching"} : g[x] = e[x]
  BY DEF Typed, RecInv, CancelCaching
<1> HIDE DEF g
<1>4. SameLink(e, g) /\ \A x \in {"sae", "own", "peer", "acc", "pmk", "out", "sync"} : g[x] = e[x]
  BY <1>3, FieldsAre DEF SameLink
<1>5. Keyed(g)
  BY <1>4 DEF RecInv, Keyed, SameLink
<1>6. RecInv(g)
  BY <1>2, <1>4, <1>5, SameLinkRec
<1> QED BY <1>4, <1>6 DEF g

\* The fields that SAE changes while it leaves the link alone.
SaeFields == {"sae", "own", "peer", "acc", "pmk", "sync", "retr", "out"}

LEMMA SaeFieldsRec ==
  ASSUME NEW e, RecInv(e), NEW g, Typed(g), \A x \in Fields \ SaeFields : g[x] = e[x],
         g.sae = "ACCEPTED" => e.sae = "ACCEPTED",
         e.known = FALSE => g.sae = "NOTHING",
         g.sae \in {"COMMITTED", "CONFIRMED"} => g.own # 0,
         g.sae = "CONFIRMED" => g.peer # 0,
         g.sae \in {"CONFIRMED", "ACCEPTED"} => g.pmk # {}
  PROVE  RecInv(g)
<1>1. SameLink(e, g)
  BY FieldsAre DEF SameLink, SaeFields
<1>2. Keyed(g)
  BY <1>1 DEF RecInv, Keyed, SameLink
<1> QED BY <1>1, <1>2, SameLinkRec

LEMMA ParseGroupRec ==
  ASSUME NEW e, RecInv(e)
  PROVE  RecInv(ParseGroup(e))
<1> DEFINE g == SaeClear(e)
<1>1. /\ "NOTHING" \in FieldTypes["sae"] /\ 0 \in FieldTypes["own"] /\ 0 \in FieldTypes["peer"]
      /\ 0 \in FieldTypes["acc"] /\ {} \in FieldTypes["pmk"] /\ 0 \in FieldTypes["sync"]
  BY TypesAre, MeshAssumption
<1>2. Typed(g)
  BY <1>1 DEF Typed, RecInv, SaeClear
<1>3. (\A x \in Fields \ SaeFields : g[x] = e[x]) /\ g.sae = "NOTHING"
  BY FieldsAre DEF Typed, RecInv, SaeClear, SaeFields
<1> HIDE DEF g
<1>4. RecInv(g)
  BY <1>2, <1>3, SaeFieldsRec
<1> QED BY <1>4 DEF ParseGroup, g

\* e is the record before the Commit is processed, d that with the new state.
LEMMA ProcessCommitRec ==
  ASSUME NEW e, RecInv(e), e.known = TRUE,
         NEW d, Typed(d), \A x \in Fields \ SaeFields : d[x] = e[x],
         d.sae = "CONFIRMED", d.own # 0, d.peer # 0
  PROVE  RecInv(ProcessCommit(d))
<1> DEFINE g == [d EXCEPT !.pmk = {d.own, d.peer}, !.retr = TRUE]
<1>1. {d.own, d.peer} \in FieldTypes["pmk"] /\ TRUE \in FieldTypes["retr"]
  BY Holds, TypesAre
<1>2. Typed(g)
  BY <1>1 DEF Typed
<1>3. (\A x \in Fields \ {"pmk", "retr"} : g[x] = d[x]) /\ g.pmk = {d.own, d.peer}
  BY FieldsAre DEF Typed
<1>4. ProcessCommit(d) = SendConfirm(g)
  BY DEF ProcessCommit
<1> HIDE DEF g
<1>5. g.sae = d.sae /\ g.own = d.own /\ g.peer = d.peer
  BY <1>3, FieldsAre
<1>6. RecInv(g)
  <2>1. g.pmk # {} /\ (\A x \in Fields \ SaeFields : g[x] = e[x])
    BY <1>3 DEF SaeFields
  <2> QED BY <1>2, <1>5, <2>1, SaeFieldsRec
<1> QED BY <1>4, <1>5, <1>6, SendAuthRec

LEMMA SendFields ==
  ASSUME NEW e, Typed(e), NEW f
  PROVE  \A x \in Fields \ {"out"} : Send(e, f)[x] = e[x]
BY DEF Typed, Send

LEMMA SaeCommitRec ==
  ASSUME NEW e, RecInv(e), e.known = TRUE, NEW p \in Commits, NEW c \in Commits
  PROVE  RecInv(SaeCommit([e EXCEPT !.peer = p], c))
<1> DEFINE g == [e EXCEPT !.peer = p]
<1>0. c # 0 /\ p # 0
  BY MeshAssumption
<1>1. Typed(g)
  <2>1. p \in FieldTypes["peer"]
    BY TypesAre
  <2> QED BY <2>1 DEF Typed, RecInv
<1>2. (\A x \in Fields \ {"peer"} : g[x] = e[x]) /\ g.peer = p
  BY FieldsAre DEF Typed, RecInv
<1> HIDE DEF g
<1>3. g.sae = e.sae /\ g.sync = e.sync /\ g.known = TRUE
      /\ (\A x \in Fields \ SaeFields : g[x] = e[x])
  BY <1>2, FieldsAre DEF SaeFields
<1>4. RecInv(g)
  BY <1>0, <1>1, <1>2, <1>3, FieldsAre, SaeFieldsRec DEF RecInv, Keyed
<1>5. /\ c \in FieldTypes["own"] /\ "CONFIRMED" \in FieldTypes["sae"]
      /\ "NOTHING" \in FieldTypes["sae"] /\ 0 \in FieldTypes["sync"]
      /\ FALSE \in FieldTypes["retr"]
  BY TypesAre, MeshAssumption
<1>6. CASE g.sae = "NOTHING"
  <2> DEFINE h == [g EXCEPT !.own = c]
             k == SendCommit(h)
             d == [k EXCEPT !.sae = "CONFIRMED", !.sync = 0]
  <2>1. Typed(h) /\ (\A x \in Fields \ {"own"} : h[x] = g[x]) /\ h.own = c
    BY <1>1, <1>5, FieldsAre DEF Typed
  <2> HIDE DEF h
  <2>2. RecInv(h)
    <3>1. h.sae = "NOTHING" /\ \A x \in Fields \ SaeFields : h[x] = g[x]
      BY <1>6, <2>1, FieldsAre DEF SaeFields
    <3> QED BY <1>4, <2>1, <3>1, SaeFieldsRec
  <2>3. RecInv(k) /\ \A x \in Fields \ {"out"} : k[x] = h[x]
    BY <1>0, <2>1, <2>2, SendAuthRec, SendFields DEF SendCommit
  <2> HIDE DEF k
  <2>4. Typed(d)
    BY <1>5, <2>3 DEF Typed, RecInv
  <2>5. (\A x \in Fields \ {"sae", "sync"} : d[x] = k[x]) /\ d.sae = "CONFIRMED"
    BY <2>3, FieldsAre DEF Typed, RecInv
  <2>6. d.own = c /\ d.peer = p /\ (\A x \in Fields \ SaeFields : d[x] = e[x])
    BY <1>2, <2>1, <2>3, <2>5, FieldsAre DEF SaeFields
  <2>7. SaeCommit(g, c) = ProcessCommit(d)
    BY <1>6 DEF SaeCommit, h, k
  <2> HIDE DEF d
  <2> QED BY <1>0, <2>4, <2>5, <2>6, <2>7, ProcessCommitRec DEF g
<1>7. CASE g.sae = "COMMITTED"
  <2> DEFINE d == [g EXCEPT !.sae = "CONFIRMED", !.sync = 0]
  <2>1. Typed(d)
    BY <1>1, <1>5 DEF Typed
  <2>2. (\A x \in Fields \ {"sae", "sync"} : d[x] = g[x]) /\ d.sae = "CONFIRMED"
    BY <1>1, FieldsAre DEF Typed
  <2>3. d.own # 0 /\ d.peer # 0 /\ (\A x \in Fields \ SaeFields : d[x] = e[x])
    BY <1>0, <1>2, <1>4, <1>7, <2>2, FieldsAre DEF SaeFields, RecInv, Keyed
  <2>4. SaeCommit(g, c) = ProcessCommit(d)
    BY <1>7 DEF SaeCommit
  <2> HIDE DEF d
  <2> QED BY <2>1, <2>2, <2>3, <2>4, ProcessCommitRec DEF g
<1>8. CASE g.sae = "CONFIRMED" /\ BigSync(g)
  <2> DEFINE h == [g EXCEPT !.sae = "NOTHING", !.sync = 0]
             d == [h EXCEPT !.retr = FALSE]
  <2>1. Typed(d)
    BY <1>1, <1>5 DEF Typed
  <2>2. (\A x \in Fields \ {"sae", "sync", "retr"} : d[x] = g[x]) /\ d.sae = "NOTHING"
    BY <1>1, FieldsAre DEF Typed
  <2>3. SaeCommit(g, c) = d
    BY <1>8 DEF SaeCommit, ToNothing
  <2> HIDE DEF d
  <2>4. RecInv(d)
    <3>1. \A x \in Fields \ SaeFields : d[x] = g[x]
      BY <2>2 DEF SaeFields
    <3> QED BY <1>4, <2>1, <2>2, <3>1, SaeFieldsRec
  <2> QED BY <2>3, <2>4 DEF g
<1>9. CASE g.sae = "CONFIRMED" /\ ~BigSync(g)
  <2> DEFINE h == [g EXCEPT !.own = c, !.sync = @ + 1]
             d == SendCommit(h)
  <2>1. g.sync + 1 \in FieldTypes["sync"]
    BY <1>1, <1>9, Holds, TypesAre, MeshAssumption DEF BigSync
  <2>2. Typed(h)
    BY <1>1, <1>5, <2>1 DEF Typed
  <2>3. (\A x \in Fields \ {"own", "sync"} : h[x] = g[x]) /\ h.own = c
    BY <1>1, FieldsAre DEF Typed
  <2> HIDE DEF h
  <2>4. RecInv(h)
    <3>1. h.sae = "CONFIRMED" /\ h.peer = p /\ h.pmk = g.pmk /\ g.pmk # {}
      BY <1>2, <1>4, <1>9, <2>3, FieldsAre DEF RecInv, Keyed
    <3>2. \A x \in Fields \ SaeFields : h[x] = g[x]
      BY <2>3 DEF SaeFields
    <3> QED BY <1>0, <1>3, <1>4, <2>2, <2>3, <3>1, <3>2, SaeFieldsRec
  <2>5. RecInv(d) /\ \A x \in Fields \ {"out"} : d[x] = h[x]
    BY <1>0, <2>2, <2>3, <2>4, SendAuthRec, SendFields DEF SendCommit
  <2> HIDE DEF d
  <2>6. /\ d.own = c /\ d.peer = p /\ d.sae = "CONFIRMED"
        /\ (\A x \in Fields \ SaeFields : d[x] = e[x])
    BY <1>2, <1>9, <2>3, <2>5, FieldsAre DEF SaeFields
  <2>7. SaeCommit(g, c) = ProcessCommit(d)
    BY <1>9 DEF SaeCommit, h, d
  <2> QED BY <1>0, <2>5, <2>6, <2>7, ProcessCommitRec DEF g, RecInv
<1>10. CASE g.sae = "ACCEPTED"
  <2> DEFINE d == [g EXCEPT !.cache = {}]
  <2>1. {} \in FieldTypes["cache"]
    BY TypesAre
  <2>2. Typed(d) /\ \A x \in Fields \ {"cache"} : d[x] = g[x]
    BY <1>1, <2>1 DEF Typed
  <2>3. SaeCommit(g, c) = FreeSta(d)
    BY <1>10 DEF SaeCommit
  <2> HIDE DEF d
  <2>4. SameLink(g, d) /\ Keyed(d)
    BY <1>4, <2>2, FieldsAre DEF SameLink, RecInv, Keyed
  <2> QED BY <1>4, <2>2, <2>3, <2>4, SameLinkRec, FreeStaRec DEF g, RecInv
<1>11. g.sae \in {"NOTHING", "COMMITTED", "CONFIRMED", "ACCEPTED"}
  BY <1>1, Holds
<1> QED BY <1>6, <1>7, <1>8, <1>9, <1>10, <1>11 DEF g

LEMMA RxCommitRec ==
  ASSUME NEW e, RecInv(e), e.known = TRUE, NEW f, f.c \in Commits, NEW c \in Commits
  PROVE  RecInv(RxCommit(e, f, c))
<1> DEFINE h == CancelCaching(e)
           g == ParseGroup(h)
<1>1. RecInv(h) /\ h.known = TRUE
  BY CancelCachingRec DEF SameLink
<1> HIDE DEF h
<1>2. RecInv(g)
  BY <1>1, ParseGroupRec
<1>3. g.known = TRUE
  BY <1>1, FieldsAre DEF ParseGroup, SaeClear, RecInv, Typed
<1> HIDE DEF g
<1>4. RecInv(SaeCommit([g EXCEPT !.peer = f.c], c)) /\ RecInv(Reject(g))
  BY <1>2, <1>3, SaeCommitRec, SendAuthRec
<1> QED BY <1>4 DEF RxCommit, g, h

LEMMA RxConfirmRec ==
  ASSUME NEW e, RecInv(e), e.known = TRUE, NEW f, NEW n \in Nonces
  PROVE  RecInv(RxConfirm(e, f, n))
<1> DEFINE g == CancelCaching(e)
<1>1. RecInv(g) /\ g.known = TRUE /\ Typed(g)
  BY CancelCachingRec DEF SameLink, RecInv
<1>2. RxConfirm(e, f, n) =
        CASE g.sae = "NOTHING" -> g
          [] g.sae = "COMMITTED" /\ BigSync(g) -> [ToNothing(g) EXCEPT !.retr = FALSE]
          [] g.sae = "COMMITTED" /\ ~BigSync(g) ->
               SendCommit([g EXCEPT !.sync = @ + 1, !.retr = TRUE])
          [] g.sae = "CONFIRMED" /\ Verified(g, f) -> AcceptSta([g EXCEPT !.retr = FALSE], n)
          [] OTHER -> Reject(g)
  BY DEF RxConfirm
<1> HIDE DEF g
<1>3. "NOTHING" \in FieldTypes["sae"] /\ 0 \in FieldTypes["sync"]
      /\ FALSE \in FieldTypes["retr"] /\ TRUE \in FieldTypes["retr"]
  BY TypesAre, MeshAssumption
<1>4. RecInv([ToNothing(g) EXCEPT !.retr = FALSE])
  <2> DEFINE d == [ToNothing(g) EXCEPT !.retr = FALSE]
  <2>1. Typed(d)
    BY <1>1, <1>3 DEF Typed, ToNothing
  <2>2. d.sae = "NOTHING" /\ \A x \in Fields \ SaeFields : d[x] = g[x]
    BY <1>1, FieldsAre DEF Typed, ToNothing, SaeFields
  <2> HIDE DEF d
  <2>3. RecInv(d)
    BY <1>1, <2>1, <2>2, SaeFieldsRec
  <2> QED BY <2>3 DEF d
<1>5. ASSUME g.sae = "COMMITTED", ~BigSync(g)
      PROVE  RecInv(SendCommit([g EXCEPT !.sync = @ + 1, !.retr = TRUE]))
  <2> DEFINE d == [g EXCEPT !.sync = @ + 1, !.retr = TRUE]
  <2>1. g.sync + 1 \in FieldTypes["sync"]
    BY <1>1, <1>5, Holds, TypesAre, MeshAssumption DEF BigSync
  <2>2. Typed(d)
    BY <1>1, <1>3, <2>1 DEF Typed
  <2>3. /\ d.sae = "COMMITTED" /\ d.own = g.own /\ g.own # 0
        /\ \A x \in Fields \ SaeFields : d[x] = g[x]
    BY <1>1, <1>5, FieldsAre DEF Typed, SaeFields, RecInv, Keyed
  <2> HIDE DEF d
  <2>4. RecInv(d)
    BY <1>1, <2>2, <2>3, SaeFieldsRec
  <2>5. RecInv(SendCommit(d))
    BY <2>3, <2>4, SendAuthRec
  <2> QED BY <2>5 DEF d
<1>6. ASSUME g.sae = "CONFIRMED"
      PROVE  RecInv(AcceptSta([g EXCEPT !.retr = FALSE], n))
  <2> DEFINE d == [g EXCEPT !.retr = FALSE]
  <2>1. Typed(d)
    BY <1>1, <1>3 DEF Typed
  <2>2. Counted(d) /\ d.known = TRUE /\ d.lid # 0 /\ d.pmk # {}
    BY <1>1, <1>6, FieldsAre DEF Typed, RecInv, Counted, Keyed
  <2> HIDE DEF d
  <2>3. RecInv(AcceptSta(d, n))
    BY <2>1, <2>2, AcceptRec
  <2> QED BY <2>3 DEF d
<1>7. RecInv(Reject(g))
  BY <1>1, SendAuthRec
<1> QED BY <1>1, <1>2, <1>4, <1>5, <1>6, <1>7

LEMMA RetransmitTimerRec ==
  ASSUME NEW e, RecInv(e)
  PROVE  RecInv(RetransmitTimer(e))
<1> DEFINE g == [e EXCEPT !.retr = FALSE]
           s == [g EXCEPT !.sync = @ + 1]
           r == [s EXCEPT !.retr = TRUE]
<1>1. "NOTHING" \in FieldTypes["sae"] /\ 0 \in FieldTypes["sync"]
      /\ FALSE \in FieldTypes["retr"] /\ TRUE \in FieldTypes["retr"]
  BY TypesAre, MeshAssumption
<1>2. Typed(g) /\ \A x \in Fields \ {"retr"} : g[x] = e[x]
  BY <1>1 DEF Typed, RecInv
<1>3. RetransmitTimer(e) =
        IF BigSync(g) THEN ToNothing(g)
        ELSE CASE s.sae = "COMMITTED" -> SendCommit(r)
               [] s.sae = "CONFIRMED" -> SendConfirm(r)
               [] OTHER -> s
  BY DEF RetransmitTimer
<1> HIDE DEF g
<1>4. ASSUME BigSync(g) PROVE RecInv(ToNothing(g))
  <2> DEFINE d == ToNothing(g)
  <2>1. Typed(d)
    BY <1>1, <1>2 DEF Typed, ToNothing
  <2>2. d.sae = "NOTHING" /\ \A x \in Fields \ SaeFields : d[x] = e[x]
    BY <1>2, FieldsAre DEF Typed, ToNothing, SaeFields
  <2> HIDE DEF d
  <2>3. RecInv(d)
    BY <2>1, <2>2, SaeFieldsRec
  <2> QED BY <2>3 DEF d
<1>5. ASSUME ~BigSync(g) PROVE RecInv(s) /\ RecInv(r) /\ s.sae = r.sae
  <2>1. g.sync + 1 \in FieldTypes["sync"]
    BY <1>2, <1>5, Holds, TypesAre, MeshAssumption DEF BigSync
  <2>2. Typed(s) /\ Typed(r)
    BY <1>1, <1>2, <2>1 DEF Typed
  <2>3. ASSUME NEW d \in {s, r}
        PROVE  /\ d.sae = e.sae /\ d.own = e.own /\ d.peer = e.peer /\ d.pmk = e.pmk
               /\ \A x \in Fields \ SaeFields : d[x] = e[x]
    BY <1>2, FieldsAre DEF Typed, SaeFields
  <2> HIDE DEF s, r
  <2>4. ASSUME NEW d \in {s, r} PROVE RecInv(d)
    <3>1. Typed(d)
      BY <2>2
    <3>2. /\ e.known = FALSE => d.sae = "NOTHING"
          /\ d.sae \in {"COMMITTED", "CONFIRMED"} => d.own # 0
          /\ d.sae = "CONFIRMED" => d.peer # 0
          /\ d.sae \in {"CONFIRMED", "ACCEPTED"} => d.pmk # {}
      BY <2>3 DEF RecInv, Keyed
    <3> QED BY <2>3, <3>1, <3>2, SaeFieldsRec
  <2> QED BY <2>3, <2>4
<1> HIDE DEF s, r
<1>6. ASSUME ~BigSync(g), s.sae = "COMMITTED" PROVE RecInv(SendCommit(r))
  BY <1>5, <1>6, SendAuthRec DEF RecInv, Keyed
<1>7. ASSUME ~BigSync(g), s.sae = "CONFIRMED" PROVE RecInv(SendConfirm(r))
  BY <1>5, <1>7, SendAuthRec DEF RecInv, Keyed
<1> QED BY <1>3, <1>4, <1>5, <1>6, <1>7

LEMMA AuthTimerRec ==
  ASSUME NEW e, RecInv(e), e.auth = TRUE, NEW c \in Commits, NEW n \in Nonces
  PROVE  RecInv(AuthTimer(e, c, n))
<1> DEFINE g == [e EXCEPT !.auth = FALSE]
<1>1. e.plink = "IDLE" /\ e.known = TRUE /\ e.sae # "ACCEPTED" /\ e.lid # 0 /\ e.ptm = 0
  BY DEF RecInv, Pending, Keyed, OneTimer
<1>2. Typed(g) /\ \A x \in Fields \ {"auth"} : g[x] = e[x]
  <2>1. FALSE \in FieldTypes["auth"]
    BY TypesAre
  <2> QED BY <2>1 DEF Typed, RecInv
<1>3. g.auth = FALSE
  BY FieldsAre DEF RecInv, Typed
<1>4. AuthTimer(e, c, n) =
        IF g.sae = "ACCEPTED" THEN g
        ELSE IF g.tries < AuthRetry THEN [AuthSae(g, c, n) EXCEPT !.tries = @ + 1]
        ELSE IF g.tries = AuthRetry
          THEN [g EXCEPT !.plink = "BLOCKED", !.sae = "NOTHING", !.tries = @ + 1]
        ELSE FreeSta(g)
  BY DEF AuthTimer
<1> HIDE DEF g
<1>5. /\ g.plink = "IDLE" /\ g.known = TRUE /\ g.sae # "ACCEPTED" /\ g.lid # 0 /\ g.ptm = 0
      /\ Counted(g) /\ (g.aek # {} => g.n # 0) /\ g.tries = e.tries
  BY <1>1, <1>2, FieldsAre DEF RecInv, Counted, Keyed
<1>6. ASSUME g.tries < AuthRetry PROVE RecInv([AuthSae(g, c, n) EXCEPT !.tries = @ + 1])
  <2> DEFINE a == AuthSae(g, c, n)
             d == [a EXCEPT !.tries = @ + 1]
  <2>1. RecInv(a)
    BY <1>2, <1>5, AuthSaeRec, MeshAssumption
  <2>2. a.tries = g.tries
    BY <1>2, FieldsAre DEF AuthSae, AcceptSta, StartAmpe, PlinkOpen, SendAction, SendCommit,
         Send, SaeClear, Typed
  <2> HIDE DEF a
  <2>3. a.tries + 1 \in FieldTypes["tries"]
    BY <1>2, <1>6, <2>2, Holds, TypesAre, MeshAssumption
  <2>4. Typed(d)
    BY <2>1, <2>3 DEF Typed, RecInv
  <2>5. SameLink(a, d) /\ Keyed(d)
    BY <2>1, FieldsAre DEF SameLink, RecInv, Typed, Keyed
  <2> HIDE DEF d
  <2>6. RecInv(d)
    BY <2>1, <2>4, <2>5, SameLinkRec
  <2> QED BY <2>6 DEF d, a
<1>7. ASSUME g.tries = AuthRetry
      PROVE  RecInv([g EXCEPT !.plink = "BLOCKED", !.sae = "NOTHING", !.tries = @ + 1])
  <2> DEFINE d == [g EXCEPT !.plink = "BLOCKED", !.sae = "NOTHING", !.tries = @ + 1]
  <2>1. /\ "BLOCKED" \in FieldTypes["plink"] /\ "NOTHING" \in FieldTypes["sae"]
        /\ g.tries + 1 \in FieldTypes["tries"]
    BY <1>7, TypesAre, MeshAssumption
  <2>2. Typed(d)
    BY <1>2, <2>1 DEF Typed
  <2>3. /\ d.plink = "BLOCKED" /\ d.sae = "NOTHING"
        /\ \A x \in Fields \ {"plink", "sae", "tries"} : d[x] = g[x]
    BY <1>2, FieldsAre DEF Typed
  <2> HIDE DEF d
  <2>4. RecInv(d)
    BY <1>3, <1>5, <2>2, <2>3, FieldsAre
       DEF RecInv, Counted, Timed, Pending, OneTimer, Keyed, Opening
  <2> QED BY <2>4 DEF d
<1>8. RecInv(FreeSta(g))
  BY <1>2, <1>5, FreeStaRec
<1> QED BY <1>4, <1>5, <1>6, <1>7, <1>8

----------------------------------------------------------------------------
(* The handlers of mesh peering management.                                    *)

LEMMA EstabRec ==
  ASSUME NEW e, RecInv(e), e.sae = "ACCEPTED", e.plink \in Opening, e.pn # 0, e.plid # 0
  PROVE  RecInv(Estab(e)) /\ Estab(e).known = TRUE
<1> DEFINE m == <<e.pmk, InOrder(e.n, e.pn), InOrder(e.lid, e.plid)>>
           g == [e EXCEPT !.mtk = m, !.plink = "ESTAB", !.num = @ + 1, !.caching = FALSE, !.ptm = 0]
<1>1. /\ e.known = TRUE /\ e.lid \in Lids /\ e.plid \in Lids /\ e.n \in Nonces /\ e.pn \in Nonces
      /\ e.pmk \in SUBSET Commits /\ e.num \in Nat /\ e.again \in Nat
  BY Holds DEF RecInv, Keyed
<1>2. m \in FieldTypes["mtk"]
  <2>1. InOrder(e.n, e.pn) \in Nonces \X Nonces /\ InOrder(e.lid, e.plid) \in Lids \X Lids
    BY <1>1 DEF InOrder
  <2> QED BY <1>1, <2>1, TypesAre
<1>3. Estab(e) = g
  BY DEF Estab
<1> HIDE DEF m
<1>4. /\ "ESTAB" \in FieldTypes["plink"] /\ e.num + 1 \in FieldTypes["num"]
      /\ FALSE \in FieldTypes["caching"] /\ 0 \in FieldTypes["ptm"]
  BY <1>1, TypesAre
<1>5. Typed(g)
  BY <1>2, <1>4 DEF RecInv, Typed
<1>6. /\ g.plink = "ESTAB" /\ g.num = e.num + 1 /\ g.ptm = 0
      /\ \A x \in Fields \ {"mtk", "plink", "num", "caching", "ptm"} : g[x] = e[x]
  BY FieldsAre DEF RecInv, Typed
<1> HIDE DEF g
<1>7. RecInv(g)
  BY <1>1, <1>5, <1>6, FieldsAre
     DEF RecInv, Counted, Timed, Pending, OneTimer, Keyed, Opening
<1>8. g.known = TRUE
  BY <1>1, <1>6, FieldsAre
<1> QED BY <1>3, <1>7, <1>8

LEMMA FsmRec ==
  ASSUME NEW e, RecInv(e), e.sae = "ACCEPTED",
         NEW ev \in {"OPN_ACPT", "CNF_ACPT", "OPN_RJCT", "CLS_ACPT", "REQ_RJCT"},
         ev \in {"OPN_ACPT", "CNF_ACPT"} => e.pn # 0 /\ e.plid # 0
  PROVE  RecInv(Fsm(e, ev))
<1>1. e.known = TRUE /\ e.plink # "IDLE"
  BY Holds DEF RecInv, Keyed, Pending
<1>2. RecInv(FreeSta(e)) /\ \A k \in {"open", "cnf", "close"} : RecInv(SendAction(e, k))
  BY <1>1, FreeStaRec, SendActionRec DEF RecInv
<1>3. ASSUME e.plink \in Opening \cup {"ESTAB"} PROVE RecInv(Hold(e))
  BY <1>3, HoldRec DEF RecInv
<1>4. ASSUME e.plink = "OPN_SNT", ev = "OPN_ACPT"
      PROVE  RecInv(SendAction([e EXCEPT !.plink = "OPN_RCVD"], "cnf"))
  <2> DEFINE g == [e EXCEPT !.plink = "OPN_RCVD"]
  <2>1. "OPN_RCVD" \in FieldTypes["plink"]
    BY TypesAre DEF Opening
  <2>2. Typed(g)
    BY <2>1 DEF RecInv, Typed
  <2>3. g.plink = "OPN_RCVD" /\ \A x \in Fields \ {"plink"} : g[x] = e[x]
    BY FieldsAre DEF RecInv, Typed
  <2> HIDE DEF g
  <2>4. RecInv(g)
    BY <1>4, <2>2, <2>3, FieldsAre
       DEF RecInv, Counted, Timed, Pending, OneTimer, Keyed, Opening
  <2>5. g.known = TRUE
    BY <1>1, <2>3, FieldsAre
  <2>6. RecInv(SendAction(g, "cnf"))
    BY <2>4, <2>5, SendActionRec
  <2> QED BY <2>6 DEF g
<1>5. ASSUME e.plink = "OPN_SNT" PROVE RecInv([e EXCEPT !.plink = "CNF_RCVD", !.ptm = 1])
  <2> DEFINE g == [e EXCEPT !.plink = "CNF_RCVD", !.ptm = 1]
  <2>1. "CNF_RCVD" \in FieldTypes["plink"] /\ 1 \in FieldTypes["ptm"]
    BY TypesAre DEF Opening
  <2>2. Typed(g)
    BY <2>1 DEF RecInv, Typed
  <2>3. g.plink = "CNF_RCVD" /\ g.ptm = 1 /\ \A x \in Fields \ {"plink", "ptm"} : g[x] = e[x]
    BY FieldsAre DEF RecInv, Typed
  <2> HIDE DEF g
  <2>4. RecInv(g)
    BY <1>5, <2>2, <2>3, FieldsAre
       DEF RecInv, Counted, Timed, Pending, OneTimer, Keyed, Opening
  <2> QED BY <2>4 DEF g
<1>6. ASSUME e.plink \in Opening, ev \in {"OPN_ACPT", "CNF_ACPT"}
      PROVE  RecInv(Estab(e)) /\ RecInv(SendAction(Estab(e), "cnf"))
  BY <1>6, EstabRec, SendActionRec
<1> QED BY <1>1, <1>2, <1>3, <1>4, <1>5, <1>6 DEF Fsm, Opening

\* The frame f has passed mesh_rsn_process_ampe.
LEMMA RxAmpeRec ==
  ASSUME NEW e, RecInv(e), e.sae = "ACCEPTED", NEW f \in GoodFrames, f.k \notin AuthKinds
  PROVE  RecInv(RxAmpe(e, f))
<1> DEFINE g == [e EXCEPT !.pn = f.n]
<1>1. /\ f.k \in {"open", "cnf", "close"} /\ f.lid \in Lids /\ f.n \in Nonces \cup {0}
      /\ f.aek # {} => f.n # 0
  BY DEF GoodFrames, Frames, AuthKinds
<1>2. f.lid # 0
  BY <1>1, MeshAssumption
<1>3. Typed(g)
  <2>1. f.n \in FieldTypes["pn"]
    BY <1>1, TypesAre
  <2> QED BY <2>1 DEF RecInv, Typed
<1>4. g.pn = f.n /\ \A x \in Fields \ {"pn"} : g[x] = e[x]
  BY FieldsAre DEF RecInv, Typed
<1> HIDE DEF g
<1>5. g.sae = "ACCEPTED" /\ SameLink(e, g) /\ Keyed(g) /\ g.aek = e.aek /\ e.aek # {}
  BY <1>4, FieldsAre DEF SameLink, RecInv, Keyed
<1>6. RecInv(g)
  BY <1>3, <1>5, SameLinkRec
<1>7. RecInv(Fsm(g, "REQ_RJCT")) /\ RecInv(Fsm(g, "CLS_ACPT")) /\ RecInv(Fsm(e, "OPN_RJCT"))
  BY <1>5, <1>6, FsmRec
<1>8. ASSUME f.aek = e.aek, NEW ev \in {"OPN_ACPT", "CNF_ACPT"}
      PROVE  RecInv(Fsm([g EXCEPT !.plid = f.lid], ev))
  <2> DEFINE h == [g EXCEPT !.plid = f.lid]
  <2>1. Typed(h)
    <3>1. f.lid \in FieldTypes["plid"]
      BY <1>1, TypesAre
    <3> QED BY <1>3, <3>1 DEF Typed
  <2>2. h.plid = f.lid /\ \A x \in Fields \ {"plid"} : h[x] = g[x]
    BY <1>3, FieldsAre DEF Typed
  <2> HIDE DEF h
  <2>3. h.sae = "ACCEPTED" /\ h.pn = f.n /\ SameLink(g, h) /\ Keyed(h)
    BY <1>4, <1>5, <2>2, FieldsAre DEF SameLink, Keyed
  <2>4. RecInv(h)
    BY <1>6, <2>1, <2>3, SameLinkRec
  <2>5. h.pn # 0 /\ h.plid # 0
    BY <1>1, <1>2, <1>5, <1>8, <2>2, <2>3
  <2>6. RecInv(Fsm(h, ev))
    BY <2>3, <2>4, <2>5, FsmRec
  <2> QED BY <2>6 DEF h
<1>9. ASSUME f.aek = e.aek PROVE RecInv(RxOpen(g, f)) /\ RecInv(RxCnf(g, f)) /\ RecInv(RxClose(g, f))
  BY <1>6, <1>7, <1>8, <1>9 DEF RxOpen, RxCnf, RxClose
<1> QED BY <1>1, <1>7, <1>9 DEF RxAmpe, g

LEMMA AddPeerTyped ==
  ASSUME NEW e, RecInv(e), e.known = FALSE, NEW l \in Lids
  PROVE  LET g == AddPeer(e, l)
         IN /\ Typed(g) /\ Counted(g) /\ g.known = TRUE /\ g.plink = "IDLE" /\ g.lid # 0
            /\ g.ptm = 0 /\ g.aek = {} /\ g.cache = e.cache
<1> DEFINE a == [NoEntry EXCEPT !.known = TRUE]
           b == [a EXCEPT !.lid = l]
           c == [b EXCEPT !.cache = e.cache]
           d == [c EXCEPT !.num = e.num]
           g == [d EXCEPT !.again = e.again]
<1>1. /\ TRUE \in FieldTypes["known"] /\ l \in FieldTypes["lid"] /\ e.cache \in FieldTypes["cache"]
      /\ e.num \in FieldTypes["num"] /\ e.again \in FieldTypes["again"]
  BY Holds, TypesAre DEF RecInv
<1>2. Typed(a) BY <1>1, NoEntryTyped, SetField, FieldsAre
<1>3. Typed(b) BY <1>1, <1>2, SetField, FieldsAre
<1>4. Typed(c) BY <1>1, <1>3, SetField, FieldsAre
<1>5. Typed(d) BY <1>1, <1>4, SetField, FieldsAre
<1>6. Typed(g) BY <1>1, <1>5, SetField, FieldsAre
<1>7. AddPeer(e, l) = g
  BY DEF AddPeer
<1>8. /\ g.known = TRUE /\ g.plink = "IDLE" /\ g.lid = l /\ g.ptm = 0 /\ g.aek = {}
      /\ g.cache = e.cache /\ g.num = e.num /\ g.again = e.again
  BY DEF NoEntry
<1>9. e.num = e.again
  BY Holds DEF RecInv, Counted, Pending
<1> HIDE DEF g
<1> QED BY <1>6, <1>7, <1>8, <1>9, Holds, MeshAssumption DEF Counted

LEMMA RxActionRec ==
  ASSUME NEW e, RecInv(e), NEW f \in GoodFrames, f.k \notin AuthKinds, NEW l \in Lids,
         NEW n \in Nonces
  PROVE  RecInv(RxAction(e, f, l, n))
<1>1. ASSUME e.known = FALSE, e.cache # {}
      PROVE  RecInv(RxAmpe(AuthSae(AddPeer(e, l), 0, n), f))
  <2> DEFINE g == AddPeer(e, l)
             h == AuthSae(g, 0, n)
  <2>1. /\ Typed(g) /\ Counted(g) /\ g.known = TRUE /\ g.plink = "IDLE" /\ g.lid # 0
        /\ g.ptm = 0 /\ g.aek = {} /\ g.cache # {}
    BY <1>1, AddPeerTyped
  <2> HIDE DEF g
  <2>2. RecInv(h)
    BY <2>1, AuthSaeRec
  <2>3. h.sae = "ACCEPTED"
    BY <2>1, FieldsAre DEF AuthSae, AcceptSta, StartAmpe, PlinkOpen, SendAction, Send, Typed
  <2> HIDE DEF h
  <2>4. RecInv(RxAmpe(h, f))
    BY <2>2, <2>3, RxAmpeRec
  <2> QED BY <2>4 DEF h, g
<1>2. e.known \in BOOLEAN
  BY Holds DEF RecInv
<1> QED BY <1>1, <1>2, RxAmpeRec DEF RxAction

LEMMA PlinkTimerRec ==
  ASSUME NEW e, RecInv(e), e.ptm > 0
  PROVE  RecInv(PlinkTimer(e))
<1> DEFINE g == [e EXCEPT !.ptm = @ - 1]
<1>1. /\ e.ptm \in 1 .. 2 /\ e.num \in Nat /\ e.again \in Nat /\ e.retries \in 0 .. MaxRetries
      /\ e.known = TRUE /\ e.plink \in Opening \cup {"HOLDING"}
      /\ e.plink \in Opening => e.ptm = 1
  BY Holds DEF RecInv, Pending, OneTimer, Opening
<1>2. Typed(g)
  <2>1. e.ptm - 1 \in FieldTypes["ptm"]
    BY <1>1, TypesAre
  <2> QED BY <2>1 DEF RecInv, Typed
<1>3. g.ptm = e.ptm - 1 /\ \A x \in Fields \ {"ptm"} : g[x] = e[x]
  BY FieldsAre DEF RecInv, Typed
<1>4. PlinkTimer(e) =
        CASE g.plink \in {"OPN_SNT", "OPN_RCVD"} /\ g.retries < MaxRetries ->
               [SendAction(g, "open") EXCEPT !.ptm = @ + 1, !.retries = @ + 1]
          [] g.plink = "CNF_RCVD" \/ (g.plink \in Opening /\ g.retries >= MaxRetries) -> Hold(g)
          [] g.plink = "HOLDING" -> FreeSta(IF g.caching THEN [g EXCEPT !.cache = {}] ELSE g)
          [] OTHER -> g
  BY DEF PlinkTimer
<1> HIDE DEF g
<1>5. /\ g.plink = e.plink /\ g.retries = e.retries /\ g.num = e.num /\ g.again = e.again
      /\ g.known = TRUE /\ Counted(g) /\ Keyed(g) /\ Pending(g)
  BY <1>1, <1>3, FieldsAre DEF RecInv, Counted, Keyed, Pending
<1>6. ASSUME g.plink \in {"OPN_SNT", "OPN_RCVD"}, g.retries < MaxRetries
      PROVE  RecInv([SendAction(g, "open") EXCEPT !.ptm = @ + 1, !.retries = @ + 1])
  <2> DEFINE h == SendAction(g, "open")
             d == [h EXCEPT !.ptm = @ + 1, !.retries = @ + 1]
  <2>1. Typed(h) /\ \A x \in Fields \ {"out"} : h[x] = g[x]
    BY <1>2, <1>5, SendActionTyped
  <2> HIDE DEF h
  <2>2. h.ptm = e.ptm - 1 /\ h.retries = e.retries /\ e.ptm = 1
    BY <1>1, <1>3, <1>5, <1>6, <2>1, FieldsAre DEF Opening
  <2>3. h.ptm + 1 \in FieldTypes["ptm"] /\ h.retries + 1 \in FieldTypes["retries"]
    <3>1. h.ptm + 1 \in 0 .. 2
      BY <2>2
    <3>2. h.retries + 1 \in 0 .. MaxRetries
      BY <1>1, <1>5, <1>6, <2>2, MeshAssumption
    <3> QED BY <3>1, <3>2, TypesAre
  <2>4. Typed(d)
    BY <2>1, <2>3 DEF Typed
  <2>5. d.ptm = e.ptm /\ \A x \in Fields \ {"ptm", "retries", "out"} : d[x] = e[x]
    <3>1. d.ptm = h.ptm + 1 /\ \A x \in Fields \ {"ptm", "retries"} : d[x] = h[x]
      BY <2>1, FieldsAre DEF Typed
    <3> HIDE DEF d
    <3> QED BY <1>3, <2>1, <2>2, <3>1
  <2> HIDE DEF d
  <2>6. SameLink(e, d) /\ Keyed(d)
    BY <2>5, FieldsAre DEF SameLink, RecInv, Keyed
  <2>7. RecInv(d)
    BY <2>4, <2>6, SameLinkRec
  <2> QED BY <2>7 DEF d, h
<1>7. ASSUME g.plink \in Opening PROVE RecInv(Hold(g))
  BY <1>1, <1>2, <1>3, <1>5, <1>7, HoldRec DEF OneTimer, Opening
<1>8. ASSUME g.plink = "HOLDING"
      PROVE  RecInv(FreeSta(IF g.caching THEN [g EXCEPT !.cache = {}] ELSE g))
  <2> DEFINE d == [g EXCEPT !.cache = {}]
  <2>1. {} \in FieldTypes["cache"]
    BY TypesAre
  <2>2. Typed(d)
    BY <1>2, <2>1 DEF Typed
  <2>3. Counted(d)
    BY <1>2, <1>5, FieldsAre DEF Typed, Counted
  <2> HIDE DEF d
  <2>4. RecInv(FreeSta(d)) /\ RecInv(FreeSta(g))
    BY <1>2, <1>5, <2>2, <2>3, FreeStaRec
  <2> QED BY <2>4 DEF d
<1> QED BY <1>1, <1>4, <1>5, <1>6, <1>7, <1>8, MeshAssumption DEF Opening

LEMMA PlinkCloseRec ==
  ASSUME NEW e, RecInv(e), e.known = TRUE
  PROVE  RecInv(PlinkClose(e))
<1> DEFINE g == [e EXCEPT !.plink = "HOLDING", !.num = PlinkLeft(e)]
           h == SendAction(g, "close")
           d == [h EXCEPT !.ptm = 0, !.auth = FALSE, !.removed = TRUE]
<1>1. e.num \in Nat /\ e.again \in Nat /\ e.sae \in {"NOTHING", "COMMITTED", "CONFIRMED", "ACCEPTED"}
  BY Holds DEF RecInv
<1>2. /\ "HOLDING" \in FieldTypes["plink"] /\ PlinkLeft(e) \in FieldTypes["num"]
      /\ 0 \in FieldTypes["ptm"] /\ FALSE \in FieldTypes["auth"] /\ TRUE \in FieldTypes["removed"]
  BY <1>1, TypesAre DEF PlinkLeft, RecInv, Counted
<1>3. Typed(g)
  BY <1>2 DEF RecInv, Typed
<1>4. /\ g.plink = "HOLDING" /\ g.num = PlinkLeft(e)
      /\ \A x \in Fields \ {"plink", "num"} : g[x] = e[x]
  BY FieldsAre DEF RecInv, Typed
<1> HIDE DEF g
<1>5. Keyed(g) /\ g.known = TRUE
  BY <1>4, FieldsAre DEF RecInv, Keyed
<1>6. Typed(h) /\ \A x \in Fields \ {"out"} : h[x] = g[x]
  BY <1>3, <1>5, SendActionTyped
<1> HIDE DEF h
<1>7. Typed(d)
  BY <1>2, <1>6 DEF Typed
<1>8. /\ d.ptm = 0 /\ d.auth = FALSE /\ d.removed = TRUE
      /\ \A x \in Fields \ {"ptm", "auth", "removed"} : d[x] = h[x]
  BY <1>6, FieldsAre DEF Typed
<1>9. PlinkClose(e) = d
  BY DEF PlinkClose, h, g
<1> HIDE DEF d
<1>10. /\ d.plink = "HOLDING" /\ d.num = PlinkLeft(e)
       /\ \A x \in Fields \ {"ptm", "auth", "removed", "plink", "num", "out"} : d[x] = e[x]
  BY <1>4, <1>6, <1>8, FieldsAre
<1>11. d.known = TRUE /\ d.again = e.again
  BY <1>10, FieldsAre
<1>12. Counted(d) /\ Timed(d) /\ Pending(d) /\ OneTimer(d)
  BY <1>1, <1>8, <1>10, <1>11 DEF RecInv, Counted, Timed, Pending, OneTimer, PlinkLeft, Opening
<1>13. Keyed(d)
  BY <1>10, FieldsAre DEF RecInv, Keyed
<1> QED BY <1>7, <1>9, <1>12, <1>13 DEF RecInv

----------------------------------------------------------------------------
(* The two stations.                                                           *)

Inv == /\ DOMAIN node = Sta /\ node = [s \in Sta |-> node[s]]
       /\ \A s \in Sta : RecInv(node[s]) /\ node[s].out = <<>>
       /\ air \in [Sta -> Seq(GoodFrames)]
       /\ events \in 0 .. MaxEvents

LEMMA OtherIs ==
  ASSUME NEW s \in Sta
  PROVE  Other(s) \in Sta /\ Other(s) # s /\ Sta = {s, Other(s)}
BY StaAssumption DEF Other

LEMMA HandleInv ==
  ASSUME Inv, NEW s \in Sta, NEW e, RecInv(e), NEW taken \in {0, 1},
         taken = 1 => air[s] # <<>>, Handle(s, e, taken), events' \in 0 .. MaxEvents
  PROVE  Inv'
<1> DEFINE g == [e EXCEPT !.out = <<>>]
<1>1. Typed(g)
  <2>1. <<>> \in FieldTypes["out"]
    BY TypesAre
  <2> QED BY <2>1 DEF RecInv, Typed
<1>2. g.out = <<>> /\ \A x \in Fields \ {"out"} : g[x] = e[x]
  BY FieldsAre DEF RecInv, Typed
<1>3. node' = [node EXCEPT ![s] = g]
  BY DEF Handle
<1> HIDE DEF g
<1>4. SameLink(e, g) /\ Keyed(g)
  BY <1>2, FieldsAre DEF SameLink, RecInv, Keyed
<1>5. RecInv(g)
  BY <1>1, <1>4, SameLinkRec
<1>6. e.out \in Seq(GoodFrames)
  BY Holds DEF RecInv
<1>7. SubSeq(air[s], taken + 1, Len(air[s])) \in Seq(GoodFrames)
  BY DEF Inv
<1>8. air[Other(s)] \o e.out \in Seq(GoodFrames)
  BY <1>6, OtherIs DEF Inv
<1>9. air' \in [Sta -> Seq(GoodFrames)]
  BY <1>7, <1>8, OtherIs DEF Inv, Handle
<1>10. node' = [x \in Sta |-> node'[x]] /\ \A x \in Sta : node'[x] = IF x = s THEN g ELSE node[x]
  BY <1>3 DEF Inv
<1> QED BY <1>2, <1>5, <1>9, <1>10 DEF Inv

LEMMA RestartedRec ==
  ASSUME NEW o \in Seq(GoodFrames)
  PROVE  RecInv([NoEntry EXCEPT !.out = o])
<1> DEFINE g == [NoEntry EXCEPT !.out = o]
<1>1. Typed(g)
  BY NoEntryTyped, SetField, FieldsAre, TypesAre
<1> QED BY <1>1 DEF RecInv, Counted, Timed, Pending, OneTimer, Keyed, NoEntry, Opening

LEMMA FreshTyped ==
  FreshCommits \subseteq Commits /\ FreshNonces \subseteq Nonces /\ FreshLids \subseteq Lids
BY DEF FreshCommits, FreshNonces, FreshLids, Fresh

LEMMA ReceivedRec ==
  ASSUME NEW e, RecInv(e), NEW f \in GoodFrames, NEW g \in Received(e, f)
  PROVE  RecInv(g)
<1>1. e.known \in BOOLEAN
  BY Holds DEF RecInv
<1>2. CASE f.k \in AuthKinds /\ (e.known = FALSE \/ e.plink = "BLOCKED")
  BY <1>2 DEF Received
<1>3. CASE f.k \notin AuthKinds
  <2>1. PICK l \in FreshLids, n \in FreshNonces : g = RxAction(e, f, l, n)
    BY <1>3 DEF Received, AuthKinds
  <2> QED BY <1>3, <2>1, FreshTyped, RxActionRec
<1>4. CASE f.k \in AuthKinds /\ e.known = TRUE /\ e.plink # "BLOCKED"
  <2>1. CASE f.k = "commit"
    <3>1. PICK c \in FreshCommits : g = RxCommit(e, f, c)
      BY <1>4, <2>1 DEF Received, AuthKinds
    <3>2. f.c \in Commits
      BY <2>1 DEF GoodFrames, Frames
    <3> QED BY <1>4, <3>1, <3>2, FreshTyped, RxCommitRec
  <2>2. CASE f.k = "confirm"
    <3>1. \/ g = CancelCaching(e)
          \/ \E n \in FreshNonces : g = RxConfirm(e, f, n)
      BY <1>4, <2>2 DEF Received, AuthKinds
    <3> QED BY <1>4, <3>1, FreshTyped, RxConfirmRec, CancelCachingRec
  <2>3. CASE f.k = "reject"
    <3>1. g = CancelCaching(e)
      BY <1>4, <2>3 DEF Received, AuthKinds
    <3> QED BY <3>1, CancelCachingRec
  <2> QED BY <1>4, <2>1, <2>2, <2>3 DEF AuthKinds
<1> QED BY <1>1, <1>2, <1>3, <1>4

LEMMA InvInit == Init => Inv
<1> SUFFICES ASSUME Init PROVE Inv
  OBVIOUS
<1>1. RecInv(NoEntry) /\ NoEntry.out = <<>>
  BY NoEntryTyped DEF RecInv, Counted, Timed, Pending, OneTimer, Keyed, NoEntry, Opening
<1>2. <<>> \in Seq(GoodFrames)
  OBVIOUS
<1> QED BY <1>1, <1>2, StaAssumption DEF Init, Inv

LEMMA InvNext == Inv /\ [Next]_vars => Inv'
<1> SUFFICES ASSUME Inv, [Next]_vars PROVE Inv'
  OBVIOUS
<1>1. CASE UNCHANGED vars
  BY <1>1 DEF Inv, vars
<1>2. ASSUME NEW s \in Sta, NewPeer(s) PROVE Inv'
  <2> DEFINE g(l) == AddPeer(node[s], l)
  <2>1. PICK l \in FreshLids, c \in FreshCommits, n \in FreshNonces :
          Step(s, AuthSae(g(l), c, n))
    BY <1>2 DEF NewPeer
  <2>2. RecInv(node[s]) /\ node[s].known = FALSE
    BY <1>2, Holds DEF Inv, RecInv, NewPeer
  <2>3. l \in Lids /\ c \in Commits /\ n \in Nonces /\ c # 0
    BY FreshTyped, MeshAssumption
  <2>4. /\ Typed(g(l)) /\ Counted(g(l)) /\ g(l).known = TRUE /\ g(l).plink = "IDLE"
        /\ g(l).lid # 0 /\ g(l).ptm = 0 /\ g(l).aek = {}
    BY <2>2, <2>3, AddPeerTyped
  <2> HIDE DEF g
  <2>5. RecInv(AuthSae(g(l), c, n))
    BY <2>3, <2>4, AuthSaeRec
  <2> QED BY <1>2, <2>1, <2>5, HandleInv DEF Step, NewPeer, Inv
<1>3. ASSUME NEW s \in Sta, Receive(s) PROVE Inv'
  <2>1. PICK e \in Received(node[s], Head(air[s])) : Handle(s, e, 1)
    BY <1>3 DEF Receive
  <2>2. air[s] # <<>> /\ Head(air[s]) \in GoodFrames /\ events' = events
    BY <1>3 DEF Receive, Inv
  <2>3. RecInv(e)
    BY <2>2, ReceivedRec DEF Inv
  <2> QED BY <2>1, <2>2, <2>3, HandleInv DEF Inv
<1>4. ASSUME NEW s \in Sta, Lose(s) PROVE Inv'
  <2>1. /\ node' = node /\ air' = [air EXCEPT ![s] = Tail(@)] /\ air[s] # <<>>
        /\ events' \in 0 .. MaxEvents
    BY <1>4, StaAssumption DEF Lose, Inv, Event
  <2>2. air' \in [Sta -> Seq(GoodFrames)]
    BY <2>1 DEF Inv
  <2> QED BY <2>1, <2>2 DEF Inv
<1>5. Race => events' \in 0 .. MaxEvents
  BY StaAssumption DEF Race, Event, Inv
<1>6. ASSUME NEW s \in Sta, Retransmit(s) PROVE Inv'
  <2>1. RecInv(RetransmitTimer(node[s]))
    BY RetransmitTimerRec DEF Inv
  <2> QED BY <1>5, <1>6, <2>1, HandleInv DEF Retransmit, Step
<1>7. ASSUME NEW s \in Sta, AuthTimeout(s) PROVE Inv'
  <2>1. PICK c \in FreshCommits, n \in FreshNonces : Step(s, AuthTimer(node[s], c, n))
    BY <1>7 DEF AuthTimeout
  <2>2. RecInv(node[s]) /\ node[s].auth = TRUE
    BY <1>7, Holds DEF Inv, RecInv, AuthTimeout
  <2>3. RecInv(AuthTimer(node[s], c, n))
    BY <2>2, FreshTyped, AuthTimerRec
  <2> QED BY <1>5, <1>7, <2>1, <2>3, HandleInv DEF AuthTimeout, Step
<1>8. ASSUME NEW s \in Sta, PlinkTimeout(s) PROVE Inv'
  <2>1. RecInv(PlinkTimer(node[s]))
    BY <1>8, PlinkTimerRec DEF Inv, PlinkTimeout
  <2> QED BY <1>5, <1>8, <2>1, HandleInv DEF PlinkTimeout, Step
<1>9. ASSUME NEW s \in Sta, RemovePeer(s) PROVE Inv'
  <2>1. RecInv(node[s]) /\ node[s].known = TRUE /\ events' \in 0 .. MaxEvents
    BY <1>9, Holds, StaAssumption DEF Inv, RecInv, RemovePeer, Event
  <2>2. RecInv(PlinkClose(node[s]))
    BY <2>1, PlinkCloseRec
  <2> QED BY <1>9, <2>1, <2>2, HandleInv DEF RemovePeer, Step
<1>10. ASSUME NEW s \in Sta, Restart(s) PROVE Inv'
  <2>1. RecInv(node[s]) /\ events' \in 0 .. MaxEvents
    BY <1>10, StaAssumption DEF Inv, Restart, Event
  <2>2. CASE node[s].known /\ Step(s, [NoEntry EXCEPT !.out = PlinkClose(node[s]).out])
    <3>1. node[s].known = TRUE
      BY <2>1, <2>2, Holds DEF RecInv
    <3>2. PlinkClose(node[s]).out \in Seq(GoodFrames)
      BY <2>1, <3>1, PlinkCloseRec, Holds DEF RecInv
    <3> QED BY <2>1, <2>2, <3>2, RestartedRec, HandleInv DEF Step
  <2>3. CASE Step(s, NoEntry)
    <3>1. RecInv(NoEntry)
      BY NoEntryTyped DEF RecInv, Counted, Timed, Pending, OneTimer, Keyed, NoEntry, Opening
    <3> QED BY <2>1, <2>3, <3>1, HandleInv DEF Step
  <2> QED BY <1>10, <2>2, <2>3 DEF Restart
<1> QED BY <1>1, <1>2, <1>3, <1>4, <1>6, <1>7, <1>8, <1>9, <1>10 DEF Next

LEMMA InvAlways == Spec => []Inv
BY InvInit, InvNext, PTL DEF Spec

(* Type correctness: the records of the two stations and the frames on their   *)
(* way are what the structures of ieee802_11.c, mesh_mpm.c and mesh_rsn.c hold;*)
(* among others the SAE sync counter, the retry counters and the number of     *)
(* pending plink timers stay within their bounds.                              *)
THEOREM TypeCorrect == Spec => []TypeOK
<1>1. Inv => TypeOK
  <2> SUFFICES ASSUME Inv PROVE TypeOK
    OBVIOUS
  <2>1. \A s \in Sta : node[s] \in Records({<<>>})
    BY SettledRecord DEF Inv, RecInv
  <2>2. node \in [Sta -> Records({<<>>})]
    BY <2>1 DEF Inv
  <2>3. ASSUME NEW s \in Sta PROVE Range(air[s]) \subseteq Frames
    <3>1. \A i \in DOMAIN air[s] : air[s][i] \in GoodFrames
      BY DEF Inv
    <3> QED BY <3>1 DEF GoodFrames, Range
  <2>4. ASSUME NEW f \in Flying PROVE f \in Frames
    <3>1. PICK s \in Sta : f \in Range(air[s])
      BY DEF Flying
    <3> QED BY <2>3, <3>1
  <2> QED BY <2>2, <2>4 DEF TypeOK, Inv
<1> QED BY <1>1, InvAlways, PTL

(* num_plinks counts the established links, plus those that were authenticated *)
(* anew while they were established, on every path through mesh_mpm.c and      *)
(* ieee802_11.c that establishes or ends a link.                               *)
THEOREM LinksCounted == Spec => []PlinkCount
<1>1. Inv => PlinkCount
  BY DEF Inv, RecInv, Counted, PlinkCount, Established
<1> QED BY <1>1, InvAlways, PTL

(* plink_timer or mesh_auth_timer is pending for whatever waits for a frame,   *)
(* unless the user removed the peer (mesh_mpm_plink_close starts no timer).    *)
THEOREM TimersRun == Spec => []WaitsHaveTimer
<1>1. Inv => WaitsHaveTimer
  <2> SUFFICES ASSUME Inv, NEW s \in Sta
               PROVE  /\ (node[s].plink \in Opening \cup {"HOLDING"} /\ ~node[s].removed)
                           => node[s].ptm > 0
                      /\ (node[s].known /\ node[s].plink = "IDLE") => node[s].auth
    BY DEF WaitsHaveTimer
  <2>1. RecInv(node[s]) /\ node[s].known \in BOOLEAN /\ node[s].removed \in BOOLEAN
    BY Holds DEF Inv, RecInv
  <2> QED BY <2>1 DEF RecInv, Timed, Pending
<1> QED BY <1>1, InvAlways, PTL

----------------------------------------------------------------------------
(* What a handler does to the SAE instance.                                    *)

Shaped(e) == Fields \subseteq DOMAIN e /\ \E S : e.out \in Seq(S)

NoConfirm(e) == \A i \in DOMAIN e.out : e.out[i].k # "confirm"

\* Nothing of the SAE instance changes, and no Confirm is sent.
Kept(e, g) ==
  /\ Shaped(g)
  /\ \A x \in {"sae", "own", "peer", "acc", "pmk"} : g[x] = e[x]
  /\ g.auth = TRUE => e.auth = TRUE /\ g.cache \in {e.cache, {}}
  /\ NoConfirm(e) => NoConfirm(g)

\* The entry is freed.
Freed(g) == Shaped(g) /\ g.sae = "NOTHING" /\ g.auth = FALSE /\ NoConfirm(g)

LEMMA KeptTrans ==
  ASSUME NEW e, NEW g, NEW h, Kept(e, g), Kept(g, h)
  PROVE  Kept(e, h)
BY DEF Kept

LEMMA SendKept ==
  ASSUME NEW e, Shaped(e), NEW f, f.k # "confirm"
  PROVE  Kept(e, Send(e, f))
<1>1. PICK S : e.out \in Seq(S)
  BY DEF Shaped
<1> DEFINE o == Append(e.out, f)
<1>2. o \in Seq(S \cup {f})
  BY <1>1
<1>3. ASSUME NoConfirm(e), NEW i \in DOMAIN o PROVE o[i].k # "confirm"
  BY <1>1, <1>3 DEF NoConfirm
<1>4. Send(e, f) = [e EXCEPT !.out = o]
  BY DEF Send
<1> HIDE DEF o
<1> QED BY <1>2, <1>3, <1>4, FieldsAre DEF Kept, Shaped, NoConfirm

LEMMA SendsKeep ==
  ASSUME NEW e, Shaped(e), NEW k \in {"open", "cnf", "close"}
  PROVE  /\ Kept(e, SendAction(e, k)) /\ Shaped(SendAction(e, k))
         /\ Kept(e, Reject(e)) /\ Kept(e, SendCommit(e))
<1>1. Kept(e, SendAction(e, k))
  BY SendKept DEF SendAction
<1>2. Kept(e, Reject(e)) /\ Kept(e, SendCommit(e))
  BY SendKept DEF Reject, SendCommit
<1> QED BY <1>1, <1>2 DEF Kept

LEMMA FreeStaFrees ==
  ASSUME NEW e, Shaped(e), NoConfirm(e)
  PROVE  Freed(FreeSta(e))
BY FieldsAre DEF Freed, Shaped, NoConfirm, FreeSta, NoEntry

LEMMA FsmKeeps ==
  ASSUME NEW e, Shaped(e), NoConfirm(e), NEW ev
  PROVE  Kept(e, Fsm(e, ev)) \/ Freed(Fsm(e, ev))
<1>1. Kept(e, e)
  BY DEF Kept
<1>2. Freed(FreeSta(e)) /\ \A k \in {"open", "cnf", "close"} : Kept(e, SendAction(e, k))
  BY FreeStaFrees, SendsKeep
<1>3. Kept(e, SendAction(PlinkOpen(e, "OPN_RCVD"), "cnf"))
  <2> DEFINE g == SendAction(e, "open")
             h == [g EXCEPT !.plink = "OPN_RCVD", !.ptm = 1]
  <2>1. Kept(e, g)
    BY SendsKeep
  <2> HIDE DEF g
  <2>2. Kept(g, h)
    BY <2>1, FieldsAre DEF Kept, Shaped, NoConfirm
  <2>3. h = PlinkOpen(e, "OPN_RCVD")
    BY DEF PlinkOpen, g
  <2> HIDE DEF h
  <2>4. Kept(h, SendAction(h, "cnf"))
    BY <2>2, SendsKeep DEF Kept
  <2> QED BY <2>1, <2>2, <2>3, <2>4, KeptTrans
<1>4. Kept(e, Hold(e))
  <2> DEFINE g == [e EXCEPT !.plink = "HOLDING", !.num = PlinkLeft(e), !.ptm = @ + 1]
  <2>1. Kept(e, g)
    BY FieldsAre DEF Kept, Shaped, NoConfirm
  <2>2. Hold(e) = SendAction(g, "close")
    BY DEF Hold
  <2> HIDE DEF g
  <2>3. Kept(g, SendAction(g, "close"))
    BY <2>1, SendsKeep DEF Kept
  <2> QED BY <2>1, <2>2, <2>3, KeptTrans
<1>5. Kept(e, SendAction([e EXCEPT !.plink = "OPN_RCVD"], "cnf"))
  <2> DEFINE g == [e EXCEPT !.plink = "OPN_RCVD"]
  <2>1. Kept(e, g)
    BY FieldsAre DEF Kept, Shaped, NoConfirm
  <2> HIDE DEF g
  <2>2. Kept(g, SendAction(g, "cnf"))
    BY <2>1, SendsKeep DEF Kept
  <2>3. Kept(e, SendAction(g, "cnf"))
    BY <2>1, <2>2, KeptTrans
  <2> QED BY <2>3 DEF g
<1>6. Kept(e, [e EXCEPT !.plink = "CNF_RCVD", !.ptm = 1])
  BY FieldsAre DEF Kept, Shaped, NoConfirm
<1>7. Kept(e, Estab(e))
  BY FieldsAre DEF Kept, Shaped, NoConfirm, Estab
<1>8. Kept(e, SendAction(Estab(e), "cnf"))
  <2>1. Kept(Estab(e), SendAction(Estab(e), "cnf"))
    BY <1>7, SendsKeep DEF Kept
  <2> QED BY <1>7, <2>1, KeptTrans
<1> QED BY <1>1, <1>2, <1>3, <1>4, <1>5, <1>6, <1>7, <1>8 DEF Fsm

\* The SAE part of a record: how the PMK came about.
SaeOk(e) ==
  /\ e.sae = "CONFIRMED" => e.pmk = {e.own, e.peer}
  /\ e.sae = "ACCEPTED" => \/ e.own = 0 /\ e.acc = 0
                           \/ e.own # 0 /\ e.acc # 0 /\ e.pmk = {e.own, e.acc}
  /\ e.auth = TRUE => e.cache = {}

\* A Confirm that is sent is about the commits of the instance.
OutOk(g) ==
  \A i \in DOMAIN g.out : g.out[i].k = "confirm" =>
    g.sae = "CONFIRMED" /\ g.out[i].c = g.own /\ g.out[i].p = g.peer

\* The ways in which a handler may change an SAE instance: it is given up, starts
\* with a fresh commit, takes the peer's commit, is left alone, is accepted when a
\* Confirm has been verified, or is replaced by a cached PMKSA.
SaeStep(e, g, C, verified) ==
  /\ OutOk(g) /\ SaeOk(g)
  /\ \/ g.sae = "NOTHING"
     \/ g.sae \in {"COMMITTED", "CONFIRMED"} /\ g.own \in C
     \/ e.sae = "COMMITTED" /\ g.sae = "CONFIRMED" /\ g.own = e.own
     \/ /\ g.sae = e.sae /\ g.own = e.own /\ g.acc = e.acc
        /\ g.sae = "CONFIRMED" => g.peer = e.peer
     \/ e.sae = "CONFIRMED" /\ g.sae = "ACCEPTED" /\ g.own = e.own /\ g.acc = e.peer /\ verified
     \/ g.sae = "ACCEPTED" /\ g.own = 0 /\ g.acc = 0

LEMMA KeptStep ==
  ASSUME NEW e, NEW g, SaeOk(e), NoConfirm(e), Kept(e, g) \/ Freed(g), NEW C, NEW v
  PROVE  SaeStep(e, g, C, v)
BY DEF SaeStep, Kept, Freed, SaeOk, OutOk, NoConfirm

LEMMA AcceptSae ==
  ASSUME NEW e, Shaped(e), NEW n
  PROVE  LET g == AcceptSta(e, n)
         IN /\ Shaped(g) /\ g.sae = "ACCEPTED" /\ g.own = e.own /\ g.acc = e.peer
            /\ g.pmk = e.pmk /\ g.auth = FALSE /\ (NoConfirm(e) => NoConfirm(g))
<1> DEFINE d == [e EXCEPT !.auth = FALSE, !.n = n, !.pn = 0, !.aek = e.pmk,
                          !.again = IF e.plink = "ESTAB" THEN @ + 1 ELSE @]
           h == SendAction(d, "open")
           k == [h EXCEPT !.plink = "OPN_SNT", !.ptm = 1]
           g == [k EXCEPT !.sae = "ACCEPTED", !.acc = e.peer, !.peer = 0, !.cache = e.pmk]
<1>1. AcceptSta(e, n) = g
  BY DEF AcceptSta, StartAmpe, PlinkOpen
<1>2. Kept(e, d) /\ d.auth = FALSE
  BY FieldsAre DEF Kept, Shaped, NoConfirm
<1> HIDE DEF d
<1>3. Kept(d, h) /\ h.auth = FALSE
  BY <1>2, FieldsAre, SendsKeep DEF Kept, SendAction, Send, Shaped
<1> HIDE DEF h
<1>4. Kept(h, k) /\ k.auth = FALSE
  BY <1>3, FieldsAre DEF Kept, Shaped, NoConfirm
<1> HIDE DEF k
<1>5. /\ Shaped(g) /\ g.sae = "ACCEPTED" /\ g.own = k.own /\ g.acc = e.peer /\ g.pmk = k.pmk
      /\ g.auth = FALSE /\ g.out = k.out
  BY <1>4, FieldsAre DEF Kept, Shaped
<1> HIDE DEF g
<1>6. Kept(e, k)
  BY <1>2, <1>3, <1>4, KeptTrans
<1> QED BY <1>1, <1>5, <1>6 DEF Kept, NoConfirm

LEMMA AuthSaeStep ==
  ASSUME NEW e, Shaped(e), NoConfirm(e), e.cache # {} => e.own = 0 /\ e.peer = 0,
         NEW c, NEW n, NEW d, NEW C, e.cache = {} => c \in C, NEW v
  PROVE  SaeStep(d, AuthSae(e, c, n), C, v) /\ Shaped(AuthSae(e, c, n))
         /\ NoConfirm(AuthSae(e, c, n)) /\ (e.cache # {} => AuthSae(e, c, n).sae = "ACCEPTED")
<1>1. CASE e.cache # {}
  <2> DEFINE b == [e EXCEPT !.pmk = e.cache]
             h == AcceptSta(b, n)
             g == [h EXCEPT !.caching = TRUE]
  <2>1. Shaped(b) /\ NoConfirm(b) /\ b.own = 0 /\ b.peer = 0
    BY <1>1, FieldsAre DEF Shaped, NoConfirm
  <2> HIDE DEF b
  <2>2. /\ Shaped(h) /\ h.sae = "ACCEPTED" /\ h.own = 0 /\ h.acc = 0 /\ h.auth = FALSE /\ NoConfirm(h)
    BY <2>1, AcceptSae
  <2> HIDE DEF h
  <2>3. /\ Shaped(g) /\ g.sae = "ACCEPTED" /\ g.own = 0 /\ g.acc = 0 /\ g.auth = FALSE /\ NoConfirm(g)
    BY <2>2, FieldsAre DEF Shaped, NoConfirm
  <2>4. AuthSae(e, c, n) = g
    BY <1>1 DEF AuthSae, h, b
  <2> HIDE DEF g
  <2> QED BY <2>3, <2>4 DEF SaeStep, SaeOk, OutOk, NoConfirm
<1>2. CASE e.cache = {}
  <2> DEFINE g == [SaeClear(e) EXCEPT !.own = c, !.sae = "COMMITTED", !.retr = TRUE,
                                      !.auth = TRUE, !.caching = FALSE]
             k == SendCommit(g)
  <2>1. Shaped(g) /\ g.out = e.out /\ g.sae = "COMMITTED" /\ g.own = c /\ g.cache = {}
    BY <1>2, FieldsAre DEF Shaped, SaeClear
  <2>2. AuthSae(e, c, n) = k
    BY <1>2 DEF AuthSae
  <2> HIDE DEF g
  <2>3. Kept(g, k)
    BY <2>1, SendsKeep
  <2> HIDE DEF k
  <2>4. k.sae = "COMMITTED" /\ k.own = c /\ (k.auth = TRUE => k.cache = {}) /\ NoConfirm(k)
    BY <2>1, <2>3 DEF Kept, NoConfirm
  <2>5. Shaped(k)
    BY <2>3 DEF Kept
  <2> QED BY <1>2, <2>2, <2>4, <2>5 DEF SaeStep, SaeOk, OutOk, NoConfirm
<1> QED BY <1>1, <1>2

LEMMA SendConfirmOut ==
  ASSUME NEW e, Shaped(e), NoConfirm(e), e.sae = "CONFIRMED"
  PROVE  /\ OutOk(SendConfirm(e)) /\ \A x \in Fields \ {"out"} : SendConfirm(e)[x] = e[x]
<1> DEFINE f == [k |-> "confirm", c |-> e.own, p |-> e.peer]
           o == Append(e.out, f)
           g == [e EXCEPT !.out = o]
<1>1. PICK S : e.out \in Seq(S)
  BY DEF Shaped
<1>2. f.c = e.own /\ f.p = e.peer
  OBVIOUS
<1>3. SendConfirm(e) = g
  BY DEF SendConfirm, Send
<1> HIDE DEF f
<1>4. ASSUME NEW i \in DOMAIN o, o[i].k = "confirm" PROVE o[i] = f
  BY <1>1, <1>4 DEF NoConfirm
<1> HIDE DEF o
<1>5. g.out = o /\ \A x \in Fields \ {"out"} : g[x] = e[x]
  BY FieldsAre DEF Shaped
<1>6. g.own = e.own /\ g.peer = e.peer /\ g.sae = "CONFIRMED"
  BY <1>5, FieldsAre
<1> HIDE DEF g
<1> QED BY <1>2, <1>3, <1>4, <1>5, <1>6 DEF OutOk

LEMMA ProcessCommitSae ==
  ASSUME NEW d, Shaped(d), NoConfirm(d), d.sae = "CONFIRMED", d.auth = TRUE => d.cache = {}
  PROVE  LET g == ProcessCommit(d)
         IN OutOk(g) /\ SaeOk(g) /\ g.sae = "CONFIRMED" /\ g.own = d.own
<1> DEFINE h == [d EXCEPT !.pmk = {d.own, d.peer}, !.retr = TRUE]
           g == SendConfirm(h)
<1>1. /\ Shaped(h) /\ NoConfirm(h) /\ h.sae = "CONFIRMED" /\ h.own = d.own /\ h.peer = d.peer
      /\ h.pmk = {h.own, h.peer} /\ h.auth = d.auth /\ h.cache = d.cache
  BY FieldsAre DEF Shaped, NoConfirm
<1>2. ProcessCommit(d) = g
  BY DEF ProcessCommit
<1> HIDE DEF h
<1>3. OutOk(g) /\ \A x \in Fields \ {"out"} : g[x] = h[x]
  BY <1>1, SendConfirmOut
<1> HIDE DEF g
<1> QED BY <1>1, <1>2, <1>3, FieldsAre DEF SaeOk

LEMMA SaeCommitStep ==
  ASSUME NEW e, NEW d, Shaped(d), NoConfirm(d), d.auth = TRUE => d.cache = {},
         d.sae \in {"NOTHING", "COMMITTED", "CONFIRMED", "ACCEPTED"},
         d.sae = "COMMITTED" => e.sae = "COMMITTED" /\ e.own = d.own, NEW c, NEW v
  PROVE  SaeStep(e, SaeCommit(d, c), {c}, v)
<1>1. CASE d.sae = "NOTHING"
  <2> DEFINE h == [d EXCEPT !.own = c]
             k == SendCommit(h)
             b == [k EXCEPT !.sae = "CONFIRMED", !.sync = 0]
  <2>1. Shaped(h) /\ NoConfirm(h) /\ h.own = c /\ h.auth = d.auth /\ h.cache = d.cache
    BY FieldsAre DEF Shaped, NoConfirm
  <2> HIDE DEF h
  <2>2. Kept(h, k)
    BY <2>1, SendsKeep
  <2> HIDE DEF k
  <2>3. /\ Shaped(b) /\ NoConfirm(b) /\ b.own = c /\ b.sae = "CONFIRMED"
        /\ (b.auth = TRUE => b.cache = {})
    BY <2>1, <2>2, FieldsAre DEF Shaped, NoConfirm, Kept
  <2>4. SaeCommit(d, c) = ProcessCommit(b)
    BY <1>1 DEF SaeCommit, k, h
  <2> HIDE DEF b
  <2> QED BY <2>3, <2>4, ProcessCommitSae DEF SaeStep
<1>2. CASE d.sae = "COMMITTED"
  <2> DEFINE b == [d EXCEPT !.sae = "CONFIRMED", !.sync = 0]
  <2>1. /\ Shaped(b) /\ NoConfirm(b) /\ b.own = d.own /\ b.sae = "CONFIRMED"
        /\ (b.auth = TRUE => b.cache = {})
    BY FieldsAre DEF Shaped, NoConfirm
  <2>2. SaeCommit(d, c) = ProcessCommit(b)
    BY <1>2 DEF SaeCommit
  <2> HIDE DEF b
  <2> QED BY <1>2, <2>1, <2>2, ProcessCommitSae DEF SaeStep
<1>3. CASE d.sae = "CONFIRMED" /\ BigSync(d)
  <2> DEFINE b == [ToNothing(d) EXCEPT !.retr = FALSE]
  <2>1. b.sae = "NOTHING" /\ NoConfirm(b) /\ (b.auth = TRUE => b.cache = {})
    BY FieldsAre DEF Shaped, NoConfirm, ToNothing
  <2>2. SaeCommit(d, c) = b
    BY <1>3 DEF SaeCommit
  <2> HIDE DEF b
  <2> QED BY <2>1, <2>2 DEF SaeStep, SaeOk, OutOk, NoConfirm
<1>4. CASE d.sae = "CONFIRMED" /\ ~BigSync(d)
  <2> DEFINE h == [d EXCEPT !.own = c, !.sync = @ + 1]
             k == SendCommit(h)
  <2>1. /\ Shaped(h) /\ NoConfirm(h) /\ h.own = c /\ h.auth = d.auth /\ h.cache = d.cache
        /\ h.sae = "CONFIRMED"
    BY <1>4, FieldsAre DEF Shaped, NoConfirm
  <2> HIDE DEF h
  <2>2. Kept(h, k)
    BY <2>1, SendsKeep
  <2> HIDE DEF k
  <2>3. Shaped(k) /\ NoConfirm(k) /\ k.own = c /\ k.sae = "CONFIRMED" /\ (k.auth = TRUE => k.cache = {})
    BY <2>1, <2>2 DEF Kept
  <2>4. SaeCommit(d, c) = ProcessCommit(k)
    BY <1>4 DEF SaeCommit, k, h
  <2> QED BY <2>3, <2>4, ProcessCommitSae DEF SaeStep
<1>5. CASE d.sae = "ACCEPTED"
  <2> DEFINE b == [d EXCEPT !.cache = {}]
  <2>1. Shaped(b) /\ NoConfirm(b)
    BY FieldsAre DEF Shaped, NoConfirm
  <2>2. SaeCommit(d, c) = FreeSta(b)
    BY <1>5 DEF SaeCommit
  <2> HIDE DEF b
  <2>3. Freed(FreeSta(b))
    BY <2>1, FreeStaFrees
  <2> QED BY <2>2, <2>3 DEF SaeStep, SaeOk, OutOk, NoConfirm, Freed
<1> QED BY <1>1, <1>2, <1>3, <1>4, <1>5

LEMMA CancelCachingKeeps ==
  ASSUME NEW e, Shaped(e)
  PROVE  Kept(e, CancelCaching(e))
BY FieldsAre DEF Kept, Shaped, NoConfirm, CancelCaching

\* The record of a peer before a handler runs.
Ready(e) == RecInv(e) /\ SaeOk(e) /\ e.out = <<>>

LEMMA ReadyShaped ==
  ASSUME NEW e, Ready(e)
  PROVE  Shaped(e) /\ NoConfirm(e) /\ SaeOk(e)
BY Holds DEF Ready, RecInv, Typed, Shaped, NoConfirm

LEMMA RxCommitStep ==
  ASSUME NEW e, Ready(e), NEW f, NEW c, NEW v
  PROVE  SaeStep(e, RxCommit(e, f, c), {c}, v)
<1> DEFINE h == CancelCaching(e)
           b == ParseGroup(h)
           d == [b EXCEPT !.peer = f.c]
<1>1. Kept(e, h) /\ SaeOk(e) /\ NoConfirm(e) /\ e.sae \in {"NOTHING", "COMMITTED", "CONFIRMED", "ACCEPTED"}
  BY CancelCachingKeeps, ReadyShaped, Holds DEF Ready, RecInv
<1> HIDE DEF h
<1>2. /\ Shaped(b) /\ NoConfirm(b) /\ (b.auth = TRUE => b.cache = {})
      /\ b.sae = "NOTHING" \/ Kept(e, b)
  BY <1>1, FieldsAre DEF ParseGroup, SaeClear, Kept, Shaped, NoConfirm, SaeOk
<1>3. b.sae \in {"NOTHING", "COMMITTED", "CONFIRMED", "ACCEPTED"}
      /\ (b.sae = "COMMITTED" => e.sae = "COMMITTED" /\ e.own = b.own)
  BY <1>1, <1>2 DEF Kept
<1> HIDE DEF b
<1>4. CASE b.sae = "ACCEPTED" /\ b.acc = f.c
  <2>1. Kept(e, b)
    BY <1>2, <1>4
  <2>2. Kept(b, Reject(b))
    BY <1>2, SendsKeep
  <2>3. RxCommit(e, f, c) = Reject(b)
    BY <1>4 DEF RxCommit, b, h
  <2>4. Kept(e, Reject(b))
    BY <2>1, <2>2, KeptTrans
  <2> QED BY <1>1, <2>3, <2>4, KeptStep
<1>5. CASE ~(b.sae = "ACCEPTED" /\ b.acc = f.c)
  <2>1. /\ Shaped(d) /\ NoConfirm(d) /\ d.auth = b.auth /\ d.cache = b.cache /\ d.sae = b.sae
        /\ d.own = b.own
    BY <1>2, FieldsAre DEF Shaped, NoConfirm
  <2>2. RxCommit(e, f, c) = SaeCommit(d, c)
    BY <1>5 DEF RxCommit, b, h
  <2> HIDE DEF d
  <2>3. /\ d.auth = TRUE => d.cache = {}
        /\ d.sae \in {"NOTHING", "COMMITTED", "CONFIRMED", "ACCEPTED"}
        /\ d.sae = "COMMITTED" => e.sae = "COMMITTED" /\ e.own = d.own
    BY <1>2, <1>3, <2>1
  <2>4. SaeStep(e, SaeCommit(d, c), {c}, v)
    BY <2>1, <2>3, SaeCommitStep
  <2> QED BY <2>2, <2>4
<1> QED BY <1>4, <1>5

LEMMA RxConfirmStep ==
  ASSUME NEW e, Ready(e), NEW f, NEW n, NEW C
  PROVE  SaeStep(e, RxConfirm(e, f, n), C, e.peer # 0 /\ f.c = e.peer /\ f.p = e.own)
<1> DEFINE g == CancelCaching(e)
           V == e.peer # 0 /\ f.c = e.peer /\ f.p = e.own
           r == RxConfirm(e, f, n)
<1>1. Kept(e, g) /\ SaeOk(e) /\ NoConfirm(e) /\ RecInv(e)
  BY CancelCachingKeeps, ReadyShaped DEF Ready
<1>2. r = CASE g.sae = "NOTHING" -> g
            [] g.sae = "COMMITTED" /\ BigSync(g) -> [ToNothing(g) EXCEPT !.retr = FALSE]
            [] g.sae = "COMMITTED" /\ ~BigSync(g) ->
                 SendCommit([g EXCEPT !.sync = @ + 1, !.retr = TRUE])
            [] g.sae = "CONFIRMED" /\ Verified(g, f) -> AcceptSta([g EXCEPT !.retr = FALSE], n)
            [] OTHER -> Reject(g)
  BY DEF RxConfirm
<1> SUFFICES SaeStep(e, r, C, V)
  OBVIOUS
<1> HIDE DEF g, r, V
<1>3. Kept(e, Reject(g))
  <2>1. Kept(g, Reject(g))
    BY <1>1, SendsKeep DEF Kept
  <2> QED BY <1>1, <2>1, KeptTrans
<1>4. CASE r = g \/ r = Reject(g)
  BY <1>1, <1>3, <1>4, KeptStep
<1>5. CASE r = [ToNothing(g) EXCEPT !.retr = FALSE]
  <2>1. r.sae = "NOTHING" /\ NoConfirm(r) /\ (r.auth = TRUE => r.cache = {})
    BY <1>1, <1>5, FieldsAre DEF Shaped, NoConfirm, ToNothing, Kept, SaeOk
  <2> QED BY <2>1 DEF SaeStep, SaeOk, OutOk, NoConfirm
<1>6. CASE r = SendCommit([g EXCEPT !.sync = @ + 1, !.retr = TRUE])
  <2> DEFINE d == [g EXCEPT !.sync = @ + 1, !.retr = TRUE]
  <2>1. Kept(g, d)
    BY <1>1, FieldsAre DEF Shaped, NoConfirm, Kept
  <2> HIDE DEF d
  <2>2. Kept(d, SendCommit(d))
    BY <2>1, SendsKeep DEF Kept
  <2>3. Kept(e, SendCommit(d))
    BY <1>1, <2>1, <2>2, KeptTrans
  <2>4. r = SendCommit(d)
    BY <1>6 DEF d
  <2> QED BY <1>1, <2>3, <2>4, KeptStep
<1>7. CASE g.sae = "CONFIRMED" /\ Verified(g, f) /\ r = AcceptSta([g EXCEPT !.retr = FALSE], n)
  <2> DEFINE d == [g EXCEPT !.retr = FALSE]
  <2>1. Kept(g, d)
    BY <1>1, FieldsAre DEF Shaped, NoConfirm, Kept
  <2> HIDE DEF d
  <2>2. Kept(e, d)
    BY <1>1, <2>1, KeptTrans
  <2>3. /\ r.sae = "ACCEPTED" /\ r.own = d.own /\ r.acc = d.peer /\ r.pmk = d.pmk
        /\ r.auth = FALSE /\ NoConfirm(r)
    BY <1>1, <1>7, <2>2, AcceptSae DEF Kept, d
  <2>4. d.sae = e.sae /\ d.own = e.own /\ d.peer = e.peer /\ d.pmk = e.pmk /\ e.sae = "CONFIRMED" /\ V
    BY <1>1, <1>7, <2>2 DEF Kept, Verified, V
  <2>5. e.own # 0
    BY <1>1, <2>4 DEF RecInv, Keyed
  <2>6. e.pmk = {e.own, e.peer} /\ e.peer # 0
    BY <1>1, <2>4 DEF SaeOk, RecInv, Keyed
  <2>7. OutOk(r)
    BY <2>3 DEF OutOk, NoConfirm
  <2>8. SaeOk(r)
    BY <2>3, <2>4, <2>5, <2>6 DEF SaeOk
  <2> QED BY <2>3, <2>4, <2>7, <2>8 DEF SaeStep
<1> QED BY <1>2, <1>4, <1>5, <1>6, <1>7

LEMMA RetransmitTimerStep ==
  ASSUME NEW e, Ready(e), NEW C, NEW v
  PROVE  SaeStep(e, RetransmitTimer(e), C, v)
<1> DEFINE g == [e EXCEPT !.retr = FALSE]
           s == [g EXCEPT !.sync = @ + 1]
           r == [s EXCEPT !.retr = TRUE]
           t == RetransmitTimer(e)
<1>1. Shaped(e) /\ NoConfirm(e) /\ SaeOk(e)
  BY ReadyShaped
<1>2. Kept(e, g) /\ Kept(e, s) /\ Kept(e, r)
  BY <1>1, FieldsAre DEF Kept, Shaped, NoConfirm
<1>3. t = IF BigSync(g) THEN ToNothing(g)
          ELSE CASE s.sae = "COMMITTED" -> SendCommit(r)
                 [] s.sae = "CONFIRMED" -> SendConfirm(r)
                 [] OTHER -> s
  BY DEF RetransmitTimer
<1> SUFFICES SaeStep(e, t, C, v)
  OBVIOUS
<1> HIDE DEF g, s, r, t
<1>4. CASE t = ToNothing(g)
  <2>1. t.sae = "NOTHING" /\ NoConfirm(t) /\ (t.auth = TRUE => t.cache = {})
    BY <1>1, <1>2, <1>4, FieldsAre DEF Shaped, NoConfirm, ToNothing, Kept, SaeOk
  <2> QED BY <2>1 DEF SaeStep, SaeOk, OutOk, NoConfirm
<1>5. CASE t = s
  BY <1>1, <1>2, <1>5, KeptStep
<1>6. CASE t = SendCommit(r)
  <2>1. Kept(r, SendCommit(r))
    BY <1>2, SendsKeep DEF Kept
  <2>2. Kept(e, t)
    BY <1>2, <1>6, <2>1, KeptTrans
  <2> QED BY <1>1, <2>2, KeptStep
<1>7. CASE s.sae = "CONFIRMED" /\ t = SendConfirm(r)
  <2>1. r.sae = "CONFIRMED" /\ Shaped(r) /\ NoConfirm(r)
    BY <1>1, <1>2, <1>7 DEF Kept
  <2>2. OutOk(t) /\ \A x \in Fields \ {"out"} : t[x] = r[x]
    BY <1>7, <2>1, SendConfirmOut
  <2>3. /\ t.sae = e.sae /\ t.own = e.own /\ t.acc = e.acc /\ t.peer = e.peer /\ t.pmk = e.pmk
        /\ t.auth = TRUE => t.cache = {}
    BY <1>1, <1>2, <2>2, FieldsAre DEF Kept, SaeOk
  <2>4. SaeOk(t)
    BY <1>1, <2>3 DEF SaeOk
  <2> QED BY <2>2, <2>3, <2>4 DEF SaeStep
<1> QED BY <1>3, <1>4, <1>5, <1>6, <1>7

LEMMA AuthTimerStep ==
  ASSUME NEW e, Ready(e), e.auth = TRUE, NEW c, NEW n, NEW v
  PROVE  SaeStep(e, AuthTimer(e, c, n), {c}, v)
<1> DEFINE g == [e EXCEPT !.auth = FALSE]
           t == AuthTimer(e, c, n)
<1>1. Shaped(e) /\ NoConfirm(e) /\ SaeOk(e) /\ e.cache = {}
  BY ReadyShaped DEF SaeOk
<1>2. Kept(e, g) /\ g.auth = FALSE /\ g.cache = {}
  BY <1>1, FieldsAre DEF Kept, Shaped, NoConfirm
<1>3. t = IF g.sae = "ACCEPTED" THEN g
          ELSE IF g.tries < AuthRetry THEN [AuthSae(g, c, n) EXCEPT !.tries = @ + 1]
          ELSE IF g.tries = AuthRetry
            THEN [g EXCEPT !.plink = "BLOCKED", !.sae = "NOTHING", !.tries = @ + 1]
          ELSE FreeSta(g)
  BY DEF AuthTimer
<1> SUFFICES SaeStep(e, t, {c}, v)
  OBVIOUS
<1> HIDE DEF g, t
<1>4. CASE t = g
  BY <1>1, <1>2, <1>4, KeptStep
<1>5. CASE t = [AuthSae(g, c, n) EXCEPT !.tries = @ + 1]
  <2> DEFINE a == AuthSae(g, c, n)
  <2>1. SaeStep(e, a, {c}, v) /\ Shaped(a)
    BY <1>1, <1>2, AuthSaeStep DEF Kept
  <2>2. t = [a EXCEPT !.tries = @ + 1]
    BY <1>5
  <2> HIDE DEF a
  <2>3. \A x \in {"sae", "own", "peer", "acc", "pmk", "auth", "cache", "out"} : t[x] = a[x]
    BY <2>1, <2>2, FieldsAre DEF Shaped
  <2>4. /\ t.sae = a.sae /\ t.own = a.own /\ t.peer = a.peer /\ t.acc = a.acc /\ t.pmk = a.pmk
        /\ t.auth = a.auth /\ t.cache = a.cache /\ t.out = a.out
    BY <2>3
  <2>5. OutOk(t) /\ SaeOk(t)
    BY <2>1, <2>4 DEF SaeStep, SaeOk, OutOk
  <2> QED BY <2>1, <2>4, <2>5 DEF SaeStep
<1>6. CASE t = [g EXCEPT !.plink = "BLOCKED", !.sae = "NOTHING", !.tries = @ + 1]
  <2>1. t.sae = "NOTHING" /\ t.auth = FALSE /\ NoConfirm(t)
    BY <1>1, <1>2, <1>6, FieldsAre DEF Kept, Shaped, NoConfirm
  <2> QED BY <2>1 DEF SaeStep, SaeOk, OutOk, NoConfirm
<1>7. CASE t = FreeSta(g)
  <2>1. Freed(t)
    BY <1>1, <1>2, <1>7, FreeStaFrees DEF Kept
  <2> QED BY <1>1, <2>1, KeptStep
<1> QED BY <1>3, <1>4, <1>5, <1>6, <1>7

LEMMA RxAmpeKeeps ==
  ASSUME NEW e, Shaped(e), NoConfirm(e), NEW f, f.k \in {"open", "cnf", "close"}
  PROVE  Kept(e, RxAmpe(e, f)) \/ Freed(RxAmpe(e, f))
<1> DEFINE g == [e EXCEPT !.pn = f.n]
           h == [g EXCEPT !.plid = f.lid]
<1>1. Kept(e, e) /\ Kept(e, g) /\ Kept(e, h)
  BY FieldsAre DEF Kept, Shaped, NoConfirm
<1>2. RxAmpe(e, f) \in {e, g, Fsm(e, "OPN_RJCT")}
        \cup {Fsm(g, ev) : ev \in {"REQ_RJCT", "CLS_ACPT"}}
        \cup {Fsm(h, ev) : ev \in {"OPN_ACPT", "CNF_ACPT"}}
  BY DEF RxAmpe, RxOpen, RxCnf, RxClose
<1> HIDE DEF g, h
<1>3. ASSUME NEW b, Kept(e, b), NEW ev PROVE Kept(e, Fsm(b, ev)) \/ Freed(Fsm(b, ev))
  <2>1. Kept(b, Fsm(b, ev)) \/ Freed(Fsm(b, ev))
    BY <1>3, FsmKeeps DEF Kept
  <2> QED BY <1>3, <2>1, KeptTrans
<1> QED BY <1>1, <1>2, <1>3

IsAction(f) == f.k \in {"open", "cnf", "close"}

LEMMA RxActionStep ==
  ASSUME NEW e, Ready(e), NEW f, IsAction(f), NEW l, NEW n, NEW C, NEW v
  PROVE  SaeStep(e, RxAction(e, f, l, n), C, v)
<1>1. Shaped(e) /\ NoConfirm(e) /\ SaeOk(e) /\ Kept(e, e)
  BY ReadyShaped DEF Kept
<1>2. CASE RxAction(e, f, l, n) \in {e, RxAmpe(e, f)}
  BY <1>1, <1>2, RxAmpeKeeps, KeptStep DEF IsAction
<1>3. CASE e.cache # {} /\ RxAction(e, f, l, n) = RxAmpe(AuthSae(AddPeer(e, l), 0, n), f)
  <2> DEFINE b == AddPeer(e, l)
             h == AuthSae(b, 0, n)
             t == RxAmpe(h, f)
  <2>1. Shaped(b) /\ NoConfirm(b) /\ b.own = 0 /\ b.peer = 0 /\ b.cache = e.cache
    BY FieldsAre DEF AddPeer, NoEntry, Shaped, NoConfirm
  <2> HIDE DEF b
  <2>2. SaeStep(h, h, C, v) /\ Shaped(h) /\ NoConfirm(h) /\ h.sae = "ACCEPTED"
    BY <1>3, <2>1, AuthSaeStep
  <2>3. SaeOk(h)
    BY <2>2 DEF SaeStep
  <2>4. h.own = 0 /\ h.acc = 0
    BY <1>3, <2>1, AcceptSae, FieldsAre DEF AuthSae, Shaped, b
  <2> HIDE DEF h
  <2>5. Kept(h, t) \/ Freed(t)
    BY <2>2, RxAmpeKeeps DEF IsAction
  <2>6. SaeStep(h, t, C, v)
    BY <2>2, <2>3, <2>5, KeptStep
  <2>7. t.sae = "NOTHING" \/ (t.sae = "ACCEPTED" /\ t.own = 0 /\ t.acc = 0)
    BY <2>2, <2>4, <2>5 DEF Kept, Freed
  <2>8. RxAction(e, f, l, n) = t
    BY <1>3 DEF t, h, b
  <2> HIDE DEF t
  <2> QED BY <2>6, <2>7, <2>8 DEF SaeStep
<1> QED BY <1>2, <1>3 DEF RxAction

LEMMA PlinkTimerStep ==
  ASSUME NEW e, Ready(e), NEW C, NEW v
  PROVE  SaeStep(e, PlinkTimer(e), C, v)
<1> DEFINE g == [e EXCEPT !.ptm = @ - 1]
           t == PlinkTimer(e)
<1>1. Shaped(e) /\ NoConfirm(e) /\ SaeOk(e)
  BY ReadyShaped
<1>2. Kept(e, g)
  BY <1>1, FieldsAre DEF Kept, Shaped, NoConfirm
<1>3. t = CASE g.plink \in {"OPN_SNT", "OPN_RCVD"} /\ g.retries < MaxRetries ->
                 [SendAction(g, "open") EXCEPT !.ptm = @ + 1, !.retries = @ + 1]
            [] g.plink = "CNF_RCVD" \/ (g.plink \in Opening /\ g.retries >= MaxRetries) -> Hold(g)
            [] g.plink = "HOLDING" -> FreeSta(IF g.caching THEN [g EXCEPT !.cache = {}] ELSE g)
            [] OTHER -> g
  BY DEF PlinkTimer
<1> SUFFICES Kept(e, t) \/ Freed(t)
  BY <1>1, KeptStep
<1> HIDE DEF g, t
<1>4. CASE t = [SendAction(g, "open") EXCEPT !.ptm = @ + 1, !.retries = @ + 1]
  <2> DEFINE h == SendAction(g, "open")
  <2>1. Kept(g, h)
    BY <1>2, SendsKeep DEF Kept
  <2>2. t = [h EXCEPT !.ptm = @ + 1, !.retries = @ + 1]
    BY <1>4
  <2> HIDE DEF h
  <2>3. Kept(h, t)
    BY <2>1, <2>2, FieldsAre DEF Kept, Shaped, NoConfirm
  <2> QED BY <1>2, <2>1, <2>3, KeptTrans
<1>5. CASE t = Hold(g)
  <2>1. Kept(g, Hold(g))
    <3> DEFINE h == [g EXCEPT !.plink = "HOLDING", !.num = PlinkLeft(g), !.ptm = @ + 1]
    <3>1. Kept(g, h)
      BY <1>2, FieldsAre DEF Kept, Shaped, NoConfirm
    <3>2. Hold(g) = SendAction(h, "close")
      BY DEF Hold
    <3> HIDE DEF h
    <3>3. Kept(h, SendAction(h, "close"))
      BY <3>1, SendsKeep DEF Kept
    <3> QED BY <3>1, <3>2, <3>3, KeptTrans
  <2> QED BY <1>2, <1>5, <2>1, KeptTrans
<1>6. CASE t \in {FreeSta(g), FreeSta([g EXCEPT !.cache = {}])}
  <2>1. Shaped(g) /\ NoConfirm(g)
    BY <1>1, <1>2 DEF Kept
  <2>2. Shaped([g EXCEPT !.cache = {}]) /\ NoConfirm([g EXCEPT !.cache = {}])
    BY <2>1, FieldsAre DEF Shaped, NoConfirm
  <2> QED BY <1>6, <2>1, <2>2, FreeStaFrees
<1> QED BY <1>2, <1>3, <1>4, <1>5, <1>6

LEMMA PlinkCloseStep ==
  ASSUME NEW e, Ready(e), NEW C, NEW v
  PROVE  SaeStep(e, PlinkClose(e), C, v) /\ NoConfirm(PlinkClose(e))
<1> DEFINE g == [e EXCEPT !.plink = "HOLDING", !.num = PlinkLeft(e)]
           h == SendAction(g, "close")
           d == [h EXCEPT !.ptm = 0, !.auth = FALSE, !.removed = TRUE]
<1>1. Shaped(e) /\ NoConfirm(e) /\ SaeOk(e)
  BY ReadyShaped
<1>2. Kept(e, g)
  BY <1>1, FieldsAre DEF Kept, Shaped, NoConfirm
<1> HIDE DEF g
<1>3. Kept(g, h)
  BY <1>2, SendsKeep DEF Kept
<1> HIDE DEF h
<1>4. Kept(h, d)
  BY <1>3, FieldsAre DEF Kept, Shaped, NoConfirm
<1>5. PlinkClose(e) = d
  BY DEF PlinkClose, h, g
<1> HIDE DEF d
<1>6. Kept(e, d)
  BY <1>2, <1>3, <1>4, KeptTrans
<1> QED BY <1>1, <1>5, <1>6, KeptStep DEF Kept

----------------------------------------------------------------------------
(* The two SAE instances.                                                      *)

Partner(e) == IF e.sae = "ACCEPTED" THEN e.acc ELSE e.peer

\* That commit c was confirmed for the peer's commit p does not contradict the
\* instance e, if c is its commit.
Agrees(e, c, p) == c = e.own /\ e.sae # "NOTHING" => e.sae # "COMMITTED" /\ p = Partner(e)

\* What s is about to learn from the Confirms on their way, and what it has
\* accepted, agrees with the other station's instance.
ConfirmsAgree(s) ==
  \A i \in DOMAIN air[s] : air[s][i].k = "confirm" =>
    Agrees(node[Other(s)], air[s][i].c, air[s][i].p)
AcceptedAgrees(s) ==
  node[s].sae = "ACCEPTED" /\ node[s].acc # 0 => Agrees(node[Other(s)], node[s].acc, node[s].own)

SaeInv == /\ Inv
          /\ \A s \in Sta : SaeOk(node[s]) /\ ConfirmsAgree(s) /\ AcceptedAgrees(s)

LEMMA ConfirmHasCommit ==
  ASSUME NEW f \in Frames, f.k = "confirm"
  PROVE  f.c # 0
BY MeshAssumption DEF Frames

LEMMA FreshUnused ==
  ASSUME NEW c \in FreshCommits
  PROVE  /\ c \in Commits
         /\ \A s \in Sta : node[s].acc # c
         /\ \A s \in Sta : \A i \in DOMAIN air[s] : air[s][i].k = "confirm" => air[s][i].c # c
<1> DEFINE U == Used(NodeCommits, FrameCommits)
<1>1. c \in Commits /\ c \notin U
  BY DEF FreshCommits, Fresh
<1>2. ASSUME NEW s \in Sta PROVE node[s].acc \in U
  BY DEF Used, NodeCommits
<1>3. ASSUME NEW s \in Sta, NEW i \in DOMAIN air[s], air[s][i].k = "confirm"
      PROVE  air[s][i].c \in U
  <2>1. air[s][i] \in Flying
    BY DEF Flying, Range
  <2>2. air[s][i].c \in FrameCommits(air[s][i])
    BY <1>3 DEF FrameCommits
  <2> QED BY <2>1, <2>2 DEF Used
<1> QED BY <1>1, <1>2, <1>3

LEMMA StepAgrees ==
  ASSUME NEW e, NEW g, NEW C, NEW v, SaeStep(e, g, C, v), NEW c, NEW p, Agrees(e, c, p),
         c \notin C, c # 0, g.sae \in {"NOTHING", "COMMITTED", "CONFIRMED", "ACCEPTED"}
  PROVE  Agrees(g, c, p)
<1> SUFFICES ASSUME c = g.own, g.sae # "NOTHING" PROVE g.sae # "COMMITTED" /\ p = Partner(g)
  BY DEF Agrees
<1>1. \/ e.sae = "COMMITTED" /\ g.own = e.own
      \/ /\ g.sae = e.sae /\ g.own = e.own /\ g.acc = e.acc
         /\ g.sae = "CONFIRMED" => g.peer = e.peer
      \/ e.sae = "CONFIRMED" /\ g.sae = "ACCEPTED" /\ g.own = e.own /\ g.acc = e.peer
  BY DEF SaeStep
<1>2. CASE e.sae = "COMMITTED" /\ g.own = e.own
  BY <1>2 DEF Agrees
<1>3. CASE g.sae = e.sae /\ g.own = e.own /\ g.acc = e.acc /\ (g.sae = "CONFIRMED" => g.peer = e.peer)
  BY <1>3 DEF Agrees, Partner
<1>4. CASE e.sae = "CONFIRMED" /\ g.sae = "ACCEPTED" /\ g.own = e.own /\ g.acc = e.peer
  BY <1>4 DEF Agrees, Partner
<1> QED BY <1>1, <1>2, <1>3, <1>4

LEMMA ConcatFrom ==
  ASSUME NEW S, NEW a \in Seq(S), NEW b \in Seq(S), NEW i \in DOMAIN (a \o b)
  PROVE  \/ i \in DOMAIN a /\ (a \o b)[i] = a[i]
         \/ \E j \in DOMAIN b : (a \o b)[i] = b[j]
<1>1. Len(a) \in Nat /\ Len(b) \in Nat /\ i \in 1 .. Len(a) + Len(b)
  OBVIOUS
<1>2. CASE i <= Len(a)
  BY <1>1, <1>2
<1>3. CASE i > Len(a)
  <2>1. i - Len(a) \in 1 .. Len(b) /\ (a \o b)[i] = b[i - Len(a)]
    BY <1>1, <1>3
  <2> QED BY <2>1
<1> QED BY <1>1, <1>2, <1>3

LEMMA HandleSae ==
  ASSUME SaeInv, NEW s \in Sta, NEW g, NEW v \in BOOLEAN, SaeStep(node[s], g, FreshCommits, v),
         v => \E i \in DOMAIN air[s] : /\ air[s][i].k = "confirm" /\ air[s][i].c = node[s].peer
                                       /\ air[s][i].p = node[s].own,
         NEW taken \in {0, 1}, taken = 1 => air[s] # <<>>, Handle(s, g, taken),
         Typed(g), Inv'
  PROVE  SaeInv'
<1> DEFINE h == [g EXCEPT !.out = <<>>]
           t == Other(s)
<1>1. t \in Sta /\ t # s /\ Sta = {s, t} /\ Other(t) = s
  <2>1. t \in Sta /\ t # s /\ Sta = {s, t}
    BY OtherIs
  <2> QED BY <2>1, OtherIs
<1>2. node' = [node EXCEPT ![s] = h]
  BY DEF Handle
<1>3. \A x \in Fields \ {"out"} : h[x] = g[x]
  BY DEF Typed
<1> HIDE DEF h
<1>4. /\ h.sae = g.sae /\ h.own = g.own /\ h.peer = g.peer /\ h.acc = g.acc /\ h.pmk = g.pmk
      /\ h.auth = g.auth /\ h.cache = g.cache
  BY <1>3, FieldsAre
<1>5. node'[s] = h /\ node'[t] = node[t]
  BY <1>1, <1>2 DEF SaeInv, Inv
<1>6. /\ air'[s] = SubSeq(air[s], taken + 1, Len(air[s]))
      /\ air'[t] = air[t] \o g.out
  BY <1>1 DEF Handle, SaeInv, Inv
<1>7. air[s] \in Seq(GoodFrames) /\ air[t] \in Seq(GoodFrames) /\ g.out \in Seq(GoodFrames)
  BY <1>1, Holds DEF SaeInv, Inv
<1>0. g.sae \in {"NOTHING", "COMMITTED", "CONFIRMED", "ACCEPTED"}
  BY Holds
<1>8. ASSUME NEW c, NEW p, Agrees(g, c, p) PROVE Agrees(h, c, p)
  BY <1>4, <1>8 DEF Agrees, Partner
<1>9. SaeOk(node'[s]) /\ SaeOk(node'[t])
  BY <1>1, <1>4, <1>5 DEF SaeStep, SaeOk, SaeInv
<1>10. ConfirmsAgree(s)'
  <2> SUFFICES ASSUME NEW i \in DOMAIN air'[s], air'[s][i].k = "confirm"
               PROVE  Agrees(node[t], air'[s][i].c, air'[s][i].p)
    BY <1>1, <1>5 DEF ConfirmsAgree
  <2>1. i + taken \in DOMAIN air[s] /\ air'[s][i] = air[s][i + taken]
    BY <1>6, <1>7
  <2> QED BY <2>1 DEF SaeInv, ConfirmsAgree
<1>11. AcceptedAgrees(s)'
  <2> SUFFICES ASSUME g.sae = "ACCEPTED", g.acc # 0 PROVE Agrees(node[t], g.acc, g.own)
    BY <1>1, <1>4, <1>5 DEF AcceptedAgrees
  <2>1. CASE node[s].sae = "ACCEPTED" /\ g.own = node[s].own /\ g.acc = node[s].acc
    BY <2>1 DEF SaeInv, AcceptedAgrees
  <2>2. CASE v /\ g.own = node[s].own /\ g.acc = node[s].peer
    <3>1. PICK i \in DOMAIN air[s] : /\ air[s][i].k = "confirm" /\ air[s][i].c = node[s].peer
                                     /\ air[s][i].p = node[s].own
      BY <2>2
    <3> QED BY <2>2, <3>1 DEF SaeInv, ConfirmsAgree
  <2> QED BY <2>1, <2>2 DEF SaeStep
<1>12. ConfirmsAgree(t)'
  <2> SUFFICES ASSUME NEW i \in DOMAIN air'[t], air'[t][i].k = "confirm"
               PROVE  Agrees(h, air'[t][i].c, air'[t][i].p)
    BY <1>1, <1>5 DEF ConfirmsAgree
  <2>1. CASE i \in DOMAIN air[t] /\ air'[t][i] = air[t][i]
    <3>1. Agrees(node[s], air[t][i].c, air[t][i].p)
      BY <1>1, <2>1 DEF SaeInv, ConfirmsAgree
    <3>2. air[t][i].c \notin FreshCommits
      BY <1>1, <2>1, FreshUnused
    <3>3. air[t][i].c # 0
      <4>1. air[t][i] \in Frames
        BY <1>7, <2>1 DEF GoodFrames
      <4>2. air[t][i].k = "confirm"
        BY <2>1
      <4> QED BY ONLY <4>1, <4>2, ConfirmHasCommit
    <3>4. Agrees(g, air[t][i].c, air[t][i].p)
      BY <1>0, <3>1, <3>2, <3>3, StepAgrees
    <3> QED BY <1>8, <2>1, <3>4
  <2>2. CASE \E j \in DOMAIN g.out : air'[t][i] = g.out[j]
    <3>1. g.sae = "CONFIRMED" /\ air'[t][i].c = g.own /\ air'[t][i].p = g.peer
      BY <2>2 DEF SaeStep, OutOk
    <3> QED BY <1>4, <3>1 DEF Agrees, Partner
  <2>3. \/ i \in DOMAIN air[t] /\ air'[t][i] = air[t][i]
        \/ \E j \in DOMAIN g.out : air'[t][i] = g.out[j]
    <3>1. i \in DOMAIN (air[t] \o g.out)
      BY <1>6
    <3>2. \/ i \in DOMAIN air[t] /\ (air[t] \o g.out)[i] = air[t][i]
          \/ \E j \in DOMAIN g.out : (air[t] \o g.out)[i] = g.out[j]
      <4> DEFINE a == air[t]
                 b == g.out
      <4>1. a \in Seq(GoodFrames) /\ b \in Seq(GoodFrames) /\ i \in DOMAIN (a \o b)
        BY <1>7, <3>1
      <4> HIDE DEF a, b
      <4>2. \/ i \in DOMAIN a /\ (a \o b)[i] = a[i]
            \/ \E j \in DOMAIN b : (a \o b)[i] = b[j]
        BY <4>1, ConcatFrom
      <4> QED BY <4>2 DEF a, b
    <3> QED BY <1>6, <3>2
  <2> QED BY <2>1, <2>2, <2>3
<1>13. AcceptedAgrees(t)'
  <2> SUFFICES ASSUME node[t].sae = "ACCEPTED", node[t].acc # 0
               PROVE  Agrees(h, node[t].acc, node[t].own)
    BY <1>1, <1>5 DEF AcceptedAgrees
  <2>1. Agrees(node[s], node[t].acc, node[t].own)
    BY <1>1 DEF SaeInv, AcceptedAgrees
  <2>2. node[t].acc \notin FreshCommits
    BY <1>1, FreshUnused
  <2> QED BY <1>0, <1>8, <2>1, <2>2, StepAgrees
<1> QED BY <1>1, <1>9, <1>10, <1>11, <1>12, <1>13 DEF SaeInv

LEMMA SaeInit == Init => SaeInv
<1> SUFFICES ASSUME Init PROVE SaeInv
  OBVIOUS
<1>1. \A s \in Sta : node[s] = NoEntry /\ air[s] = <<>>
  BY DEF Init
<1>2. NoEntry.sae = "NOTHING" /\ NoEntry.auth = FALSE
  BY DEF NoEntry
<1> QED BY <1>1, <1>2, InvInit DEF SaeInv, SaeOk, ConfirmsAgree, AcceptedAgrees

LEMMA FreshStep ==
  ASSUME NEW e, NEW g, NEW C, NEW c \in C, NEW v, SaeStep(e, g, {c}, v)
  PROVE  SaeStep(e, g, C, v)
BY DEF SaeStep

LEMMA ReceivedSae ==
  ASSUME SaeInv, NEW s \in Sta, air[s] # <<>>, NEW g \in Received(node[s], Head(air[s]))
  PROVE  \E v \in BOOLEAN :
           /\ SaeStep(node[s], g, FreshCommits, v)
           /\ v => \E i \in DOMAIN air[s] : /\ air[s][i].k = "confirm" /\ air[s][i].c = node[s].peer
                                            /\ air[s][i].p = node[s].own
<1> DEFINE e == node[s]
           f == Head(air[s])
           V == f.k = "confirm" /\ e.peer # 0 /\ f.c = e.peer /\ f.p = e.own
<1>1. Ready(e) /\ f \in GoodFrames /\ f = air[s][1] /\ 1 \in DOMAIN air[s]
  BY DEF SaeInv, Inv, Ready
<1>2. SaeOk(e) /\ NoConfirm(e) /\ Kept(e, e) /\ Kept(e, CancelCaching(e))
  BY <1>1, ReadyShaped, CancelCachingKeeps DEF Kept
<1>3. f.k \in {"open", "cnf", "close"} \cup AuthKinds
  BY <1>1 DEF GoodFrames, Frames, AuthKinds
<1> HIDE DEF e, f
<1>4. CASE g \in {e, CancelCaching(e)}
  <2>1. SaeStep(e, g, FreshCommits, FALSE)
    BY <1>2, <1>4, KeptStep
  <2> QED BY <2>1 DEF e
<1>5. CASE f.k \notin AuthKinds /\ \E l \in FreshLids, n \in FreshNonces : g = RxAction(e, f, l, n)
  <2>1. PICK l \in FreshLids, n \in FreshNonces : g = RxAction(e, f, l, n)
    BY <1>5
  <2>2. IsAction(f)
    BY <1>3, <1>5 DEF IsAction
  <2>5. Ready(e)
    BY <1>1
  <2>4. SaeStep(e, RxAction(e, f, l, n), FreshCommits, FALSE)
    BY <2>2, <2>5, RxActionStep
  <2>3. SaeStep(e, g, FreshCommits, FALSE)
    BY <2>1, <2>4
  <2> QED BY <2>3 DEF e
<1>6. CASE \E c \in FreshCommits : g = RxCommit(e, f, c)
  <2>1. SaeStep(e, g, FreshCommits, FALSE)
    BY <1>1, <1>6, RxCommitStep, FreshStep
  <2> QED BY <2>1 DEF e
<1>7. CASE f.k = "confirm" /\ \E n \in FreshNonces : g = RxConfirm(e, f, n)
  <2>1. SaeStep(e, g, FreshCommits, e.peer # 0 /\ f.c = e.peer /\ f.p = e.own)
    BY <1>1, <1>7, RxConfirmStep
  <2>2. SaeStep(e, g, FreshCommits, V)
    BY <1>7, <2>1 DEF SaeStep
  <2>3. V \in BOOLEAN /\ (V => air[s][1].k = "confirm" /\ air[s][1].c = e.peer /\ air[s][1].p = e.own)
    BY <1>1
  <2> QED BY <1>1, <2>2, <2>3 DEF e
<1>8. g \in Received(e, f)
  BY DEF e, f
<1> QED BY <1>3, <1>4, <1>5, <1>6, <1>7, <1>8 DEF Received, AuthKinds

LEMMA SaeNext == SaeInv /\ [Next]_vars => SaeInv'
<1> SUFFICES ASSUME SaeInv, [Next]_vars PROVE SaeInv'
  OBVIOUS
<1>0. Inv /\ Inv'
  BY InvNext DEF SaeInv
<1>1. CASE UNCHANGED vars
  BY <1>0, <1>1 DEF SaeInv, vars, ConfirmsAgree, AcceptedAgrees
<1>a. ASSUME NEW s \in Sta PROVE Ready(node[s]) /\ Typed(node[s])
  BY DEF SaeInv, Inv, Ready, RecInv
<1>b. ASSUME NEW s \in Sta, NEW g, SaeStep(node[s], g, FreshCommits, FALSE), RecInv(g), Step(s, g)
      PROVE  SaeInv'
  <2>1. Typed(g) /\ Handle(s, g, 0)
    BY <1>b DEF RecInv, Step
  <2>2. FALSE \in BOOLEAN /\ 0 \in {0, 1} /\ 0 # 1
    OBVIOUS
  <2> QED BY <1>0, <1>b, <2>1, <2>2, HandleSae
<1>2. ASSUME NEW s \in Sta, NewPeer(s) PROVE SaeInv'
  <2> DEFINE g(l) == AddPeer(node[s], l)
  <2>1. PICK l \in FreshLids, c \in FreshCommits, n \in FreshNonces :
          Step(s, AuthSae(g(l), c, n))
    BY <1>2 DEF NewPeer
  <2>2. RecInv(node[s]) /\ node[s].known = FALSE
    BY <1>0, <1>2, Holds DEF Inv, RecInv, NewPeer
  <2>3. l \in Lids /\ c \in Commits /\ n \in Nonces /\ c # 0
    BY FreshTyped, MeshAssumption
  <2>4. /\ Typed(g(l)) /\ Counted(g(l)) /\ g(l).known = TRUE /\ g(l).plink = "IDLE"
        /\ g(l).lid # 0 /\ g(l).ptm = 0 /\ g(l).aek = {}
    BY <2>2, <2>3, AddPeerTyped
  <2>5. Shaped(g(l)) /\ NoConfirm(g(l)) /\ g(l).own = 0 /\ g(l).peer = 0
    BY FieldsAre DEF AddPeer, NoEntry, Shaped, NoConfirm
  <2> HIDE DEF g
  <2>6. RecInv(AuthSae(g(l), c, n))
    BY <2>3, <2>4, AuthSaeRec
  <2>7. SaeStep(node[s], AuthSae(g(l), c, n), FreshCommits, FALSE)
    BY <2>5, AuthSaeStep
  <2> QED BY <1>b, <2>1, <2>6, <2>7
<1>3. ASSUME NEW s \in Sta, Receive(s) PROVE SaeInv'
  <2>1. PICK e \in Received(node[s], Head(air[s])) : Handle(s, e, 1)
    BY <1>3 DEF Receive
  <2>2. air[s] # <<>> /\ Head(air[s]) \in GoodFrames
    BY <1>0, <1>3 DEF Receive, Inv
  <2>3. Typed(e)
    BY <1>0, <2>2, ReceivedRec DEF Inv, RecInv
  <2>4. PICK v \in BOOLEAN :
           /\ SaeStep(node[s], e, FreshCommits, v)
           /\ v => \E i \in DOMAIN air[s] : /\ air[s][i].k = "confirm" /\ air[s][i].c = node[s].peer
                                            /\ air[s][i].p = node[s].own
    BY <2>2, ReceivedSae
  <2> QED BY <1>0, <2>1, <2>2, <2>3, <2>4, HandleSae
<1>4. ASSUME NEW s \in Sta, Lose(s) PROVE SaeInv'
  <2>1. /\ node' = node /\ air' = [air EXCEPT ![s] = Tail(@)] /\ air[s] # <<>>
    BY <1>4 DEF Lose
  <2>2. ASSUME NEW t \in Sta, NEW i \in DOMAIN air'[t]
        PROVE  \E j \in DOMAIN air[t] : air'[t][i] = air[t][j]
    <3>1. CASE t = s
      <4>1. air'[s] = Tail(air[s]) /\ air[s] \in Seq(GoodFrames)
        BY <1>0, <2>1 DEF Inv
      <4>2. i \in DOMAIN Tail(air[s])
        BY <2>2, <3>1, <4>1
      <4>3. i + 1 \in DOMAIN air[s] /\ Tail(air[s])[i] = air[s][i + 1]
        BY <2>1, <4>1, <4>2
      <4> QED BY <3>1, <4>1, <4>3
    <3>2. CASE t # s
      BY <1>0, <2>1, <2>2, <3>2 DEF Inv
    <3> QED BY <3>1, <3>2
  <2>3. ASSUME NEW t \in Sta PROVE ConfirmsAgree(t)' /\ AcceptedAgrees(t)' /\ SaeOk(node'[t])
    <3>1. ConfirmsAgree(t) /\ AcceptedAgrees(t) /\ SaeOk(node[t])
      BY DEF SaeInv
    <3> QED BY <2>1, <2>2, <3>1 DEF ConfirmsAgree, AcceptedAgrees
  <2> QED BY <1>0, <2>3 DEF SaeInv
<1>6. ASSUME NEW s \in Sta, Retransmit(s) PROVE SaeInv'
  <2>1. RecInv(RetransmitTimer(node[s]))
    BY <1>a, RetransmitTimerRec DEF Ready
  <2>2. SaeStep(node[s], RetransmitTimer(node[s]), FreshCommits, FALSE)
    BY <1>a, RetransmitTimerStep
  <2> QED BY <1>6, <1>b, <2>1, <2>2 DEF Retransmit
<1>7. ASSUME NEW s \in Sta, AuthTimeout(s) PROVE SaeInv'
  <2>1. PICK c \in FreshCommits, n \in FreshNonces : Step(s, AuthTimer(node[s], c, n))
    BY <1>7 DEF AuthTimeout
  <2>2. RecInv(node[s]) /\ node[s].auth = TRUE
    BY <1>0, <1>7, Holds DEF Inv, RecInv, AuthTimeout
  <2>3. RecInv(AuthTimer(node[s], c, n))
    BY <2>2, FreshTyped, AuthTimerRec
  <2>4. SaeStep(node[s], AuthTimer(node[s], c, n), FreshCommits, FALSE)
    BY <1>a, <2>2, AuthTimerStep, FreshStep
  <2> QED BY <1>b, <2>1, <2>3, <2>4
<1>8. ASSUME NEW s \in Sta, PlinkTimeout(s) PROVE SaeInv'
  <2>1. RecInv(PlinkTimer(node[s]))
    BY <1>8, <1>a, PlinkTimerRec DEF Ready, PlinkTimeout
  <2>2. SaeStep(node[s], PlinkTimer(node[s]), FreshCommits, FALSE)
    BY <1>a, PlinkTimerStep
  <2> QED BY <1>8, <1>b, <2>1, <2>2 DEF PlinkTimeout
<1>9. ASSUME NEW s \in Sta, RemovePeer(s) PROVE SaeInv'
  <2>1. RecInv(node[s]) /\ node[s].known = TRUE
    BY <1>0, <1>9, Holds DEF Inv, RecInv, RemovePeer
  <2>2. RecInv(PlinkClose(node[s]))
    BY <2>1, PlinkCloseRec
  <2>3. SaeStep(node[s], PlinkClose(node[s]), FreshCommits, FALSE)
    BY <1>a, PlinkCloseStep
  <2> QED BY <1>9, <1>b, <2>2, <2>3 DEF RemovePeer
<1>10. ASSUME NEW s \in Sta, Restart(s) PROVE SaeInv'
  <2> DEFINE r == [NoEntry EXCEPT !.out = PlinkClose(node[s]).out]
  <2>1. CASE node[s].known /\ Step(s, r)
    <3>1. RecInv(node[s]) /\ node[s].known = TRUE
      BY <1>0, <2>1, Holds DEF Inv, RecInv
    <3>2. PlinkClose(node[s]).out \in Seq(GoodFrames)
      BY <3>1, PlinkCloseRec, Holds DEF RecInv
    <3>3. RecInv(r)
      BY <3>2, RestartedRec
    <3>4. r.sae = "NOTHING" /\ r.auth = FALSE /\ NoConfirm(r)
      BY <1>a, PlinkCloseStep DEF NoEntry, NoConfirm
    <3>5. SaeStep(node[s], r, FreshCommits, FALSE)
      BY <3>4 DEF SaeStep, SaeOk, OutOk, NoConfirm
    <3> QED BY <1>b, <2>1, <3>3, <3>5
  <2>2. CASE Step(s, NoEntry)
    <3>1. RecInv(NoEntry)
      BY NoEntryTyped DEF RecInv, Counted, Timed, Pending, OneTimer, Keyed, NoEntry, Opening
    <3>2. NoEntry.sae = "NOTHING" /\ NoEntry.auth = FALSE /\ NoConfirm(NoEntry)
      BY DEF NoEntry, NoConfirm
    <3>3. SaeStep(node[s], NoEntry, FreshCommits, FALSE)
      BY <3>2 DEF SaeStep, SaeOk, OutOk, NoConfirm
    <3> QED BY <1>b, <2>2, <3>1, <3>3
  <2> QED BY <1>10, <2>1, <2>2 DEF Restart
<1> QED BY <1>1, <1>2, <1>3, <1>4, <1>6, <1>7, <1>8, <1>9, <1>10 DEF Next

LEMMA SaeAlways == Spec => []SaeInv
BY SaeInit, SaeNext, PTL DEF Spec

(* Two accepted SAE instances of which one accepted the commit that the other   *)
(* still uses have the same PMK, although commits cross, are sent again after  *)
(* retransmit_timer, replaced by a new instance, or follow a cached PMKSA.      *)
THEOREM SaeAgree == Spec => []SaeKeysAgree
<1>1. SaeInv => SaeKeysAgree
  <2> SUFFICES ASSUME SaeInv, NEW s \in Sta, NEW t \in Sta, s # t,
                      node[s].sae = "ACCEPTED", node[t].sae = "ACCEPTED",
                      node[s].acc # 0, node[s].acc = node[t].own
               PROVE  node[s].pmk = node[t].pmk
    BY DEF SaeKeysAgree
  <2>1. Other(s) = t
    BY OtherIs
  <2>2. Agrees(node[t], node[s].acc, node[s].own)
    BY <2>1 DEF SaeInv, AcceptedAgrees
  <2>3. node[s].own = node[t].acc
    BY <2>2 DEF Agrees, Partner
  <2>4. node[s].pmk = {node[s].own, node[s].acc} /\ node[t].pmk = {node[t].own, node[t].acc}
    BY DEF SaeInv, SaeOk
  <2> QED BY <2>3, <2>4
<1> QED BY <1>1, SaeAlways, PTL

----------------------------------------------------------------------------
(* What a handler does to the link.                                            *)

\* The link has been confirmed by the peer.
Confirmed == {"CNF_RCVD", "ESTAB"}

\* The values that say which link, and which run of AMPE on it, a record is about.
SameIds(e, g) == \A x \in {"known", "lid", "plid", "n", "aek"} : g[x] = e[x]

\* The peering frames that are sent carry the values of the record, and a Confirm
\* is among them only if ok.
SaysOf(e, f, ok) == /\ f.lid = e.lid /\ f.aek = e.aek /\ f.n = e.n /\ f.plid \in {0, e.plid}
                    /\ f.k = "cnf" => ok /\ f.plid = e.plid
Speaks(e, ok) == \A i \in DOMAIN e.out : e.out[i].k \notin AuthKinds => SaysOf(e, e.out[i], ok)

NoAction(e) == \A i \in DOMAIN e.out : e.out[i].k \in AuthKinds

\* Peering frames are sent, for this link.
Chat(e, g, ok) ==
  /\ Shaped(g) /\ SameIds(e, g) /\ g.sae = e.sae /\ g.pmk = e.pmk
  /\ Speaks(e, ok) => Speaks(g, ok)

LEMMA ChatTrans ==
  ASSUME NEW e, NEW g, NEW h, NEW ok, Chat(e, g, ok), Chat(g, h, ok)
  PROVE  Chat(e, h, ok)
BY DEF Chat, SameIds

LEMMA SetChat ==
  ASSUME NEW e, Shaped(e), NEW g, Shaped(g), SameIds(e, g), g.sae = e.sae, g.pmk = e.pmk,
         g.out = e.out, NEW ok
  PROVE  Chat(e, g, ok)
BY DEF Chat, SameIds, Speaks, SaysOf

LEMMA SendActionChat ==
  ASSUME NEW e, Shaped(e), NEW k \in {"open", "cnf", "close"}, NEW ok \in BOOLEAN, k = "cnf" => ok
  PROVE  /\ Chat(e, SendAction(e, k), ok)
         /\ \A x \in Fields \ {"out"} : SendAction(e, k)[x] = e[x]
<1> DEFINE f == [k |-> k, lid |-> e.lid, plid |-> IF k = "open" THEN 0 ELSE e.plid,
                 n |-> e.n, pn |-> e.pn, pmk |-> e.pmk, aek |-> e.aek]
           o == Append(e.out, f)
           g == [e EXCEPT !.out = o]
<1>1. PICK S : e.out \in Seq(S)
  BY DEF Shaped
<1>2. SendAction(e, k) = g
  BY DEF SendAction, Send
<1>3. f.lid = e.lid /\ f.aek = e.aek /\ f.n = e.n /\ f.plid \in {0, e.plid}
      /\ (f.k = "cnf" => ok /\ f.plid = e.plid)
  OBVIOUS
<1> HIDE DEF f
<1>4. o \in Seq(S \cup {f}) /\ \A i \in DOMAIN o : (i \in DOMAIN e.out /\ o[i] = e.out[i]) \/ o[i] = f
  BY <1>1
<1> HIDE DEF o
<1>5. Shaped(g) /\ g.out = o /\ \A x \in Fields \ {"out"} : g[x] = e[x]
  BY <1>4, FieldsAre DEF Shaped
<1>6. SameIds(e, g) /\ g.sae = e.sae /\ g.pmk = e.pmk
  BY <1>5, FieldsAre DEF SameIds
<1> HIDE DEF g
<1>7. ASSUME Speaks(e, ok), NEW i \in DOMAIN g.out, g.out[i].k \notin AuthKinds
      PROVE  SaysOf(g, g.out[i], ok)
  <2>1. SaysOf(e, g.out[i], ok)
    BY <1>3, <1>4, <1>5, <1>7 DEF Speaks, SaysOf
  <2> QED BY <1>6, <2>1 DEF SaysOf, SameIds
<1> QED BY <1>2, <1>5, <1>6, <1>7 DEF Chat, Speaks

\* The link has been opened or confirmed in answer to event ev of mesh_mpm_fsm.
Advances(e, g, ev) ==
  /\ g.plink \in Confirmed => e.plink \in Confirmed \/ ev = "CNF_ACPT"
  /\ g.plink = "ESTAB" =>
       \/ e.plink = "ESTAB" /\ g.mtk = e.mtk
       \/ /\ ev \in {"OPN_ACPT", "CNF_ACPT"}
          /\ g.mtk = <<e.pmk, InOrder(e.n, e.pn), InOrder(e.lid, e.plid)>>

LEMMA FsmLink ==
  ASSUME NEW e, Shaped(e), NEW ev, NEW ok \in BOOLEAN, ev = "OPN_ACPT" => ok
  PROVE  \/ e.plink \in {"IDLE", "HOLDING"} /\ Fsm(e, ev) = FreeSta(e)
         \/ Chat(e, Fsm(e, ev), ok) /\ Advances(e, Fsm(e, ev), ev)
<1> DEFINE r == Fsm(e, ev)
<1>a. Fsm(e, ev) = r
  OBVIOUS
<1> SUFFICES \/ e.plink \in {"IDLE", "HOLDING"} /\ r = FreeSta(e)
             \/ Chat(e, r, ok) /\ Advances(e, r, ev)
  OBVIOUS
<1> HIDE DEF r
<1>1. CASE r = e
  <2>1. SameIds(e, e)
    BY DEF SameIds
  <2>2. Chat(e, e, ok)
    BY <2>1, SetChat
  <2> QED BY <1>1, <2>2 DEF Advances
<1>2. CASE ev = "OPN_ACPT" /\ e.plink = "IDLE" /\ r = SendAction(PlinkOpen(e, "OPN_RCVD"), "cnf")
  <2> DEFINE g == SendAction(e, "open")
             h == [g EXCEPT !.plink = "OPN_RCVD", !.ptm = 1]
  <2>1. Chat(e, g, ok)
    BY SendActionChat
  <2>2. h = PlinkOpen(e, "OPN_RCVD")
    BY DEF PlinkOpen
  <2> HIDE DEF g
  <2>3. Shaped(h) /\ SameIds(g, h) /\ h.sae = g.sae /\ h.pmk = g.pmk /\ h.out = g.out /\ h.plink = "OPN_RCVD"
    BY <2>1, FieldsAre DEF Chat, SameIds, Shaped
  <2> HIDE DEF h
  <2>4. Chat(g, h, ok)
    BY <2>1, <2>3, SetChat DEF Chat
  <2>5. Chat(h, SendAction(h, "cnf"), ok) /\ SendAction(h, "cnf").plink = "OPN_RCVD"
    BY <1>2, <2>3, SendActionChat, FieldsAre
  <2>6. Chat(e, r, ok) /\ r.plink = "OPN_RCVD"
    BY <1>2, <2>1, <2>2, <2>4, <2>5, ChatTrans
  <2> QED BY <2>6 DEF Advances, Confirmed
<1>3. CASE \E k \in {"close", "cnf"} : (k = "cnf" => ok) /\ r = SendAction(e, k)
  <2>1. PICK k \in {"close", "cnf"} : (k = "cnf" => ok) /\ r = SendAction(e, k)
    BY <1>3
  <2>2. Chat(e, r, ok) /\ r.plink = e.plink /\ r.mtk = e.mtk
    BY <2>1, SendActionChat, FieldsAre
  <2> QED BY <2>2 DEF Advances
<1>4. CASE r = Hold(e)
  <2> DEFINE g == [e EXCEPT !.plink = "HOLDING", !.num = PlinkLeft(e), !.ptm = @ + 1]
  <2>1. Shaped(g) /\ SameIds(e, g) /\ g.sae = e.sae /\ g.pmk = e.pmk /\ g.out = e.out /\ g.plink = "HOLDING"
    BY FieldsAre DEF SameIds, Shaped
  <2>2. Hold(e) = SendAction(g, "close")
    BY DEF Hold
  <2> HIDE DEF g
  <2>3. Chat(e, g, ok)
    BY <2>1, SetChat
  <2>4. Chat(g, SendAction(g, "close"), ok) /\ SendAction(g, "close").plink = "HOLDING"
    BY <2>1, SendActionChat, FieldsAre
  <2>5. Chat(e, r, ok) /\ r.plink = "HOLDING"
    BY <1>4, <2>2, <2>3, <2>4, ChatTrans
  <2> QED BY <2>5 DEF Advances, Confirmed
<1>5. CASE ev = "OPN_ACPT" /\ r = SendAction([e EXCEPT !.plink = "OPN_RCVD"], "cnf")
  <2> DEFINE g == [e EXCEPT !.plink = "OPN_RCVD"]
  <2>1. Shaped(g) /\ SameIds(e, g) /\ g.sae = e.sae /\ g.pmk = e.pmk /\ g.out = e.out /\ g.plink = "OPN_RCVD"
    BY FieldsAre DEF SameIds, Shaped
  <2>2. r = SendAction(g, "cnf")
    BY <1>5
  <2> HIDE DEF g
  <2>3. Chat(e, g, ok)
    BY <2>1, SetChat
  <2>4. Chat(g, SendAction(g, "cnf"), ok) /\ SendAction(g, "cnf").plink = "OPN_RCVD"
    BY <1>5, <2>1, SendActionChat, FieldsAre
  <2>5. Chat(e, r, ok) /\ r.plink = "OPN_RCVD"
    BY <2>2, <2>3, <2>4, ChatTrans
  <2> QED BY <2>5 DEF Advances, Confirmed
<1>6. CASE ev = "CNF_ACPT" /\ r = [e EXCEPT !.plink = "CNF_RCVD", !.ptm = 1]
  <2>1. Shaped(r) /\ SameIds(e, r) /\ r.sae = e.sae /\ r.pmk = e.pmk /\ r.out = e.out /\ r.plink = "CNF_RCVD"
    BY <1>6, FieldsAre DEF SameIds, Shaped
  <2>2. Chat(e, r, ok)
    BY <2>1, SetChat
  <2> QED BY <1>6, <2>1, <2>2 DEF Advances
<1>7. /\ Shaped(Estab(e)) /\ SameIds(e, Estab(e)) /\ Estab(e).sae = e.sae /\ Estab(e).pmk = e.pmk
      /\ Estab(e).out = e.out /\ Estab(e).plink = "ESTAB"
      /\ Estab(e).mtk = <<e.pmk, InOrder(e.n, e.pn), InOrder(e.lid, e.plid)>>
  BY FieldsAre DEF SameIds, Shaped, Estab
<1>8. Chat(e, Estab(e), ok)
  BY <1>7, SetChat
<1>9. CASE ev = "CNF_ACPT" /\ r = Estab(e)
  BY <1>7, <1>8, <1>9 DEF Advances
<1>10. CASE ev = "OPN_ACPT" /\ e.plink = "CNF_RCVD" /\ r = SendAction(Estab(e), "cnf")
  <2>1. Chat(Estab(e), r, ok) /\ r.mtk = Estab(e).mtk
    BY <1>7, <1>10, SendActionChat, FieldsAre
  <2>2. Chat(e, r, ok)
    BY <1>8, <2>1, ChatTrans
  <2> QED BY <1>7, <1>10, <2>1, <2>2 DEF Advances, Confirmed
<1>11. CASE e.plink \in {"IDLE", "HOLDING"} /\ r = FreeSta(e)
  BY <1>11
<1> QED BY <1>1, <1>2, <1>3, <1>4, <1>5, <1>6, <1>9, <1>10, <1>11, <1>a DEF Fsm

\* The frame f asks for a Confirm of the link of g.
Asked(g, f) == f.k = "open" /\ f.aek = g.aek /\ f.lid = g.plid

\* The peer's link identifier is taken from f, once.
Binds(e, g, f) ==
  \/ g.plid = e.plid
  \/ e.plid = 0 /\ g.plid = f.lid /\ f.k \in {"open", "cnf"} /\ f.aek = g.aek

\* The link and the run of AMPE stay as they are while the frame f is handled.
Stays(e, g, f) ==
  /\ g.known = e.known /\ g.lid = e.lid /\ g.n = e.n /\ g.aek = e.aek
  /\ Binds(e, g, f)
  /\ g.plink \in Confirmed =>
       \/ e.plink \in Confirmed
       \/ f.k = "cnf" /\ f.plid = e.lid /\ f.lid = g.plid /\ f.aek = e.aek
  /\ g.plink = "ESTAB" =>
       \/ e.plink = "ESTAB" /\ g.mtk = e.mtk /\ g.plid = e.plid
       \/ /\ f.k \in {"open", "cnf"} /\ f.lid = g.plid /\ f.aek = e.aek
          /\ g.mtk = <<e.aek, InOrder(e.n, f.n), InOrder(e.lid, g.plid)>>
  /\ g.sae = "ACCEPTED" => e.sae = "ACCEPTED" /\ g.pmk = e.pmk
  /\ Speaks(g, Asked(g, f))

\* There is no entry of the peer any more.
Left(g) == g.known = FALSE /\ g.plid = 0 /\ g.plink = "IDLE" /\ g.sae = "NOTHING"

LEMMA FreeStaLeft ==
  ASSUME NEW e, Shaped(e)
  PROVE  Left(FreeSta(e)) /\ FreeSta(e).out = e.out
BY FieldsAre DEF Left, FreeSta, NoEntry, Shaped

LEMMA SpeaksWeaker ==
  ASSUME NEW e, Speaks(e, FALSE), NEW ok \in BOOLEAN
  PROVE  Speaks(e, ok)
BY DEF Speaks, SaysOf

LEMMA RxAmpeLink ==
  ASSUME NEW e, Shaped(e), Speaks(e, FALSE), NEW f, IsAction(f),
         e.plink = "ESTAB" => e.plid # 0, e.pmk = e.aek
  PROVE  LET r == RxAmpe(e, f)
         IN \/ Stays(e, r, f) /\ r.sae = e.sae /\ r.pmk = e.pmk
            \/ e.plink \in {"IDLE", "HOLDING"} /\ Left(r) /\ r.out = e.out
<1> DEFINE g == [e EXCEPT !.pn = f.n]
           h == [g EXCEPT !.plid = f.lid]
           r == RxAmpe(e, f)
<1>1. Shaped(g) /\ SameIds(e, g) /\ g.sae = e.sae /\ g.pmk = e.pmk /\ g.out = e.out
      /\ g.plink = e.plink /\ g.mtk = e.mtk /\ g.pn = f.n
  BY FieldsAre DEF SameIds, Shaped
<1>2. /\ Shaped(h) /\ h.sae = e.sae /\ h.pmk = e.pmk /\ h.out = e.out /\ h.plink = e.plink
      /\ h.mtk = e.mtk /\ h.pn = f.n /\ h.plid = f.lid /\ h.known = e.known /\ h.lid = e.lid
      /\ h.n = e.n /\ h.aek = e.aek
  BY FieldsAre DEF Shaped
<1>3. \/ r \in {e, g} \cup {Fsm(e, "OPN_RJCT"), Fsm(g, "REQ_RJCT"), Fsm(g, "CLS_ACPT")}
      \/ f.k = "open" /\ f.aek = e.aek /\ e.plid \in {0, f.lid} /\ r = Fsm(h, "OPN_ACPT")
      \/ f.k = "cnf" /\ f.aek = e.aek /\ e.plid \in {0, f.lid} /\ e.lid = f.plid /\ r = Fsm(h, "CNF_ACPT")
  <2>1. g.plid = e.plid /\ g.lid = e.lid
    BY <1>1 DEF SameIds
  <2> HIDE DEF h
  <2>2. RxOpen(g, f) \in {g, Fsm(g, "REQ_RJCT")}
        \/ (e.plid \in {0, f.lid} /\ RxOpen(g, f) = Fsm(h, "OPN_ACPT"))
    BY <2>1 DEF RxOpen, h
  <2>3. RxCnf(g, f) \in {g, Fsm(g, "REQ_RJCT")}
        \/ (e.plid \in {0, f.lid} /\ e.lid = f.plid /\ RxCnf(g, f) = Fsm(h, "CNF_ACPT"))
    BY <2>1 DEF RxCnf, h
  <2>4. RxClose(g, f) \in {g, Fsm(g, "CLS_ACPT")}
    BY DEF RxClose
  <2>5. r \in {e, Fsm(e, "OPN_RJCT")}
        \/ (f.aek = e.aek /\ \/ f.k = "open" /\ r = RxOpen(g, f)
                             \/ f.k = "cnf" /\ r = RxCnf(g, f)
                             \/ f.k = "close" /\ r = RxClose(g, f))
    BY DEF RxAmpe, IsAction
  <2> HIDE DEF g, r
  <2> QED BY <2>2, <2>3, <2>4, <2>5
<1> SUFFICES \/ Stays(e, r, f) /\ r.sae = e.sae /\ r.pmk = e.pmk
             \/ e.plink \in {"IDLE", "HOLDING"} /\ Left(r) /\ r.out = e.out
  OBVIOUS
<1> HIDE DEF g, h, r
<1>4. SameIds(e, e) /\ Asked(r, f) \in BOOLEAN
  BY DEF SameIds, Asked
<1>5. ASSUME NEW b, b \in {e, g}, Chat(b, r, FALSE), r.plink \in Confirmed => b.plink \in Confirmed,
             r.plink = "ESTAB" => b.plink = "ESTAB" /\ r.mtk = b.mtk
      PROVE  Stays(e, r, f) /\ r.sae = e.sae /\ r.pmk = e.pmk
  <2>1. SameIds(e, b) /\ b.sae = e.sae /\ b.pmk = e.pmk /\ b.out = e.out /\ b.plink = e.plink /\ b.mtk = e.mtk
    BY <1>1, <1>4, <1>5
  <2>2. Speaks(b, FALSE)
    BY <2>1 DEF Speaks, SaysOf, SameIds
  <2>3. Speaks(r, Asked(r, f))
    BY <1>4, <1>5, <2>2, SpeaksWeaker DEF Chat
  <2> QED BY <1>5, <2>1, <2>3 DEF Stays, Chat, SameIds, Binds
<1>6. CASE r \in {e, g}
  <2>1. Chat(r, r, FALSE)
    BY <1>1, <1>6 DEF Chat, SameIds
  <2> QED BY <1>5, <1>6, <2>1
<1>7. ASSUME NEW b, b \in {e, g}, NEW ev, ev \in {"OPN_RJCT", "REQ_RJCT", "CLS_ACPT"}, r = Fsm(b, ev)
      PROVE  \/ Stays(e, r, f) /\ r.sae = e.sae /\ r.pmk = e.pmk
             \/ e.plink \in {"IDLE", "HOLDING"} /\ Left(r) /\ r.out = e.out
  <2>1. Shaped(b) /\ b.out = e.out /\ b.plink = e.plink
    BY <1>1, <1>7
  <2>2. CASE b.plink \in {"IDLE", "HOLDING"} /\ r = FreeSta(b)
    BY <2>1, <2>2, FreeStaLeft
  <2>3. CASE Chat(b, r, FALSE) /\ Advances(b, r, ev)
    <3>1. /\ r.plink \in Confirmed => b.plink \in Confirmed
          /\ r.plink = "ESTAB" => b.plink = "ESTAB" /\ r.mtk = b.mtk
      BY <1>7, <2>3 DEF Advances
    <3> QED BY <1>5, <1>7, <2>3, <3>1
  <2>4. FALSE \in BOOLEAN /\ ev # "OPN_ACPT"
    BY <1>7
  <2> QED BY <1>7, <2>1, <2>2, <2>3, <2>4, FsmLink
<1>8. ASSUME NEW ok \in BOOLEAN, NEW ev,
             \/ ev = "OPN_ACPT" /\ f.k = "open" /\ ok = TRUE
             \/ ev = "CNF_ACPT" /\ f.k = "cnf" /\ f.plid = e.lid /\ ok = FALSE,
             f.aek = e.aek, e.plid \in {0, f.lid}, r = Fsm(h, ev)
      PROVE  \/ Stays(e, r, f) /\ r.sae = e.sae /\ r.pmk = e.pmk
             \/ e.plink \in {"IDLE", "HOLDING"} /\ Left(r) /\ r.out = e.out
  <2>1. CASE h.plink \in {"IDLE", "HOLDING"} /\ r = FreeSta(h)
    BY <1>2, <2>1, FreeStaLeft
  <2>2. CASE Chat(h, r, ok) /\ Advances(h, r, ev)
    <3>1. Speaks(h, ok)
      BY <1>2, <1>8, SpeaksWeaker DEF Speaks, SaysOf
    <3>2. /\ r.known = e.known /\ r.lid = e.lid /\ r.n = e.n /\ r.aek = e.aek /\ r.plid = f.lid
          /\ r.sae = e.sae /\ r.pmk = e.pmk /\ Speaks(r, ok)
      BY <1>2, <2>2, <3>1 DEF Chat, SameIds
    <3>3. ok => Asked(r, f)
      BY <1>8, <3>2 DEF Asked
    <3>4. Speaks(r, Asked(r, f))
      BY <3>2, <3>3 DEF Speaks, SaysOf
    <3>5. Binds(e, r, f)
      BY <1>8, <3>2 DEF Binds
    <3>6. r.plink \in Confirmed =>
            \/ e.plink \in Confirmed
            \/ f.k = "cnf" /\ f.plid = e.lid /\ f.lid = r.plid /\ f.aek = e.aek
      BY <1>2, <1>8, <2>2, <3>2 DEF Advances
    <3>7. r.plink = "ESTAB" =>
            \/ e.plink = "ESTAB" /\ r.mtk = e.mtk /\ r.plid = e.plid
            \/ /\ f.k \in {"open", "cnf"} /\ f.lid = r.plid /\ f.aek = e.aek
               /\ r.mtk = <<e.aek, InOrder(e.n, f.n), InOrder(e.lid, r.plid)>>
      BY <1>2, <1>8, <2>2, <3>2 DEF Advances
    <3> QED BY <3>2, <3>4, <3>5, <3>6, <3>7 DEF Stays
  <2>3. ev = "OPN_ACPT" => ok
    BY <1>8
  <2> QED BY <1>2, <1>8, <2>1, <2>2, <2>3, FsmLink
<1>9. CASE f.k = "open" /\ f.aek = e.aek /\ e.plid \in {0, f.lid} /\ r = Fsm(h, "OPN_ACPT")
  BY <1>8, <1>9
<1>10. CASE f.k = "cnf" /\ f.aek = e.aek /\ e.plid \in {0, f.lid} /\ e.lid = f.plid /\ r = Fsm(h, "CNF_ACPT")
  BY <1>8, <1>10
<1> QED BY <1>3, <1>6, <1>7, <1>9, <1>10

\* No peering frame is sent, and the link is left alone or given up.
Quiet(e, g) ==
  /\ Shaped(g) /\ SameIds(e, g) /\ g.mtk = e.mtk
  /\ g.plink = e.plink \/ g.plink \notin Confirmed
  /\ g.sae = "ACCEPTED" => e.sae = "ACCEPTED" /\ g.pmk = e.pmk
  /\ NoAction(e) => NoAction(g)

LEMMA QuietTrans ==
  ASSUME NEW e, NEW g, NEW h, Quiet(e, g), Quiet(g, h)
  PROVE  Quiet(e, h)
BY DEF Quiet, SameIds

LEMMA QuietStays ==
  ASSUME NEW e, NEW g, NoAction(e), Quiet(e, g), NEW f
  PROVE  Stays(e, g, f)
BY DEF Quiet, Stays, SameIds, NoAction, Speaks, Binds, Confirmed

LEMMA ChatStays ==
  ASSUME NEW e, NEW g, NoAction(e), Chat(e, g, FALSE),
         (g.plink = e.plink /\ g.mtk = e.mtk) \/ g.plink \notin Confirmed, NEW f
  PROVE  Stays(e, g, f)
<1>1. Speaks(e, FALSE)
  BY DEF NoAction, Speaks
<1>2. Asked(g, f) \in BOOLEAN
  BY DEF Asked
<1>3. Speaks(g, Asked(g, f))
  BY <1>1, <1>2, SpeaksWeaker DEF Chat
<1> QED BY <1>3 DEF Stays, Chat, SameIds, Binds, Confirmed

LEMMA SendQuiet ==
  ASSUME NEW e, Shaped(e), NEW f, f.k \in AuthKinds
  PROVE  Quiet(e, Send(e, f)) /\ \A x \in Fields \ {"out"} : Send(e, f)[x] = e[x]
<1> DEFINE o == Append(e.out, f)
           g == [e EXCEPT !.out = o]
<1>1. PICK S : e.out \in Seq(S)
  BY DEF Shaped
<1>2. Send(e, f) = g
  BY DEF Send
<1>3. o \in Seq(S \cup {f}) /\ \A i \in DOMAIN o : (i \in DOMAIN e.out /\ o[i] = e.out[i]) \/ o[i] = f
  BY <1>1
<1> HIDE DEF o
<1>4. Shaped(g) /\ g.out = o /\ \A x \in Fields \ {"out"} : g[x] = e[x]
  BY <1>3, FieldsAre DEF Shaped
<1> HIDE DEF g
<1>5. SameIds(e, g) /\ g.mtk = e.mtk /\ g.plink = e.plink /\ g.sae = e.sae /\ g.pmk = e.pmk
  BY <1>4, FieldsAre DEF SameIds
<1>6. NoAction(e) => NoAction(g)
  BY <1>3, <1>4 DEF NoAction
<1> QED BY <1>2, <1>4, <1>5, <1>6 DEF Quiet

LEMMA SendAuthQuiet ==
  ASSUME NEW e, Shaped(e)
  PROVE  /\ Quiet(e, SendCommit(e)) /\ Quiet(e, SendConfirm(e)) /\ Quiet(e, Reject(e))
         /\ \A x \in Fields \ {"out"} : SendCommit(e)[x] = e[x] /\ SendConfirm(e)[x] = e[x]
<1>1. "commit" \in AuthKinds /\ "confirm" \in AuthKinds /\ "reject" \in AuthKinds
  BY DEF AuthKinds
<1> QED BY <1>1, SendQuiet DEF SendCommit, SendConfirm, Reject

LEMMA CancelCachingQuiet ==
  ASSUME NEW e, Shaped(e)
  PROVE  Quiet(e, CancelCaching(e))
BY FieldsAre DEF Quiet, Shaped, SameIds, NoAction, CancelCaching

LEMMA ProcessCommitQuiet ==
  ASSUME NEW e, Shaped(e), e.sae = "CONFIRMED"
  PROVE  Quiet(e, ProcessCommit(e))
<1> DEFINE g == [e EXCEPT !.pmk = {e.own, e.peer}, !.retr = TRUE]
<1>1. Quiet(e, g)
  BY FieldsAre DEF Quiet, Shaped, SameIds, NoAction
<1>2. ProcessCommit(e) = SendConfirm(g)
  BY DEF ProcessCommit
<1> HIDE DEF g
<1>3. Quiet(g, SendConfirm(g))
  BY <1>1, SendAuthQuiet DEF Quiet
<1> QED BY <1>1, <1>2, <1>3, QuietTrans

LEMMA SaeCommitQuiet ==
  ASSUME NEW e, Shaped(e), e.sae \in {"NOTHING", "COMMITTED", "CONFIRMED", "ACCEPTED"}, NEW c
  PROVE  \/ Quiet(e, SaeCommit(e, c))
         \/ Left(SaeCommit(e, c)) /\ SaeCommit(e, c).out = e.out
<1>1. CASE e.sae = "NOTHING"
  <2> DEFINE g == [e EXCEPT !.own = c]
             h == SendCommit(g)
             b == [h EXCEPT !.sae = "CONFIRMED", !.sync = 0]
  <2>1. Quiet(e, g)
    BY FieldsAre DEF Quiet, Shaped, SameIds, NoAction
  <2> HIDE DEF g
  <2>2. Quiet(g, h)
    BY <2>1, SendAuthQuiet DEF Quiet
  <2> HIDE DEF h
  <2>3. Quiet(h, b) /\ b.sae = "CONFIRMED" /\ Shaped(b)
    BY <2>2, FieldsAre DEF Quiet, Shaped, SameIds, NoAction
  <2>4. SaeCommit(e, c) = ProcessCommit(b)
    BY <1>1 DEF SaeCommit, h, g
  <2> HIDE DEF b
  <2>5. Quiet(b, ProcessCommit(b))
    BY <2>3, ProcessCommitQuiet
  <2> QED BY <2>1, <2>2, <2>3, <2>4, <2>5, QuietTrans
<1>2. CASE e.sae = "COMMITTED"
  <2> DEFINE b == [e EXCEPT !.sae = "CONFIRMED", !.sync = 0]
  <2>1. Quiet(e, b) /\ b.sae = "CONFIRMED" /\ Shaped(b)
    BY FieldsAre DEF Quiet, Shaped, SameIds, NoAction
  <2>2. SaeCommit(e, c) = ProcessCommit(b)
    BY <1>2 DEF SaeCommit
  <2> HIDE DEF b
  <2>3. Quiet(b, ProcessCommit(b))
    BY <2>1, ProcessCommitQuiet
  <2> QED BY <2>1, <2>2, <2>3, QuietTrans
<1>3. CASE e.sae = "CONFIRMED" /\ BigSync(e)
  <2>1. SaeCommit(e, c) = [ToNothing(e) EXCEPT !.retr = FALSE]
    BY <1>3 DEF SaeCommit
  <2>2. Quiet(e, [ToNothing(e) EXCEPT !.retr = FALSE])
    BY FieldsAre DEF Quiet, Shaped, SameIds, NoAction, ToNothing
  <2> QED BY <2>1, <2>2
<1>4. CASE e.sae = "CONFIRMED" /\ ~BigSync(e)
  <2> DEFINE g == [e EXCEPT !.own = c, !.sync = @ + 1]
             h == SendCommit(g)
  <2>1. Quiet(e, g) /\ g.sae = "CONFIRMED" /\ Shaped(g)
    BY <1>4, FieldsAre DEF Quiet, Shaped, SameIds, NoAction
  <2>2. SaeCommit(e, c) = ProcessCommit(h)
    BY <1>4 DEF SaeCommit
  <2> HIDE DEF g
  <2>3. Quiet(g, h) /\ h.sae = "CONFIRMED" /\ Shaped(h)
    BY <2>1, SendAuthQuiet, FieldsAre DEF Quiet
  <2> HIDE DEF h
  <2>4. Quiet(h, ProcessCommit(h))
    BY <2>3, ProcessCommitQuiet
  <2> QED BY <2>1, <2>2, <2>3, <2>4, QuietTrans
<1>5. CASE e.sae = "ACCEPTED"
  <2> DEFINE b == [e EXCEPT !.cache = {}]
  <2>1. Shaped(b) /\ b.out = e.out
    BY FieldsAre DEF Shaped
  <2>2. SaeCommit(e, c) = FreeSta(b)
    BY <1>5 DEF SaeCommit
  <2> QED BY <2>1, <2>2, FreeStaLeft
<1> QED BY <1>1, <1>2, <1>3, <1>4, <1>5

LEMMA AcceptLink ==
  ASSUME NEW e, Shaped(e), NoAction(e), NEW n
  PROVE  LET g == AcceptSta(e, n)
         IN /\ Shaped(g) /\ g.known = e.known /\ g.lid = e.lid /\ g.plid = e.plid
            /\ g.aek = e.pmk /\ g.pmk = e.pmk /\ g.sae = "ACCEPTED" /\ g.plink = "OPN_SNT"
            /\ Speaks(g, FALSE)
<1> DEFINE d == [e EXCEPT !.auth = FALSE, !.n = n, !.pn = 0, !.aek = e.pmk,
                          !.again = IF e.plink = "ESTAB" THEN @ + 1 ELSE @]
           h == SendAction(d, "open")
           k == [h EXCEPT !.plink = "OPN_SNT", !.ptm = 1]
           g == [k EXCEPT !.sae = "ACCEPTED", !.acc = e.peer, !.peer = 0, !.cache = e.pmk]
<1>1. AcceptSta(e, n) = g
  BY DEF AcceptSta, StartAmpe, PlinkOpen
<1>2. /\ Shaped(d) /\ d.known = e.known /\ d.lid = e.lid /\ d.plid = e.plid
      /\ d.aek = e.pmk /\ d.pmk = e.pmk /\ d.out = e.out
  BY FieldsAre DEF Shaped
<1> HIDE DEF d
<1>3. Speaks(d, FALSE)
  BY <1>2 DEF Speaks, NoAction
<1>4. Chat(d, h, FALSE)
  BY <1>2, SendActionChat
<1> HIDE DEF h
<1>5. Shaped(k) /\ SameIds(h, k) /\ k.pmk = h.pmk /\ k.out = h.out /\ k.plink = "OPN_SNT"
  BY <1>4, FieldsAre DEF Chat, Shaped, SameIds
<1> HIDE DEF k
<1>6. /\ Shaped(g) /\ SameIds(k, g) /\ g.pmk = k.pmk /\ g.out = k.out
      /\ g.plink = "OPN_SNT" /\ g.sae = "ACCEPTED"
  BY <1>5, FieldsAre DEF Shaped, SameIds
<1> HIDE DEF g
<1>7. /\ g.known = d.known /\ g.lid = d.lid /\ g.plid = d.plid /\ g.aek = d.aek /\ g.pmk = d.pmk
      /\ SameIds(h, g) /\ g.out = h.out
  BY <1>4, <1>5, <1>6 DEF SameIds, Chat
<1>8. Speaks(g, FALSE)
  BY <1>3, <1>4, <1>7 DEF Chat, Speaks, SaysOf, SameIds
<1> QED BY <1>1, <1>2, <1>6, <1>7, <1>8

LEMMA AuthSaeLink ==
  ASSUME NEW e, Shaped(e), NoAction(e), NEW c, NEW n
  PROVE  LET g == AuthSae(e, c, n)
         IN /\ e.cache = {} => Quiet(e, g) /\ g.sae = "COMMITTED"
            /\ e.cache # {} =>
                 /\ Shaped(g) /\ g.known = e.known /\ g.lid = e.lid /\ g.plid = e.plid
                 /\ g.sae = "ACCEPTED" /\ g.pmk = g.aek /\ g.plink = "OPN_SNT" /\ Speaks(g, FALSE)
<1>1. CASE e.cache # {}
  <2> DEFINE b == [e EXCEPT !.pmk = e.cache]
             h == AcceptSta(b, n)
             g == [h EXCEPT !.caching = TRUE]
  <2>1. Shaped(b) /\ NoAction(b) /\ b.known = e.known /\ b.lid = e.lid /\ b.plid = e.plid
    BY <1>1, FieldsAre DEF Shaped, NoAction
  <2> HIDE DEF b
  <2>2. /\ Shaped(h) /\ h.known = e.known /\ h.lid = e.lid /\ h.plid = e.plid
        /\ h.aek = h.pmk /\ h.sae = "ACCEPTED" /\ h.plink = "OPN_SNT" /\ Speaks(h, FALSE)
    <3>1. /\ Shaped(h) /\ h.known = b.known /\ h.lid = b.lid /\ h.plid = b.plid /\ h.aek = b.pmk
          /\ h.pmk = b.pmk /\ h.sae = "ACCEPTED" /\ h.plink = "OPN_SNT" /\ Speaks(h, FALSE)
      BY <2>1, AcceptLink
    <3> QED BY <2>1, <3>1
  <2> HIDE DEF h
  <2>3. /\ Shaped(g) /\ SameIds(h, g) /\ g.pmk = h.pmk /\ g.sae = "ACCEPTED" /\ g.plink = "OPN_SNT"
        /\ g.out = h.out
    BY <2>2, FieldsAre DEF Shaped, SameIds
  <2>4. AuthSae(e, c, n) = g
    BY <1>1 DEF AuthSae, h, b
  <2> HIDE DEF g
  <2>5. Speaks(g, FALSE)
    BY <2>2, <2>3 DEF Speaks, SaysOf, SameIds
  <2> QED BY <1>1, <2>2, <2>3, <2>4, <2>5 DEF SameIds
<1>2. CASE e.cache = {}
  <2> DEFINE g == [SaeClear(e) EXCEPT !.own = c, !.sae = "COMMITTED", !.retr = TRUE,
                                      !.auth = TRUE, !.caching = FALSE]
             k == SendCommit(g)
  <2>1. Quiet(e, g) /\ g.sae = "COMMITTED"
    <3>1. /\ Shaped(g) /\ SameIds(e, g) /\ g.mtk = e.mtk /\ g.plink = e.plink /\ g.sae = "COMMITTED"
          /\ g.out = e.out
      BY FieldsAre DEF Shaped, SameIds, SaeClear
    <3> HIDE DEF g
    <3> QED BY <3>1 DEF Quiet, NoAction
  <2>2. AuthSae(e, c, n) = k
    BY <1>2 DEF AuthSae
  <2> HIDE DEF g
  <2>3. Quiet(g, k) /\ k.sae = "COMMITTED"
    BY <2>1, SendAuthQuiet, FieldsAre DEF Quiet
  <2> HIDE DEF k
  <2>4. Quiet(e, k)
    BY <2>1, <2>3, QuietTrans
  <2> QED BY <1>2, <2>2, <2>3, <2>4
<1> QED BY <1>1, <1>2

\* The run of AMPE begins anew, when SAE has accepted the peer.
Begins(e, g) ==
  /\ g.known = TRUE /\ g.lid = e.lid /\ g.plid = e.plid /\ g.plink \notin Confirmed
  /\ e.sae = "CONFIRMED" /\ e.own \in g.aek
  /\ g.sae = "ACCEPTED" /\ g.pmk = g.aek /\ Speaks(g, FALSE)

\* An entry is made, with a link identifier of L.
Arrives(g, f, L) ==
  /\ g.known = TRUE /\ g.lid \in L /\ g.plink \notin Confirmed
  /\ g.plid = 0 \/ Asked(g, f)
  /\ (g.sae = "ACCEPTED" /\ g.pmk = g.aek) \/ (g.sae = "COMMITTED" /\ g.aek = {})
  /\ Speaks(g, Asked(g, f))

\* The entry is freed; the peer may be told.
Leaves(e, g) ==
  /\ Left(g)
  /\ \A i \in DOMAIN g.out : g.out[i].k \notin AuthKinds =>
       e.known = TRUE /\ SaysOf(e, g.out[i], FALSE)

\* The ways in which a handler may change the link, with frame f received.
LinkStep(e, g, f, L) ==
  \/ Leaves(e, g)
  \/ e.known = TRUE /\ (Stays(e, g, f) \/ Begins(e, g))
  \/ e.known = FALSE /\ Arrives(g, f, L)

\* What one record says of its link.
LinkOk(e) ==
  /\ e.plid # 0 => e.known = TRUE
  /\ e.plink \in Confirmed => e.plid # 0
  /\ e.sae = "ACCEPTED" => e.pmk = e.aek
  /\ e.sae \in {"COMMITTED", "CONFIRMED"} => e.own \notin e.aek

LEMMA ReadyLink ==
  ASSUME NEW e, Ready(e)
  PROVE  /\ Shaped(e) /\ NoAction(e) /\ Speaks(e, FALSE) /\ Quiet(e, e)
         /\ e.known \in BOOLEAN /\ e.sae \in {"NOTHING", "COMMITTED", "CONFIRMED", "ACCEPTED"}
         /\ e.known = FALSE => e.plink = "IDLE" /\ e.sae = "NOTHING"
<1>1. Shaped(e)
  BY ReadyShaped
<1>2. NoAction(e) /\ Speaks(e, FALSE)
  BY DEF Ready, NoAction, Speaks
<1> QED BY <1>1, <1>2, Holds DEF Ready, RecInv, Pending, Keyed, Quiet, SameIds

LEMMA QuietStep ==
  ASSUME NEW e, Ready(e), LinkOk(e), NEW g, Quiet(e, g), g.plink = e.plink, g.sae = e.sae, NEW f, NEW L
  PROVE  LinkStep(e, g, f, L)
<1>1. /\ NoAction(e) /\ e.known \in BOOLEAN
      /\ e.known = FALSE => e.plink = "IDLE" /\ e.sae = "NOTHING"
  BY ReadyLink
<1>2. CASE e.known = TRUE
  BY <1>1, <1>2, QuietStays DEF LinkStep
<1>3. CASE e.known = FALSE
  BY <1>1, <1>3 DEF LinkStep, Leaves, Left, Quiet, NoAction, SameIds, LinkOk
<1> QED BY <1>1, <1>2, <1>3

LEMMA LeftStep ==
  ASSUME NEW e, NEW g, Left(g), NoAction(g), NEW f, NEW L
  PROVE  LinkStep(e, g, f, L)
BY DEF LinkStep, Leaves, NoAction

LEMMA RxCommitLink ==
  ASSUME NEW e, Ready(e), LinkOk(e), e.known = TRUE, NEW f, NEW c, NEW L
  PROVE  LinkStep(e, RxCommit(e, f, c), f, L)
<1> DEFINE h == CancelCaching(e)
           b == ParseGroup(h)
           d == [b EXCEPT !.peer = f.c]
           r == RxCommit(e, f, c)
<1>1. Shaped(e) /\ NoAction(e)
  BY ReadyLink
<1>2. Quiet(e, h)
  BY <1>1, CancelCachingQuiet
<1>0. RecInv(h)
  BY CancelCachingRec DEF Ready
<1>a. h.sae \in {"NOTHING", "COMMITTED", "CONFIRMED", "ACCEPTED"}
  BY <1>0, Holds DEF RecInv
<1> HIDE DEF h
<1>3. Quiet(h, b) /\ b.sae \in {"NOTHING", "COMMITTED", "CONFIRMED", "ACCEPTED"}
  BY <1>2, <1>a, FieldsAre DEF Quiet, Shaped, SameIds, NoAction, ParseGroup, SaeClear
<1> HIDE DEF b
<1>4. Quiet(b, d) /\ d.sae = b.sae
  BY <1>3, FieldsAre DEF Quiet, Shaped, SameIds, NoAction
<1>5. r = IF b.sae = "ACCEPTED" /\ b.acc = f.c THEN Reject(b) ELSE SaeCommit(d, c)
  BY DEF RxCommit, b, h
<1> HIDE DEF d
<1>6. Quiet(e, b) /\ Quiet(e, d)
  BY <1>2, <1>3, <1>4, QuietTrans
<1>7. CASE r = Reject(b)
  <2>1. Quiet(b, r)
    BY <1>6, <1>7, SendAuthQuiet DEF Quiet
  <2>2. Quiet(e, r)
    BY <1>6, <2>1, QuietTrans
  <2> QED BY <1>1, <2>2, QuietStays DEF LinkStep
<1>8. CASE r = SaeCommit(d, c)
  <2>1. Quiet(d, r) \/ (Left(r) /\ r.out = d.out)
    BY <1>3, <1>4, <1>6, <1>8, SaeCommitQuiet DEF Quiet
  <2>2. CASE Quiet(d, r)
    <3>1. Quiet(e, r)
      BY <1>6, <2>2, QuietTrans
    <3> QED BY <1>1, <3>1, QuietStays DEF LinkStep
  <2>3. CASE Left(r) /\ r.out = d.out
    <3>1. NoAction(r)
      BY <1>1, <1>6, <2>3 DEF Quiet, NoAction
    <3> QED BY <2>3, <3>1, LeftStep
  <2> QED BY <2>1, <2>2, <2>3
<1> QED BY <1>5, <1>7, <1>8

LEMMA RxConfirmLink ==
  ASSUME NEW e, Ready(e), LinkOk(e), e.known = TRUE, NEW f, NEW n, NEW L
  PROVE  LinkStep(e, RxConfirm(e, f, n), f, L)
<1> DEFINE g == CancelCaching(e)
           r == RxConfirm(e, f, n)
<1>1. Shaped(e) /\ NoAction(e) /\ SaeOk(e)
  BY ReadyLink DEF Ready
<1>2. Quiet(e, g) /\ Kept(e, g)
  BY <1>1, CancelCachingQuiet, CancelCachingKeeps
<1>3. r = CASE g.sae = "NOTHING" -> g
            [] g.sae = "COMMITTED" /\ BigSync(g) -> [ToNothing(g) EXCEPT !.retr = FALSE]
            [] g.sae = "COMMITTED" /\ ~BigSync(g) ->
                 SendCommit([g EXCEPT !.sync = @ + 1, !.retr = TRUE])
            [] g.sae = "CONFIRMED" /\ Verified(g, f) -> AcceptSta([g EXCEPT !.retr = FALSE], n)
            [] OTHER -> Reject(g)
  BY DEF RxConfirm
<1> SUFFICES LinkStep(e, r, f, L)
  OBVIOUS
<1> HIDE DEF g, r
<1>4. ASSUME Quiet(g, r) PROVE LinkStep(e, r, f, L)
  <2>1. Quiet(e, r)
    BY <1>2, <1>4, QuietTrans
  <2> QED BY <1>1, <2>1, QuietStays DEF LinkStep
<1>5. CASE r = g
  BY <1>1, <1>2, <1>5, QuietStays DEF LinkStep
<1>6. CASE r = [ToNothing(g) EXCEPT !.retr = FALSE]
  <2>1. Quiet(g, r)
    BY <1>2, <1>6, FieldsAre DEF Quiet, Shaped, SameIds, NoAction, ToNothing
  <2> QED BY <1>4, <2>1
<1>7. CASE r = SendCommit([g EXCEPT !.sync = @ + 1, !.retr = TRUE])
  <2> DEFINE d == [g EXCEPT !.sync = @ + 1, !.retr = TRUE]
  <2>1. Quiet(g, d)
    BY <1>2, FieldsAre DEF Quiet, Shaped, SameIds, NoAction
  <2>2. r = SendCommit(d)
    BY <1>7
  <2> HIDE DEF d
  <2>3. Quiet(d, r)
    BY <2>1, <2>2, SendAuthQuiet DEF Quiet
  <2> QED BY <1>4, <2>1, <2>3, QuietTrans
<1>8. CASE r = Reject(g)
  BY <1>2, <1>4, <1>8, SendAuthQuiet DEF Quiet
<1>9. CASE g.sae = "CONFIRMED" /\ r = AcceptSta([g EXCEPT !.retr = FALSE], n)
  <2> DEFINE d == [g EXCEPT !.retr = FALSE]
  <2>1. Shaped(d) /\ NoAction(d) /\ SameIds(g, d) /\ d.pmk = g.pmk
    BY <1>1, <1>2, FieldsAre DEF Quiet, Shaped, SameIds, NoAction
  <2>2. r = AcceptSta(d, n)
    BY <1>9
  <2> HIDE DEF d
  <2>3. /\ Shaped(r) /\ r.known = d.known /\ r.lid = d.lid /\ r.plid = d.plid
        /\ r.aek = d.pmk /\ r.pmk = d.pmk /\ r.sae = "ACCEPTED" /\ r.plink = "OPN_SNT"
        /\ Speaks(r, FALSE)
    BY <2>1, <2>2, AcceptLink
  <2>4. d.known = TRUE /\ d.lid = e.lid /\ d.plid = e.plid /\ d.pmk = e.pmk /\ e.sae = "CONFIRMED"
    BY <1>2, <1>9, <2>1 DEF Quiet, SameIds, Kept
  <2>5. e.own \in e.pmk
    BY <1>1, <2>4 DEF SaeOk
  <2> QED BY <2>3, <2>4, <2>5 DEF LinkStep, Begins, Confirmed
<1> QED BY <1>3, <1>5, <1>6, <1>7, <1>8, <1>9

LEMMA RetransmitTimerLink ==
  ASSUME NEW e, Ready(e), LinkOk(e), NEW f, NEW L
  PROVE  LinkStep(e, RetransmitTimer(e), f, L)
<1> DEFINE g == [e EXCEPT !.retr = FALSE]
           s == [g EXCEPT !.sync = @ + 1]
           r == [s EXCEPT !.retr = TRUE]
           t == RetransmitTimer(e)
<1>1. /\ Shaped(e) /\ NoAction(e) /\ e.known \in BOOLEAN
      /\ e.known = FALSE => e.plink = "IDLE" /\ e.sae = "NOTHING"
  BY ReadyLink
<1>2. Quiet(e, g) /\ Quiet(e, s) /\ Quiet(e, r) /\ g.plink = e.plink /\ g.sae = e.sae
      /\ s.plink = e.plink /\ r.plink = e.plink /\ s.sae = e.sae /\ r.sae = e.sae
  BY <1>1, FieldsAre DEF Quiet, Shaped, SameIds, NoAction
<1>3. t = IF BigSync(g) THEN ToNothing(g)
          ELSE CASE s.sae = "COMMITTED" -> SendCommit(r)
                 [] s.sae = "CONFIRMED" -> SendConfirm(r)
                 [] OTHER -> s
  BY DEF RetransmitTimer
<1> SUFFICES LinkStep(e, t, f, L)
  OBVIOUS
<1> HIDE DEF g, s, r, t
<1>4. Quiet(e, t) /\ t.plink = e.plink /\ (t.sae = e.sae \/ t.sae = "NOTHING")
  <2>1. CASE t = ToNothing(g)
    <3>1. Quiet(g, t) /\ t.plink = g.plink /\ t.sae = "NOTHING"
      BY <1>2, <2>1, FieldsAre DEF Quiet, Shaped, SameIds, NoAction, ToNothing
    <3> QED BY <1>2, <3>1, QuietTrans
  <2>2. CASE t = s
    BY <1>2, <2>2
  <2>3. CASE t \in {SendCommit(r), SendConfirm(r)}
    <3>1. Quiet(r, t) /\ t.plink = r.plink /\ t.sae = r.sae
      BY <1>2, <2>3, SendAuthQuiet, FieldsAre DEF Quiet
    <3> QED BY <1>2, <3>1, QuietTrans
  <2> QED BY <1>3, <2>1, <2>2, <2>3
<1>5. CASE e.known = TRUE
  BY <1>1, <1>4, <1>5, QuietStays DEF LinkStep
<1>6. CASE e.known = FALSE
  <2>1. t.sae = e.sae
    BY <1>1, <1>4, <1>6
  <2> QED BY <1>4, <2>1, QuietStep
<1> QED BY <1>1, <1>5, <1>6

LEMMA AuthTimerLink ==
  ASSUME NEW e, Ready(e), LinkOk(e), e.auth = TRUE, NEW c, NEW n, NEW f, NEW L
  PROVE  LinkStep(e, AuthTimer(e, c, n), f, L)
<1> DEFINE g == [e EXCEPT !.auth = FALSE]
           t == AuthTimer(e, c, n)
<1>1. Shaped(e) /\ NoAction(e) /\ e.cache = {} /\ e.known = TRUE
  BY ReadyLink DEF Ready, SaeOk, RecInv, Pending
<1>2. Quiet(e, g) /\ g.cache = {} /\ Shaped(g) /\ NoAction(g)
  BY <1>1, FieldsAre DEF Quiet, Shaped, SameIds, NoAction
<1>3. t = IF g.sae = "ACCEPTED" THEN g
          ELSE IF g.tries < AuthRetry THEN [AuthSae(g, c, n) EXCEPT !.tries = @ + 1]
          ELSE IF g.tries = AuthRetry
            THEN [g EXCEPT !.plink = "BLOCKED", !.sae = "NOTHING", !.tries = @ + 1]
          ELSE FreeSta(g)
  BY DEF AuthTimer
<1> SUFFICES LinkStep(e, t, f, L)
  OBVIOUS
<1> HIDE DEF g, t
<1>4. ASSUME Quiet(e, t) PROVE LinkStep(e, t, f, L)
  BY <1>1, <1>4, QuietStays DEF LinkStep
<1>5. CASE t = g
  BY <1>2, <1>4, <1>5
<1>6. CASE t = [AuthSae(g, c, n) EXCEPT !.tries = @ + 1]
  <2> DEFINE a == AuthSae(g, c, n)
  <2>1. Quiet(g, a)
    BY <1>2, AuthSaeLink
  <2>2. t = [a EXCEPT !.tries = @ + 1]
    BY <1>6
  <2> HIDE DEF a
  <2>3. Quiet(a, t)
    BY <2>1, <2>2, FieldsAre DEF Quiet, Shaped, SameIds, NoAction
  <2> QED BY <1>2, <1>4, <2>1, <2>3, QuietTrans
<1>7. CASE t = [g EXCEPT !.plink = "BLOCKED", !.sae = "NOTHING", !.tries = @ + 1]
  <2>1. Quiet(g, t)
    BY <1>2, <1>7, FieldsAre DEF Quiet, Shaped, SameIds, NoAction, Confirmed
  <2> QED BY <1>2, <1>4, <2>1, QuietTrans
<1>8. CASE t = FreeSta(g)
  <2>1. Left(t) /\ NoAction(t)
    BY <1>2, <1>8, FreeStaLeft DEF NoAction
  <2> QED BY <2>1, LeftStep
<1> QED BY <1>3, <1>5, <1>6, <1>7, <1>8

\* g is an entry that has just been made; its SAE is over if a PMKSA was cached.
Made(g, l, cached) ==
  /\ Shaped(g) /\ g.known = TRUE /\ g.lid = l /\ g.plid = 0 /\ g.plink \notin Confirmed
  /\ (g.sae = "ACCEPTED" /\ g.pmk = g.aek) \/ (g.sae = "COMMITTED" /\ g.aek = {})
  /\ Speaks(g, FALSE)
  /\ cached => g.sae = "ACCEPTED" /\ g.plink = "OPN_SNT"

LEMMA AddPeerLink ==
  ASSUME NEW e, NEW l, NEW c, NEW n
  PROVE  Made(AuthSae(AddPeer(e, l), c, n), l, e.cache # {})
<1> DEFINE b == AddPeer(e, l)
           g == AuthSae(b, c, n)
<1> SUFFICES Made(g, l, e.cache # {})
  OBVIOUS
<1>1. /\ Shaped(b) /\ NoAction(b) /\ b.known = TRUE /\ b.lid = l /\ b.plid = 0 /\ b.plink = "IDLE"
      /\ b.aek = {} /\ b.cache = e.cache
  BY FieldsAre DEF AddPeer, NoEntry, Shaped, NoAction
<1> HIDE DEF b
<1>2. CASE e.cache = {}
  <2>1. Quiet(b, g) /\ g.sae = "COMMITTED"
    BY <1>1, <1>2, AuthSaeLink
  <2> HIDE DEF g
  <2>2. Speaks(g, FALSE)
    BY <1>1, <2>1 DEF Quiet, NoAction, Speaks
  <2>3. /\ Shaped(g) /\ g.known = TRUE /\ g.lid = l /\ g.plid = 0 /\ g.plink \notin Confirmed
        /\ g.aek = {}
    BY <1>1, <2>1 DEF Quiet, SameIds, Confirmed
  <2> QED BY <1>2, <2>1, <2>2, <2>3 DEF Made
<1>3. CASE e.cache # {}
  <2>1. /\ Shaped(g) /\ g.known = b.known /\ g.lid = b.lid /\ g.plid = b.plid
        /\ g.sae = "ACCEPTED" /\ g.pmk = g.aek /\ g.plink = "OPN_SNT" /\ Speaks(g, FALSE)
    BY <1>1, <1>3, AuthSaeLink
  <2> HIDE DEF g
  <2>2. g.plink \notin Confirmed
    BY <2>1 DEF Confirmed
  <2> QED BY <1>1, <2>1, <2>2 DEF Made
<1> QED BY <1>2, <1>3

LEMMA NewPeerLink ==
  ASSUME NEW e, Ready(e), e.known = FALSE, NEW L, NEW l \in L, NEW c, NEW n, NEW f
  PROVE  LinkStep(e, AuthSae(AddPeer(e, l), c, n), f, L)
<1> DEFINE g == AuthSae(AddPeer(e, l), c, n)
<1>0. Made(g, l, e.cache # {})
  BY AddPeerLink
<1> SUFFICES LinkStep(e, g, f, L)
  OBVIOUS
<1> HIDE DEF g
<1>2. /\ g.known = TRUE /\ g.lid = l /\ g.plid = 0 /\ g.plink \notin Confirmed
      /\ (g.sae = "ACCEPTED" /\ g.pmk = g.aek) \/ (g.sae = "COMMITTED" /\ g.aek = {})
      /\ Speaks(g, FALSE)
  BY <1>0 DEF Made
<1>3. Asked(g, f) \in BOOLEAN
  BY DEF Asked
<1>4. Speaks(g, Asked(g, f))
  BY <1>2, <1>3, SpeaksWeaker
<1> QED BY <1>2, <1>4 DEF LinkStep, Arrives

LEMMA RxActionLink ==
  ASSUME NEW e, Ready(e), LinkOk(e), NEW f, IsAction(f), NEW L, NEW l \in L, NEW n
  PROVE  LinkStep(e, RxAction(e, f, l, n), f, L)
<1> DEFINE r == RxAction(e, f, l, n)
<1>1. /\ Shaped(e) /\ NoAction(e) /\ Speaks(e, FALSE) /\ Quiet(e, e) /\ e.known \in BOOLEAN
  BY ReadyLink
<1>2. CASE r = e
  BY <1>1, <1>2, QuietStep
<1>3. CASE e.known = TRUE /\ e.sae = "ACCEPTED" /\ r = RxAmpe(e, f)
  <2>1. e.pmk = e.aek /\ (e.plink = "ESTAB" => e.plid # 0)
    BY <1>3 DEF LinkOk, Confirmed
  <2>2. Stays(e, r, f) \/ (Left(r) /\ r.out = e.out)
    <3>1. \/ Stays(e, RxAmpe(e, f), f)
          \/ Left(RxAmpe(e, f)) /\ RxAmpe(e, f).out = e.out
      BY <1>1, <2>1, RxAmpeLink
    <3> QED BY <1>3, <3>1
  <2>3. CASE Left(r) /\ r.out = e.out
    <3>1. NoAction(r)
      BY <1>1, <2>3 DEF NoAction
    <3> QED BY <2>3, <3>1, LeftStep
  <2> QED BY <1>3, <2>2, <2>3 DEF LinkStep
<1>4. CASE e.known = FALSE /\ f.k = "open" /\ e.cache # {} /\ r = RxAmpe(AuthSae(AddPeer(e, l), 0, n), f)
  <2> DEFINE g == AuthSae(AddPeer(e, l), 0, n)
  <2>0. Made(g, l, e.cache # {})
    BY AddPeerLink
  <2>1. /\ Shaped(g) /\ g.known = TRUE /\ g.lid = l /\ g.plid = 0 /\ g.sae = "ACCEPTED"
        /\ g.pmk = g.aek /\ g.plink = "OPN_SNT" /\ Speaks(g, FALSE)
    <3> HIDE DEF g
    <3> QED BY <1>4, <2>0 DEF Made, Confirmed
  <2>2. r = RxAmpe(g, f)
    BY <1>4
  <2> HIDE DEF g, r
  <2>3. Stays(g, r, f) /\ r.sae = g.sae /\ r.pmk = g.pmk
    <3>1. \/ Stays(g, RxAmpe(g, f), f) /\ RxAmpe(g, f).sae = g.sae /\ RxAmpe(g, f).pmk = g.pmk
          \/ g.plink \in {"IDLE", "HOLDING"} /\ Left(RxAmpe(g, f)) /\ RxAmpe(g, f).out = g.out
      BY <2>1, RxAmpeLink
    <3> QED BY <2>1, <2>2, <3>1
  <2>4. r.known = TRUE /\ r.lid = l /\ Speaks(r, Asked(r, f)) /\ r.plink \notin Confirmed
    BY <1>4, <2>1, <2>3 DEF Stays, Confirmed
  <2>5. r.plid = 0 \/ Asked(r, f)
    BY <1>4, <2>1, <2>3 DEF Stays, Binds, Asked
  <2>7. r.sae = "ACCEPTED" /\ r.pmk = r.aek
    BY <2>1, <2>3 DEF Stays
  <2>8. LinkStep(e, r, f, L)
    BY <1>4, <2>4, <2>5, <2>7 DEF LinkStep, Arrives
  <2> QED BY <2>8 DEF r
<1> QED BY <1>1, <1>2, <1>3, <1>4 DEF RxAction

LEMMA PlinkTimerLink ==
  ASSUME NEW e, Ready(e), LinkOk(e), NEW f, NEW L
  PROVE  LinkStep(e, PlinkTimer(e), f, L)
<1> DEFINE g == [e EXCEPT !.ptm = @ - 1]
           t == PlinkTimer(e)
<1>1. /\ Shaped(e) /\ NoAction(e) /\ e.known \in BOOLEAN
      /\ e.known = FALSE => e.plink = "IDLE"
  BY ReadyLink
<1>2. Quiet(e, g) /\ g.plink = e.plink /\ g.sae = e.sae /\ g.pmk = e.pmk /\ g.out = e.out /\ g.mtk = e.mtk
  BY <1>1, FieldsAre DEF Quiet, Shaped, SameIds, NoAction
<1>3. t = CASE g.plink \in {"OPN_SNT", "OPN_RCVD"} /\ g.retries < MaxRetries ->
                 [SendAction(g, "open") EXCEPT !.ptm = @ + 1, !.retries = @ + 1]
            [] g.plink = "CNF_RCVD" \/ (g.plink \in Opening /\ g.retries >= MaxRetries) -> Hold(g)
            [] g.plink = "HOLDING" -> FreeSta(IF g.caching THEN [g EXCEPT !.cache = {}] ELSE g)
            [] OTHER -> g
  BY DEF PlinkTimer
<1> SUFFICES LinkStep(e, t, f, L)
  OBVIOUS
<1> HIDE DEF g, t
<1>4. Shaped(g) /\ Chat(e, g, FALSE)
  BY <1>1, <1>2, SetChat DEF Quiet
<1>5. CASE g.plink \in {"OPN_SNT", "OPN_RCVD"}
           /\ t = [SendAction(g, "open") EXCEPT !.ptm = @ + 1, !.retries = @ + 1]
  <2> DEFINE h == SendAction(g, "open")
  <2>1. Chat(g, h, FALSE) /\ h.plink = g.plink /\ h.mtk = g.mtk
    BY <1>4, SendActionChat, FieldsAre
  <2>2. t = [h EXCEPT !.ptm = @ + 1, !.retries = @ + 1]
    BY <1>5
  <2> HIDE DEF h
  <2>3. Shaped(t) /\ SameIds(h, t) /\ t.sae = h.sae /\ t.pmk = h.pmk /\ t.out = h.out
        /\ t.plink = h.plink /\ t.mtk = h.mtk
    BY <2>1, <2>2, FieldsAre DEF Chat, Shaped, SameIds
  <2>4. Chat(h, t, FALSE)
    BY <2>1, <2>3, SetChat DEF Chat
  <2>5. Chat(e, t, FALSE) /\ t.plink = e.plink /\ t.mtk = e.mtk
    BY <1>2, <1>4, <2>1, <2>3, <2>4, ChatTrans
  <2>6. e.known = TRUE
    BY <1>1, <1>2, <1>5
  <2> QED BY <1>1, <2>5, <2>6, ChatStays DEF LinkStep
<1>6. CASE g.plink \in Opening /\ t = Hold(g)
  <2> DEFINE h == [g EXCEPT !.plink = "HOLDING", !.num = PlinkLeft(g), !.ptm = @ + 1]
  <2>1. /\ Shaped(h) /\ SameIds(g, h) /\ h.sae = g.sae /\ h.pmk = g.pmk /\ h.out = g.out
        /\ h.plink = "HOLDING"
    BY <1>4, FieldsAre DEF Shaped, SameIds
  <2>2. t = SendAction(h, "close")
    BY <1>6 DEF Hold
  <2> HIDE DEF h
  <2>3. Chat(g, h, FALSE)
    BY <1>4, <2>1, SetChat
  <2>4. Chat(h, t, FALSE) /\ t.plink = "HOLDING"
    BY <2>1, <2>2, SendActionChat, FieldsAre
  <2>5. Chat(e, t, FALSE)
    BY <1>4, <2>3, <2>4, ChatTrans
  <2>6. e.known = TRUE
    BY <1>1, <1>2, <1>6 DEF Opening
  <2> QED BY <1>1, <2>4, <2>5, <2>6, ChatStays DEF LinkStep, Confirmed
<1>7. CASE t \in {FreeSta(g), FreeSta([g EXCEPT !.cache = {}])}
  <2> DEFINE h == [g EXCEPT !.cache = {}]
  <2>1. Shaped(h) /\ h.out = g.out
    BY <1>4, FieldsAre DEF Shaped
  <2> HIDE DEF h
  <2>2. t \in {FreeSta(g), FreeSta(h)}
    BY <1>7 DEF h
  <2>3. Left(t) /\ t.out = e.out
    BY <1>2, <1>4, <2>1, <2>2, FreeStaLeft
  <2>4. NoAction(t)
    BY <1>1, <2>3 DEF NoAction
  <2> QED BY <2>3, <2>4, LeftStep
<1>8. CASE t = g
  BY <1>2, <1>8, QuietStep
<1>9. "CNF_RCVD" \in Opening
  BY DEF Opening
<1> QED BY <1>3, <1>5, <1>6, <1>7, <1>8, <1>9

LEMMA PlinkCloseLink ==
  ASSUME NEW e, Ready(e), e.known = TRUE, NEW f
  PROVE  Stays(e, PlinkClose(e), f) /\ Speaks(PlinkClose(e), FALSE) /\ SameIds(e, PlinkClose(e))
<1> DEFINE g == [e EXCEPT !.plink = "HOLDING", !.num = PlinkLeft(e)]
           h == SendAction(g, "close")
           d == [h EXCEPT !.ptm = 0, !.auth = FALSE, !.removed = TRUE]
<1>1. Shaped(e) /\ NoAction(e) /\ Speaks(e, FALSE)
  BY ReadyLink
<1>2. /\ Shaped(g) /\ SameIds(e, g) /\ g.sae = e.sae /\ g.pmk = e.pmk /\ g.out = e.out
      /\ g.plink = "HOLDING"
  BY <1>1, FieldsAre DEF Shaped, SameIds
<1> HIDE DEF g
<1>3. Chat(e, g, FALSE)
  BY <1>1, <1>2, SetChat
<1>4. Chat(g, h, FALSE) /\ h.plink = "HOLDING"
  BY <1>2, SendActionChat, FieldsAre
<1> HIDE DEF h
<1>5. /\ Shaped(d) /\ SameIds(h, d) /\ d.sae = h.sae /\ d.pmk = h.pmk /\ d.out = h.out
      /\ d.plink = "HOLDING"
  BY <1>4, FieldsAre DEF Chat, Shaped, SameIds
<1>6. PlinkClose(e) = d
  BY DEF PlinkClose, h, g
<1> HIDE DEF d
<1>7. Chat(h, d, FALSE)
  BY <1>4, <1>5, SetChat DEF Chat
<1>8. Chat(e, d, FALSE)
  BY <1>3, <1>4, <1>7, ChatTrans
<1>9. d.plink \notin Confirmed
  BY <1>5 DEF Confirmed
<1>10. Stays(e, d, f)
  BY <1>1, <1>8, <1>9, ChatStays
<1> QED BY <1>1, <1>6, <1>8, <1>10 DEF Chat

----------------------------------------------------------------------------
(* The two ends of a link: e is a station's record and d the other station's,  *)
(* X the peering frames on their way to e's station, Y those on their way to   *)
(* d's.                                                                        *)

InSae(e) == e.sae \in {"COMMITTED", "CONFIRMED"}

\* The frames of this link carry its values; those of its run of AMPE, its nonce.
Honest(e, Y) ==
  e.known = TRUE => \A f \in Y : f.lid = e.lid => /\ f.plid \in {0, e.plid}
                                                  /\ f.aek = e.aek => f.n = e.n

\* Nobody speaks, or has answered, under a key of a commit not accepted yet.
Secret(e, d, X, Y) ==
  InSae(e) => /\ \A f \in Y : e.own \notin f.aek
              /\ \A f \in X : f.k = "cnf" => e.own \notin f.aek
              /\ d.plink \in Confirmed /\ d.plid = e.lid => e.own \notin d.aek

\* The peer has learnt of this link.
Reached(e, d, X) ==
  d.plid = e.lid \/ (\E f \in X : f.plid = e.lid) \/ e.plink \in Confirmed

\* From then on, no frame of an earlier link is on its way.
Current(e, d, X, Y) ==
  e.known = TRUE /\ Reached(e, d, X) => (\A f \in Y : f.lid = e.lid) /\ d.plid \in {0, e.lid}

\* The peer has confirmed this link for this run of AMPE, or is about to.
Evidence(e, d, X) ==
  \/ e.plink \in Confirmed /\ e.plid = d.lid
  \/ \E f \in X : f.k = "cnf" /\ f.lid = d.lid /\ f.plid = e.lid /\ f.aek = e.aek

Answered(e, d, X) ==
  e.known = TRUE /\ d.known = TRUE /\ Evidence(e, d, X) => d.plid = e.lid

SameKey(e, d, X, Y) ==
  e.known = TRUE /\ d.known = TRUE /\ Evidence(e, d, X) /\ Evidence(d, e, Y) => e.aek = d.aek

\* The key in the driver is the one of this link.
Installed(e, d) ==
  e.plink = "ESTAB" /\ d.known = TRUE /\ e.plid = d.lid /\ e.aek = d.aek =>
    e.mtk = <<e.aek, InOrder(e.n, d.n), InOrder(e.lid, e.plid)>>

LinkEnd(e, d, X, Y) ==
  /\ LinkOk(e) /\ Honest(e, Y) /\ Secret(e, d, X, Y) /\ Current(e, d, X, Y)
  /\ Answered(e, d, X) /\ Installed(e, d)

\* One station's record changes from e to g while the frame f is handled.
Turn(e, g, d, f, L, X, Y, X1, Y1) ==
  /\ LinkStep(e, g, f, L)
  /\ X1 \subseteq X
  /\ \A y \in Y1 : y \in Y \/ \E i \in DOMAIN g.out : y = g.out[i] /\ y.k \notin AuthKinds
  /\ f.k \in {"open", "cnf"} => f \in X /\ (d.known = TRUE /\ f.lid = d.lid => \A x \in X1 : x.lid = d.lid)
  /\ \A x \in X : x.lid # 0
  /\ \A l \in L : l # 0 /\ d.plid # l /\ \A x \in X \cup Y : x.lid # l /\ x.plid # l
  /\ InSae(g) => \/ InSae(e) /\ g.own = e.own
                 \/ g.own \notin e.aek \cup d.aek /\ \A x \in X \cup Y : g.own \notin x.aek
  /\ e.known = TRUE => e.lid # 0
  /\ d.known = TRUE => d.lid # 0
  /\ e.known = FALSE => e.sae = "NOTHING"

LEMMA TurnSent ==
  ASSUME NEW e, NEW g, NEW d, NEW f, NEW L, NEW X, NEW Y, NEW X1, NEW Y1,
         Turn(e, g, d, f, L, X, Y, X1, Y1), NEW y \in Y1, y \notin Y
  PROVE  /\ Leaves(e, g) => e.known = TRUE /\ SaysOf(e, y, FALSE)
         /\ Stays(e, g, f) \/ Arrives(g, f, L) => SaysOf(g, y, Asked(g, f))
         /\ Begins(e, g) => SaysOf(g, y, FALSE)
<1>1. PICK i \in DOMAIN g.out : y = g.out[i] /\ y.k \notin AuthKinds
  BY DEF Turn
<1> QED BY <1>1 DEF Leaves, Stays, Arrives, Begins, Speaks

LEMMA LeaveEnds ==
  ASSUME NEW e, NEW g, NEW d, NEW f, NEW L, NEW X, NEW Y, NEW X1, NEW Y1,
         Turn(e, g, d, f, L, X, Y, X1, Y1), LinkEnd(e, d, X, Y), LinkEnd(d, e, Y, X), Leaves(e, g)
  PROVE  LinkEnd(g, d, X1, Y1) /\ LinkEnd(d, g, Y1, X1) /\ SameKey(g, d, X1, Y1)
<1>1. g.known = FALSE /\ g.plid = 0 /\ g.plink = "IDLE" /\ g.sae = "NOTHING"
  BY DEF Leaves, Left
<1>2. LinkEnd(g, d, X1, Y1) /\ SameKey(g, d, X1, Y1)
  BY <1>1 DEF LinkEnd, LinkOk, Honest, Secret, Current, Answered, Installed, InSae, Confirmed, SameKey
<1>3. \A y \in Y1 : y \in Y \/ (e.known = TRUE /\ SaysOf(e, y, FALSE))
  BY TurnSent
<1>4. X1 \subseteq X /\ (d.known = TRUE => d.lid # 0)
  BY DEF Turn
<1>5. LinkOk(d) /\ Honest(d, X1) /\ Answered(d, g, Y1) /\ Installed(d, g)
  BY <1>1, <1>4 DEF LinkEnd, Honest, Answered, Installed
<1>6. Secret(d, g, Y1, X1)
  BY <1>1, <1>3, <1>4 DEF LinkEnd, Secret, SaysOf, LinkOk, Confirmed
<1>7. Current(d, g, Y1, X1)
  <2> SUFFICES ASSUME d.known = TRUE, Reached(d, g, Y1) PROVE Reached(d, e, Y)
    BY <1>1, <1>4 DEF LinkEnd, Current
  <2> QED BY <1>1, <1>3, <1>4 DEF Reached, SaysOf
<1> QED BY <1>2, <1>5, <1>6, <1>7 DEF LinkEnd

LEMMA StayOwnEnd ==
  ASSUME NEW e, NEW g, NEW d, NEW f, NEW L, NEW X, NEW Y, NEW X1, NEW Y1,
         Turn(e, g, d, f, L, X, Y, X1, Y1), LinkEnd(e, d, X, Y), LinkEnd(d, e, Y, X),
         e.known = TRUE, Stays(e, g, f)
  PROVE  LinkEnd(g, d, X1, Y1) /\ (Evidence(g, d, X1) => Evidence(e, d, X))
<1>1. g.known = TRUE /\ g.lid = e.lid /\ g.n = e.n /\ g.aek = e.aek
  BY DEF Stays
<1>2. \A y \in Y1 : y \in Y \/ SaysOf(g, y, Asked(g, f))
  BY TurnSent
<1>3. /\ X1 \subseteq X /\ (d.known = TRUE => d.lid # 0) /\ e.lid # 0
      /\ f.k \in {"open", "cnf"} =>
           f \in X /\ f.lid # 0 /\ (d.known = TRUE /\ f.lid = d.lid => \A x \in X1 : x.lid = d.lid)
  BY DEF Turn
<1>4. LinkOk(e) /\ LinkOk(d)
  BY DEF LinkEnd
<1>5. g.plid = e.plid \/ (e.plid = 0 /\ g.plid = f.lid /\ f.k \in {"open", "cnf"} /\ f.aek = g.aek)
  BY DEF Stays, Binds
<1>6. g.plink \in Confirmed =>
        \/ e.plink \in Confirmed /\ g.plid = e.plid
        \/ f \in X /\ f.k = "cnf" /\ f.plid = e.lid /\ f.lid = g.plid /\ f.aek = e.aek
  BY <1>3, <1>4, <1>5 DEF Stays, LinkOk
<1>7. InSae(g) => \/ InSae(e) /\ g.own = e.own
                  \/ g.own \notin e.aek \cup d.aek /\ \A x \in X \cup Y : g.own \notin x.aek
  BY DEF Turn
<1>8. LinkOk(g)
  <2>1. g.plink \in Confirmed => g.plid # 0
    BY <1>3, <1>4, <1>6 DEF LinkOk
  <2>2. InSae(g) => g.own \notin g.aek
    BY <1>1, <1>4, <1>7 DEF LinkOk, InSae
  <2>3. g.sae = "ACCEPTED" => g.pmk = g.aek
    BY <1>1, <1>4 DEF LinkOk, Stays
  <2> QED BY <1>1, <2>1, <2>2, <2>3 DEF LinkOk, InSae
<1>9. Honest(g, Y1)
  <2>1. \A y \in Y : y.lid = e.lid => y.plid \in {0, e.plid} /\ (y.aek = e.aek => y.n = e.n)
    BY DEF LinkEnd, Honest
  <2> QED BY <1>1, <1>2, <1>5, <2>1 DEF Honest, SaysOf
<1>10. Secret(g, d, X1, Y1)
  <2> SUFFICES ASSUME InSae(g)
               PROVE  /\ \A y \in Y1 : g.own \notin y.aek
                      /\ \A x \in X1 : x.k = "cnf" => g.own \notin x.aek
                      /\ d.plink \in Confirmed /\ d.plid = g.lid => g.own \notin d.aek
    BY DEF Secret
  <2>1. g.own \notin g.aek
    BY <1>8 DEF LinkOk, InSae
  <2>2. /\ \A y \in Y : g.own \notin y.aek
        /\ \A x \in X : x.k = "cnf" => g.own \notin x.aek
        /\ d.plink \in Confirmed /\ d.plid = g.lid => g.own \notin d.aek
    BY <1>1, <1>7 DEF LinkEnd, Secret
  <2> QED BY <1>2, <1>3, <2>1, <2>2 DEF SaysOf
<1>11. Current(g, d, X1, Y1)
  <2> SUFFICES ASSUME Reached(g, d, X1)
               PROVE  (\A y \in Y1 : y.lid = g.lid) /\ d.plid \in {0, g.lid}
    BY DEF Current
  <2>1. Reached(e, d, X)
    BY <1>1, <1>3, <1>6 DEF Reached
  <2>2. (\A y \in Y : y.lid = e.lid) /\ d.plid \in {0, e.lid}
    BY <2>1 DEF LinkEnd, Current
  <2> QED BY <1>1, <1>2, <2>2 DEF SaysOf
<1>12. Evidence(g, d, X1) => Evidence(e, d, X)
  BY <1>1, <1>3, <1>6 DEF Evidence
<1>13. Answered(g, d, X1)
  BY <1>1, <1>12 DEF LinkEnd, Answered
<1>14. Installed(g, d)
  <2> SUFFICES ASSUME g.plink = "ESTAB", d.known = TRUE, g.plid = d.lid, g.aek = d.aek
               PROVE  g.mtk = <<g.aek, InOrder(g.n, d.n), InOrder(g.lid, g.plid)>>
    BY DEF Installed
  <2>1. CASE e.plink = "ESTAB" /\ g.mtk = e.mtk /\ g.plid = e.plid
    BY <1>1, <2>1 DEF LinkEnd, Installed
  <2>2. CASE /\ f.k \in {"open", "cnf"} /\ f.lid = g.plid /\ f.aek = e.aek
             /\ g.mtk = <<e.aek, InOrder(e.n, f.n), InOrder(e.lid, g.plid)>>
    <3>1. f.n = d.n
      BY <1>1, <1>3, <2>2 DEF LinkEnd, Honest
    <3> QED BY <1>1, <2>2, <3>1
  <2> QED BY <2>1, <2>2 DEF Stays
<1> QED BY <1>8, <1>9, <1>10, <1>11, <1>12, <1>13, <1>14 DEF LinkEnd

LEMMA StayPeerEnd ==
  ASSUME NEW e, NEW g, NEW d, NEW f, NEW L, NEW X, NEW Y, NEW X1, NEW Y1,
         Turn(e, g, d, f, L, X, Y, X1, Y1), LinkEnd(e, d, X, Y), LinkEnd(d, e, Y, X),
         SameKey(e, d, X, Y), e.known = TRUE, Stays(e, g, f)
  PROVE  LinkEnd(d, g, Y1, X1) /\ SameKey(g, d, X1, Y1)
<1>1. g.known = TRUE /\ g.lid = e.lid /\ g.n = e.n /\ g.aek = e.aek
  BY DEF Stays
<1>2. \A y \in Y1 : y \in Y \/ SaysOf(g, y, Asked(g, f))
  BY TurnSent
<1>3. /\ X1 \subseteq X /\ (d.known = TRUE => d.lid # 0) /\ e.lid # 0
      /\ f.k \in {"open", "cnf"} =>
           f \in X /\ f.lid # 0 /\ (d.known = TRUE /\ f.lid = d.lid => \A x \in X1 : x.lid = d.lid)
  BY DEF Turn
<1>4. g.plid = e.plid \/ (e.plid = 0 /\ g.plid = f.lid /\ f.k \in {"open", "cnf"} /\ f.aek = g.aek)
  BY DEF Stays, Binds
<1>5. LinkOk(d) /\ Honest(d, X1)
  BY <1>3 DEF LinkEnd, Honest
<1>6. g.plink \in Confirmed =>
        \/ e.plink \in Confirmed /\ g.plid = e.plid
        \/ f \in X /\ f.k = "cnf" /\ f.lid = g.plid /\ f.aek = e.aek
  BY <1>3, <1>4 DEF Stays, LinkOk, LinkEnd
<1>7. Secret(d, g, Y1, X1)
  <2> SUFFICES ASSUME InSae(d)
               PROVE  /\ \A x \in X1 : d.own \notin x.aek
                      /\ \A y \in Y1 : y.k = "cnf" => d.own \notin y.aek
                      /\ g.plink \in Confirmed /\ g.plid = d.lid => d.own \notin g.aek
    BY DEF Secret
  <2>1. /\ \A x \in X : d.own \notin x.aek
        /\ \A y \in Y : y.k = "cnf" => d.own \notin y.aek
        /\ e.plink \in Confirmed /\ e.plid = d.lid => d.own \notin e.aek
    BY DEF LinkEnd, Secret
  <2>2. ASSUME NEW y \in Y1, y.k = "cnf" PROVE d.own \notin y.aek
    <3>1. CASE y \in Y
      BY <2>1, <2>2, <3>1
    <3>2. CASE SaysOf(g, y, Asked(g, f))
      <4>1. f \in X /\ y.aek = f.aek
        BY <1>3, <2>2, <3>2 DEF SaysOf, Asked
      <4> QED BY <2>1, <4>1
    <3> QED BY <1>2, <3>1, <3>2
  <2> QED BY <1>1, <1>3, <1>6, <2>1, <2>2
<1>8. Current(d, g, Y1, X1)
  <2> SUFFICES ASSUME d.known = TRUE, Reached(d, g, Y1)
               PROVE  (\A x \in X1 : x.lid = d.lid) /\ g.plid \in {0, d.lid}
    BY DEF Current
  <2>1. CASE Reached(d, e, Y)
    <3>1. (\A x \in X : x.lid = d.lid) /\ e.plid \in {0, d.lid}
      BY <2>1 DEF LinkEnd, Current
    <3> QED BY <1>3, <1>4, <3>1
  <2>2. CASE ~Reached(d, e, Y)
    <3>1. g.plid = d.lid
      BY <1>2, <1>3, <2>2 DEF Reached, SaysOf
    <3>2. e.plid # d.lid
      BY <2>2 DEF Reached
    <3> QED BY <1>3, <1>4, <3>1, <3>2
  <2> QED BY <2>1, <2>2
<1>9. Answered(d, g, Y1)
  <2> SUFFICES ASSUME d.known = TRUE, Evidence(d, g, Y1) PROVE g.plid = d.lid
    BY DEF Answered
  <2>1. CASE Evidence(d, e, Y)
    <3>1. e.plid = d.lid
      BY <2>1 DEF LinkEnd, Answered
    <3> QED BY <1>3, <1>4, <3>1
  <2>2. CASE ~Evidence(d, e, Y)
    BY <1>1, <1>2, <2>2 DEF Evidence, SaysOf
  <2> QED BY <2>1, <2>2
<1>10. Installed(d, g)
  BY <1>1 DEF LinkEnd, Installed
<1>11. SameKey(g, d, X1, Y1)
  <2> SUFFICES ASSUME d.known = TRUE, Evidence(g, d, X1), Evidence(d, g, Y1) PROVE g.aek = d.aek
    BY DEF SameKey
  <2>1. Evidence(e, d, X)
    BY StayOwnEnd
  <2>2. CASE Evidence(d, e, Y)
    BY <1>1, <2>1, <2>2 DEF SameKey
  <2>3. CASE ~Evidence(d, e, Y)
    BY <1>1, <1>2, <2>3 DEF Evidence, SaysOf
  <2> QED BY <2>2, <2>3
<1> QED BY <1>5, <1>7, <1>8, <1>9, <1>10, <1>11 DEF LinkEnd

LEMMA BeginEnds ==
  ASSUME NEW e, NEW g, NEW d, NEW f, NEW L, NEW X, NEW Y, NEW X1, NEW Y1,
         Turn(e, g, d, f, L, X, Y, X1, Y1), LinkEnd(e, d, X, Y), LinkEnd(d, e, Y, X),
         e.known = TRUE, Begins(e, g)
  PROVE  LinkEnd(g, d, X1, Y1) /\ LinkEnd(d, g, Y1, X1) /\ SameKey(g, d, X1, Y1)
<1>1. /\ g.known = TRUE /\ g.lid = e.lid /\ g.plid = e.plid /\ g.plink \notin Confirmed
      /\ InSae(e) /\ e.own \in g.aek /\ g.sae = "ACCEPTED" /\ g.pmk = g.aek
  BY DEF Begins, InSae
<1>2. \A y \in Y1 : y \in Y \/ SaysOf(g, y, FALSE)
  BY TurnSent
<1>3. X1 \subseteq X /\ (d.known = TRUE => d.lid # 0) /\ e.lid # 0
  BY DEF Turn
<1>4. /\ \A y \in Y : y.aek # g.aek
      /\ \A x \in X : x.k = "cnf" => x.aek # g.aek
      /\ d.plink \in Confirmed /\ d.plid = g.lid => d.aek # g.aek
  BY <1>1 DEF LinkEnd, Secret
<1>5. "ESTAB" \in Confirmed
  BY DEF Confirmed
<1>6. LinkOk(g) /\ LinkOk(d) /\ Honest(d, X1)
  BY <1>1, <1>3 DEF LinkEnd, LinkOk, Honest
<1>7. Honest(g, Y1)
  <2>1. \A y \in Y : y.lid = e.lid => y.plid \in {0, e.plid}
    BY DEF LinkEnd, Honest
  <2> QED BY <1>1, <1>2, <1>4, <2>1 DEF Honest, SaysOf
<1>8. Secret(g, d, X1, Y1) /\ Installed(g, d)
  BY <1>1, <1>5 DEF Secret, InSae, Installed
<1>9. Current(g, d, X1, Y1)
  <2> SUFFICES ASSUME Reached(g, d, X1)
               PROVE  (\A y \in Y1 : y.lid = g.lid) /\ d.plid \in {0, g.lid}
    BY DEF Current
  <2>1. Reached(e, d, X)
    BY <1>1, <1>3 DEF Reached
  <2>2. (\A y \in Y : y.lid = e.lid) /\ d.plid \in {0, e.lid}
    BY <2>1 DEF LinkEnd, Current
  <2> QED BY <1>1, <1>2, <2>2 DEF SaysOf
<1>10. ~Evidence(g, d, X1)
  BY <1>1, <1>3, <1>4 DEF Evidence
<1>11. Answered(g, d, X1) /\ SameKey(g, d, X1, Y1)
  BY <1>10 DEF Answered, SameKey
<1>12. Secret(d, g, Y1, X1)
  BY <1>1, <1>2, <1>3 DEF LinkEnd, Secret, SaysOf
<1>13. Current(d, g, Y1, X1)
  <2> SUFFICES ASSUME d.known = TRUE, Reached(d, g, Y1)
               PROVE  (\A x \in X1 : x.lid = d.lid) /\ g.plid \in {0, d.lid}
    BY DEF Current
  <2>1. Reached(d, e, Y)
    BY <1>1, <1>2, <1>3 DEF Reached, SaysOf
  <2> QED BY <1>1, <1>3, <2>1 DEF LinkEnd, Current
<1>14. Answered(d, g, Y1)
  <2> SUFFICES ASSUME d.known = TRUE, Evidence(d, g, Y1) PROVE Evidence(d, e, Y)
    BY <1>1 DEF LinkEnd, Answered
  <2> QED BY <1>1, <1>2 DEF Evidence, SaysOf
<1>15. Installed(d, g)
  BY <1>4, <1>5 DEF Installed
<1> QED BY <1>6, <1>7, <1>8, <1>9, <1>11, <1>12, <1>13, <1>14, <1>15 DEF LinkEnd

LEMMA ArriveEnds ==
  ASSUME NEW e, NEW g, NEW d, NEW f, NEW L, NEW X, NEW Y, NEW X1, NEW Y1,
         Turn(e, g, d, f, L, X, Y, X1, Y1), LinkEnd(e, d, X, Y), LinkEnd(d, e, Y, X),
         e.known = FALSE, Arrives(g, f, L)
  PROVE  LinkEnd(g, d, X1, Y1) /\ LinkEnd(d, g, Y1, X1) /\ SameKey(g, d, X1, Y1)
<1>1. /\ g.known = TRUE /\ g.lid \in L /\ g.plink \notin Confirmed
      /\ g.plid = 0 \/ (f.k = "open" /\ f.aek = g.aek /\ f.lid = g.plid)
      /\ (g.sae = "ACCEPTED" /\ g.pmk = g.aek) \/ (g.sae = "COMMITTED" /\ g.aek = {})
  BY DEF Arrives, Asked
<1>2. \A y \in Y1 : y \in Y \/ SaysOf(g, y, Asked(g, f))
  BY TurnSent
<1>3. /\ X1 \subseteq X /\ (d.known = TRUE => d.lid # 0)
      /\ f.k \in {"open", "cnf"} =>
           f \in X /\ (d.known = TRUE /\ f.lid = d.lid => \A x \in X1 : x.lid = d.lid)
  BY DEF Turn
<1>4. g.lid # 0 /\ d.plid # g.lid /\ \A x \in X \cup Y : x.lid # g.lid /\ x.plid # g.lid
  BY <1>1 DEF Turn
<1>5. InSae(g) => g.own \notin d.aek /\ \A x \in X \cup Y : g.own \notin x.aek
  BY DEF Turn, InSae
<1>6. "ESTAB" \in Confirmed /\ e.plid = 0
  BY DEF Confirmed, LinkEnd, LinkOk
<1>7. LinkOk(g) /\ LinkOk(d) /\ Honest(d, X1)
  BY <1>1, <1>3 DEF LinkEnd, LinkOk, Honest
<1>8. Honest(g, Y1)
  BY <1>1, <1>2, <1>4 DEF Honest, SaysOf
<1>9. Secret(g, d, X1, Y1)
  BY <1>1, <1>2, <1>3, <1>5 DEF Secret, InSae, SaysOf
<1>10. Current(g, d, X1, Y1)
  BY <1>1, <1>3, <1>4 DEF Current, Reached
<1>11. ~Evidence(g, d, X1)
  BY <1>1, <1>3, <1>4 DEF Evidence
<1>12. Answered(g, d, X1) /\ SameKey(g, d, X1, Y1) /\ Installed(g, d)
  BY <1>1, <1>6, <1>11 DEF Answered, SameKey, Installed
<1>13. Secret(d, g, Y1, X1)
  <2> SUFFICES ASSUME InSae(d)
               PROVE  /\ \A x \in X1 : d.own \notin x.aek
                      /\ \A y \in Y1 : y.k = "cnf" => d.own \notin y.aek
    BY <1>1 DEF Secret
  <2>1. /\ \A x \in X : d.own \notin x.aek
        /\ \A y \in Y : y.k = "cnf" => d.own \notin y.aek
    BY DEF LinkEnd, Secret
  <2>2. ASSUME NEW y \in Y1, y.k = "cnf" PROVE d.own \notin y.aek
    <3>1. CASE y \in Y
      BY <2>1, <2>2, <3>1
    <3>2. CASE SaysOf(g, y, Asked(g, f))
      <4>1. f \in X /\ y.aek = f.aek
        BY <1>3, <2>2, <3>2 DEF SaysOf, Asked
      <4> QED BY <2>1, <4>1
    <3> QED BY <1>2, <3>1, <3>2
  <2> QED BY <1>3, <2>1, <2>2
<1>14. Current(d, g, Y1, X1)
  <2> SUFFICES ASSUME d.known = TRUE, Reached(d, g, Y1)
               PROVE  (\A x \in X1 : x.lid = d.lid) /\ g.plid \in {0, d.lid}
    BY DEF Current
  <2>1. CASE Reached(d, e, Y)
    BY <1>1, <1>3, <2>1 DEF LinkEnd, Current
  <2>2. CASE ~Reached(d, e, Y)
    <3>1. g.plid = d.lid
      BY <1>2, <1>3, <2>2 DEF Reached, SaysOf
    <3> QED BY <1>1, <1>3, <3>1
  <2> QED BY <2>1, <2>2
<1>15. Answered(d, g, Y1)
  <2> SUFFICES ASSUME d.known = TRUE, Evidence(d, g, Y1) PROVE g.plid = d.lid
    BY DEF Answered
  <2> QED BY <1>2, <1>4 DEF Evidence, SaysOf
<1>16. Installed(d, g)
  BY <1>4 DEF Installed
<1> QED BY <1>7, <1>8, <1>9, <1>10, <1>12, <1>13, <1>14, <1>15, <1>16 DEF LinkEnd

LEMMA TurnEnds ==
  ASSUME NEW e, NEW g, NEW d, NEW f, NEW L, NEW X, NEW Y, NEW X1, NEW Y1,
         Turn(e, g, d, f, L, X, Y, X1, Y1), LinkEnd(e, d, X, Y), LinkEnd(d, e, Y, X),
         SameKey(e, d, X, Y)
  PROVE  LinkEnd(g, d, X1, Y1) /\ LinkEnd(d, g, Y1, X1) /\ SameKey(g, d, X1, Y1)
<1>1. LinkStep(e, g, f, L)
  BY DEF Turn
<1>2. CASE Leaves(e, g)
  BY <1>2, LeaveEnds
<1>3. CASE e.known = TRUE /\ Stays(e, g, f)
  BY <1>3, StayOwnEnd, StayPeerEnd
<1>4. CASE e.known = TRUE /\ Begins(e, g)
  BY <1>4, BeginEnds
<1>5. CASE e.known = FALSE /\ Arrives(g, f, L)
  BY <1>5, ArriveEnds
<1> QED BY <1>1, <1>2, <1>3, <1>4, <1>5 DEF LinkStep

----------------------------------------------------------------------------
(* The two stations and the air between them.                                  *)

\* The peering frames of a sequence.
Acts(A) == {A[i] : i \in {j \in DOMAIN A : A[j].k \notin AuthKinds}}

\* After a frame of this link no frame of an earlier one follows.
Ordered(e, B) ==
  e.known = TRUE =>
    \A i, j \in DOMAIN B :
      i < j /\ B[i].k \notin AuthKinds /\ B[j].k \notin AuthKinds /\ B[i].lid = e.lid => B[j].lid = e.lid

LinkOf(s) ==
  /\ LinkEnd(node[s], node[Other(s)], Acts(air[s]), Acts(air[Other(s)]))
  /\ SameKey(node[s], node[Other(s)], Acts(air[s]), Acts(air[Other(s)]))
  /\ Ordered(node[s], air[Other(s)])

LinkInv == SaeInv /\ \A s \in Sta : LinkOf(s)

LEMMA LidUnused ==
  ASSUME NEW l \in FreshLids
  PROVE  /\ l \in Lids
         /\ \A s \in Sta : node[s].plid # l
         /\ \A s \in Sta : \A x \in Acts(air[s]) : x.lid # l /\ x.plid # l
<1> DEFINE U == Used(NodeLids, FrameLids)
<1>1. l \in Lids /\ l \notin U
  BY DEF FreshLids, Fresh
<1>2. ASSUME NEW s \in Sta PROVE node[s].plid \in U
  BY DEF Used, NodeLids
<1>3. ASSUME NEW s \in Sta, NEW x \in Acts(air[s]) PROVE x.lid \in U /\ x.plid \in U
  <2>1. x \in Flying /\ x.k \notin AuthKinds
    BY DEF Flying, Range, Acts
  <2>2. x.lid \in FrameLids(x) /\ x.plid \in FrameLids(x)
    BY <2>1 DEF FrameLids
  <2> QED BY <2>1, <2>2 DEF Used
<1> QED BY <1>1, <1>2, <1>3

LEMMA CommitUnused ==
  ASSUME NEW c \in FreshCommits
  PROVE  /\ \A s \in Sta : c \notin node[s].aek
         /\ \A s \in Sta : \A x \in Acts(air[s]) : c \notin x.aek
<1> DEFINE U == Used(NodeCommits, FrameCommits)
<1>1. c \notin U
  BY DEF FreshCommits, Fresh
<1>2. ASSUME NEW s \in Sta PROVE node[s].aek \subseteq U
  <2>1. node[s].aek \subseteq NodeCommits(node[s])
    BY DEF NodeCommits
  <2> QED BY <2>1 DEF Used
<1>3. ASSUME NEW s \in Sta, NEW x \in Acts(air[s]) PROVE x.aek \subseteq U
  <2>1. x \in Flying /\ x.k \notin AuthKinds
    BY DEF Flying, Range, Acts
  <2>2. x.aek \subseteq FrameCommits(x)
    BY <2>1 DEF FrameCommits, AuthKinds
  <2> QED BY <2>1, <2>2 DEF Used
<1> QED BY <1>1, <1>2, <1>3

LEMMA ActsTyped ==
  ASSUME NEW A \in Seq(GoodFrames), NEW x \in Acts(A)
  PROVE  x.lid # 0
<1>1. x \in Frames /\ x.k \notin AuthKinds
  BY DEF Acts, GoodFrames
<1>2. x \in [k : {"open", "cnf", "close"}, lid : Lids, plid : Lids \cup {0},
             n : Nonces \cup {0}, pn : Nonces \cup {0}, pmk : SUBSET Commits, aek : SUBSET Commits]
  BY <1>1 DEF Frames, AuthKinds
<1> QED BY <1>2, MeshAssumption

LEMMA ActsAfter ==
  ASSUME NEW S, NEW A \in Seq(S), NEW taken \in {0, 1}, taken = 1 => A # <<>>,
         NEW A1, A1 = SubSeq(A, taken + 1, Len(A))
  PROVE  /\ Acts(A1) \subseteq Acts(A)
         /\ \A i \in DOMAIN A1 : i + taken \in DOMAIN A /\ A1[i] = A[i + taken]
<1>1. \A i \in DOMAIN A1 : i + taken \in DOMAIN A /\ A1[i] = A[i + taken]
  OBVIOUS
<1> QED BY <1>1 DEF Acts

LEMMA OrderedAfter ==
  ASSUME NEW d, NEW S, NEW A \in Seq(S), NEW taken \in {0, 1}, taken = 1 => A # <<>>,
         NEW A1, A1 = SubSeq(A, taken + 1, Len(A)), Ordered(d, A)
  PROVE  /\ Ordered(d, A1)
         /\ taken = 1 /\ d.known = TRUE /\ Head(A).k \notin AuthKinds /\ Head(A).lid = d.lid =>
              \A x \in Acts(A1) : x.lid = d.lid
<1>1. \A i \in DOMAIN A1 : i + taken \in DOMAIN A /\ A1[i] = A[i + taken]
  BY ActsAfter
<1>2. DOMAIN A \subseteq Nat /\ DOMAIN A1 \subseteq Nat /\ taken \in Nat
  OBVIOUS
<1>3. Ordered(d, A1)
  <2> SUFFICES ASSUME d.known = TRUE, NEW i \in DOMAIN A1, NEW j \in DOMAIN A1, i < j,
                      A1[i].k \notin AuthKinds, A1[j].k \notin AuthKinds, A1[i].lid = d.lid
               PROVE  A1[j].lid = d.lid
    BY DEF Ordered
  <2>1. i + taken < j + taken
    BY <1>2
  <2> QED BY <1>1, <2>1 DEF Ordered
<1>4. ASSUME taken = 1, d.known = TRUE, Head(A).k \notin AuthKinds, Head(A).lid = d.lid,
             NEW x \in Acts(A1)
      PROVE  x.lid = d.lid
  <2>1. PICK i \in DOMAIN A1 : x = A1[i] /\ x.k \notin AuthKinds
    BY DEF Acts
  <2>2. i + 1 \in DOMAIN A /\ x = A[i + 1] /\ 1 \in DOMAIN A /\ Head(A) = A[1]
    BY <1>1, <1>4, <2>1
  <2>3. i \in Nat /\ i >= 1
    BY <2>1
  <2>4. 1 < i + 1
    BY <2>3
  <2> QED BY <1>4, <2>1, <2>2, <2>4 DEF Ordered
<1> QED BY <1>3, <1>4

LEMMA ActsSent ==
  ASSUME NEW S, NEW B \in Seq(S), NEW o \in Seq(S), NEW B1, B1 = B \o o, NEW y \in Acts(B1)
  PROVE  y \in Acts(B) \/ \E i \in DOMAIN o : y = o[i] /\ y.k \notin AuthKinds
<1>1. PICK i \in DOMAIN B1 : y = B1[i] /\ y.k \notin AuthKinds
  BY DEF Acts
<1>2. \/ i \in DOMAIN B /\ B1[i] = B[i]
      \/ \E j \in DOMAIN o : B1[i] = o[j]
  BY ConcatFrom
<1> QED BY <1>1, <1>2 DEF Acts

LEMMA OrderedSent ==
  ASSUME NEW g, NEW S, NEW B \in Seq(S), NEW o \in Seq(S), NEW B1, B1 = B \o o,
         \A i \in DOMAIN o : o[i].k \notin AuthKinds => o[i].lid = g.lid,
         Ordered(g, B)
  PROVE  Ordered(g, B1)
<1> SUFFICES ASSUME g.known = TRUE, NEW i \in DOMAIN B1, NEW j \in DOMAIN B1, i < j,
                    B1[i].k \notin AuthKinds, B1[j].k \notin AuthKinds, B1[i].lid = g.lid
             PROVE  B1[j].lid = g.lid
  BY DEF Ordered
<1>1. Len(B) \in Nat /\ Len(o) \in Nat /\ i \in 1 .. Len(B) + Len(o) /\ j \in 1 .. Len(B) + Len(o)
  OBVIOUS
<1>2. CASE j <= Len(B)
  <2>1. i \in DOMAIN B /\ j \in DOMAIN B /\ B1[i] = B[i] /\ B1[j] = B[j]
    BY <1>1, <1>2
  <2> QED BY <2>1 DEF Ordered
<1>3. CASE j > Len(B)
  <2>1. j - Len(B) \in DOMAIN o /\ B1[j] = o[j - Len(B)]
    BY <1>1, <1>3
  <2> QED BY <2>1
<1> QED BY <1>1, <1>2, <1>3

LEMMA FieldsLink ==
  ASSUME NEW g, NEW h, \A x \in Fields \ {"out"} : h[x] = g[x], NEW d, NEW X, NEW Y,
         LinkEnd(g, d, X, Y), LinkEnd(d, g, Y, X), SameKey(g, d, X, Y)
  PROVE  LinkEnd(h, d, X, Y) /\ LinkEnd(d, h, Y, X) /\ SameKey(h, d, X, Y) /\ SameKey(d, h, Y, X)
<1>1. /\ h.known = g.known /\ h.lid = g.lid /\ h.plid = g.plid /\ h.n = g.n /\ h.aek = g.aek
      /\ h.sae = g.sae /\ h.own = g.own /\ h.pmk = g.pmk /\ h.plink = g.plink /\ h.mtk = g.mtk
  BY FieldsAre
<1>2. LinkOk(h) /\ LinkOk(d) /\ Honest(h, Y) /\ Honest(d, X)
  BY <1>1 DEF LinkEnd, LinkOk, Honest
<1>3. Secret(h, d, X, Y) /\ Secret(d, h, Y, X)
  BY <1>1 DEF LinkEnd, Secret, InSae
<1>4. Reached(h, d, X) = Reached(g, d, X) /\ Reached(d, h, Y) = Reached(d, g, Y)
  BY <1>1 DEF Reached
<1>5. Current(h, d, X, Y) /\ Current(d, h, Y, X)
  BY <1>1, <1>4 DEF LinkEnd, Current
<1>6. Evidence(h, d, X) = Evidence(g, d, X) /\ Evidence(d, h, Y) = Evidence(d, g, Y)
  BY <1>1 DEF Evidence
<1>7. Answered(h, d, X) /\ Answered(d, h, Y) /\ SameKey(h, d, X, Y) /\ SameKey(d, h, Y, X)
  BY <1>1, <1>6 DEF LinkEnd, Answered, SameKey
<1>8. Installed(h, d) /\ Installed(d, h)
  BY <1>1 DEF LinkEnd, Installed
<1> QED BY <1>2, <1>3, <1>5, <1>7, <1>8 DEF LinkEnd

LEMMA HandleLink ==
  ASSUME LinkInv, SaeInv', NEW s \in Sta, NEW g, NEW f, NEW v,
         LinkStep(node[s], g, f, FreshLids), SaeStep(node[s], g, FreshCommits, v), Typed(g),
         NEW taken \in {0, 1}, taken = 1 => air[s] # <<>>, Handle(s, g, taken),
         f.k \in {"open", "cnf"} => taken = 1 /\ f = Head(air[s])
  PROVE  LinkInv'
<1> DEFINE h == [g EXCEPT !.out = <<>>]
           t == Other(s)
           e == node[s]
           d == node[t]
           A == air[s]
           B == air[t]
           A1 == air'[s]
           B1 == air'[t]
<1>1. t \in Sta /\ t # s /\ Sta = {s, t} /\ Other(t) = s
  <2>1. t \in Sta /\ t # s /\ Sta = {s, t}
    BY OtherIs
  <2> QED BY <2>1, OtherIs
<1>2. node' = [node EXCEPT ![s] = h]
  BY DEF Handle
<1>3. \A x \in Fields \ {"out"} : h[x] = g[x]
  BY DEF Typed
<1> HIDE DEF h
<1>4. node'[s] = h /\ node'[t] = d
  BY <1>1, <1>2 DEF LinkInv, SaeInv, Inv
<1>5. A1 = SubSeq(A, taken + 1, Len(A)) /\ B1 = B \o g.out
  BY <1>1 DEF Handle, LinkInv, SaeInv, Inv
<1>6. A \in Seq(GoodFrames) /\ B \in Seq(GoodFrames) /\ g.out \in Seq(GoodFrames)
  BY <1>1, Holds DEF LinkInv, SaeInv, Inv
<1>7. /\ LinkEnd(e, d, Acts(A), Acts(B)) /\ LinkEnd(d, e, Acts(B), Acts(A))
      /\ SameKey(e, d, Acts(A), Acts(B)) /\ Ordered(e, B) /\ Ordered(d, A)
  BY <1>1 DEF LinkInv, LinkOf
<1>8. /\ e.known = TRUE => e.lid # 0
      /\ d.known = TRUE => d.lid # 0
      /\ e.known = FALSE => e.sae = "NOTHING"
  BY <1>1 DEF LinkInv, SaeInv, Inv, RecInv, Keyed
<1>9. /\ \A l \in FreshLids : /\ l # 0 /\ d.plid # l
                              /\ \A x \in Acts(A) \cup Acts(B) : x.lid # l /\ x.plid # l
      /\ \A c \in FreshCommits : /\ c \notin e.aek \cup d.aek
                                 /\ \A x \in Acts(A) \cup Acts(B) : c \notin x.aek
  BY <1>1, LidUnused, CommitUnused, MeshAssumption
<1> HIDE DEF t, e, d, A, B, A1, B1
<1>10. Acts(A1) \subseteq Acts(A)
  BY <1>5, <1>6, ActsAfter DEF A
<1>11. Ordered(d, A1) /\ (taken = 1 /\ d.known = TRUE /\ Head(A).k \notin AuthKinds /\ Head(A).lid = d.lid =>
                            \A x \in Acts(A1) : x.lid = d.lid)
  BY <1>5, <1>6, <1>7, OrderedAfter DEF A
<1>12. \A y \in Acts(B1) : y \in Acts(B) \/ \E i \in DOMAIN g.out : y = g.out[i] /\ y.k \notin AuthKinds
  BY <1>5, <1>6, ActsSent
<1>13. InSae(g) => \/ InSae(e) /\ g.own = e.own
                   \/ g.own \notin e.aek \cup d.aek /\ \A x \in Acts(A) \cup Acts(B) : g.own \notin x.aek
  <2> SUFFICES ASSUME InSae(g), g.own \notin FreshCommits PROVE InSae(e) /\ g.own = e.own
    BY <1>9
  <2>1. SaeStep(e, g, FreshCommits, v)
    BY DEF e
  <2> QED BY <2>1 DEF SaeStep, InSae
<1>14. f.k \in {"open", "cnf"} =>
         f \in Acts(A) /\ (d.known = TRUE /\ f.lid = d.lid => \A x \in Acts(A1) : x.lid = d.lid)
  <2> SUFFICES ASSUME f.k \in {"open", "cnf"}
               PROVE  f \in Acts(A) /\ taken = 1 /\ f = Head(A) /\ f.k \notin AuthKinds
    BY <1>11
  <2>1. taken = 1 /\ f = Head(A) /\ A # <<>> /\ f.k \notin AuthKinds
    BY DEF A, AuthKinds
  <2>2. 1 \in DOMAIN A /\ Head(A) = A[1]
    BY <1>6, <2>1
  <2> QED BY <2>1, <2>2 DEF Acts
<1>15. Turn(e, g, d, f, FreshLids, Acts(A), Acts(B), Acts(A1), Acts(B1))
  <2>1. LinkStep(e, g, f, FreshLids)
    BY DEF e
  <2>2. \A x \in Acts(A) : x.lid # 0
    BY <1>6, ActsTyped
  <2> QED BY <1>8, <1>9, <1>10, <1>12, <1>13, <1>14, <2>1, <2>2 DEF Turn
<1>16. /\ LinkEnd(g, d, Acts(A1), Acts(B1)) /\ LinkEnd(d, g, Acts(B1), Acts(A1))
       /\ SameKey(g, d, Acts(A1), Acts(B1))
  BY <1>7, <1>15, TurnEnds
<1>17. /\ LinkEnd(h, d, Acts(A1), Acts(B1)) /\ LinkEnd(d, h, Acts(B1), Acts(A1))
       /\ SameKey(h, d, Acts(A1), Acts(B1)) /\ SameKey(d, h, Acts(B1), Acts(A1))
  BY <1>3, <1>16, FieldsLink
<1>18. Ordered(h, B1)
  <2> SUFFICES ASSUME h.known = TRUE PROVE Ordered(h, B1)
    BY DEF Ordered
  <2>1. h.known = g.known /\ h.lid = g.lid
    BY <1>3, FieldsAre
  <2>2. LinkStep(e, g, f, FreshLids)
    BY DEF e
  <2>3. \/ e.known = TRUE /\ g.lid = e.lid /\ (Stays(e, g, f) \/ Begins(e, g))
        \/ g.lid \in FreshLids /\ Arrives(g, f, FreshLids)
    BY <2>1, <2>2 DEF LinkStep, Leaves, Left, Stays, Begins, Arrives
  <2>4. \A i \in DOMAIN g.out : g.out[i].k \notin AuthKinds => g.out[i].lid = h.lid
    BY <2>1, <2>3 DEF Stays, Begins, Arrives, Speaks, SaysOf
  <2>5. Ordered(h, B)
    <3>1. CASE e.known = TRUE /\ g.lid = e.lid
      BY <1>7, <2>1, <3>1 DEF Ordered
    <3>2. CASE g.lid \in FreshLids
      BY <1>9, <2>1, <3>2 DEF Ordered, Acts
    <3> QED BY <2>3, <3>1, <3>2
  <2> QED BY <1>5, <1>6, <2>4, <2>5, OrderedSent
<1>19. LinkOf(s)' /\ LinkOf(t)'
  BY <1>1, <1>4, <1>11, <1>17, <1>18 DEF LinkOf, t, d, A1, B1
<1> QED BY <1>1, <1>19 DEF LinkInv

LEMMA ReceivedLink ==
  ASSUME LinkInv, NEW s \in Sta, air[s] # <<>>, NEW g \in Received(node[s], Head(air[s]))
  PROVE  LinkStep(node[s], g, Head(air[s]), FreshLids)
<1> DEFINE e == node[s]
           f == Head(air[s])
<1>0. air[s] \in Seq(GoodFrames)
  BY DEF LinkInv, SaeInv, Inv
<1>1. Ready(e) /\ f \in GoodFrames /\ LinkOk(e)
  <2>1. f \in GoodFrames
    BY <1>0
  <2>2. Ready(e) /\ LinkOk(e)
    BY DEF LinkInv, LinkOf, LinkEnd, SaeInv, Inv, Ready
  <2> QED BY <2>1, <2>2
<1>2. f.k \in {"open", "cnf", "close"} \cup AuthKinds
  BY <1>1 DEF GoodFrames, Frames, AuthKinds
<1>3. g \in Received(e, f)
  OBVIOUS
<1> SUFFICES LinkStep(e, g, f, FreshLids)
  OBVIOUS
<1> HIDE DEF e, f
<1>4. Shaped(e) /\ Quiet(e, e) /\ e.known \in BOOLEAN
  BY <1>1, ReadyLink
<1>5. CASE g = e
  BY <1>1, <1>4, <1>5, QuietStep
<1>6. CASE g = CancelCaching(e)
  <2>1. CancelCaching(e).plink = e.plink /\ CancelCaching(e).sae = e.sae
    BY <1>4, FieldsAre DEF CancelCaching, Shaped
  <2> QED BY <1>1, <1>4, <1>6, <2>1, CancelCachingQuiet, QuietStep
<1>7. CASE f.k \notin AuthKinds /\ \E l \in FreshLids, n \in FreshNonces : g = RxAction(e, f, l, n)
  <2>1. IsAction(f)
    BY <1>2, <1>7 DEF IsAction
  <2> QED BY <1>1, <1>7, <2>1, RxActionLink
<1>8. CASE e.known = TRUE /\ \E c \in FreshCommits : g = RxCommit(e, f, c)
  BY <1>1, <1>8, RxCommitLink
<1>9. CASE e.known = TRUE /\ \E n \in FreshNonces : g = RxConfirm(e, f, n)
  BY <1>1, <1>9, RxConfirmLink
<1>10. CASE e.known = FALSE /\ f.k \in AuthKinds
  BY <1>3, <1>5, <1>10 DEF Received
<1>11. CASE f.k \notin AuthKinds
  <2>1. g \in {RxAction(e, f, l, n) : l \in FreshLids, n \in FreshNonces}
    BY <1>3, <1>11 DEF Received, AuthKinds
  <2> QED BY <1>7, <1>11, <2>1
<1>12. CASE e.known = TRUE /\ f.k \in AuthKinds
  <2>1. CASE f.k = "commit"
    <3>1. g \in {RxCommit(e, f, c) : c \in FreshCommits} \cup {e}
      BY <1>3, <1>12, <2>1 DEF Received, AuthKinds
    <3> QED BY <1>5, <1>8, <1>12, <3>1
  <2>2. CASE f.k = "confirm"
    <3>1. g \in {RxConfirm(e, f, n) : n \in FreshNonces} \cup {e, CancelCaching(e)}
      BY <1>3, <1>12, <2>2 DEF Received, AuthKinds
    <3> QED BY <1>5, <1>6, <1>9, <1>12, <3>1
  <2>3. CASE f.k = "reject"
    BY <1>3, <1>5, <1>6, <2>3 DEF Received, AuthKinds
  <2> QED BY <1>12, <2>1, <2>2, <2>3 DEF AuthKinds
<1> QED BY <1>4, <1>10, <1>11, <1>12

LEMMA LoseEnds ==
  ASSUME NEW e, NEW d, NEW X, NEW Y, NEW X1, X1 \subseteq X,
         LinkEnd(e, d, X, Y), LinkEnd(d, e, Y, X), SameKey(e, d, X, Y)
  PROVE  /\ LinkEnd(e, d, X1, Y) /\ LinkEnd(d, e, Y, X1)
         /\ SameKey(e, d, X1, Y) /\ SameKey(d, e, Y, X1)
<1>1. LinkOk(e) /\ LinkOk(d) /\ Honest(e, Y) /\ Honest(d, X1) /\ Installed(e, d) /\ Installed(d, e)
  BY DEF LinkEnd, Honest
<1>2. Secret(e, d, X1, Y) /\ Secret(d, e, Y, X1)
  BY DEF LinkEnd, Secret
<1>3. Reached(e, d, X1) => Reached(e, d, X)
  BY DEF Reached
<1>4. Current(e, d, X1, Y) /\ Current(d, e, Y, X1)
  BY <1>3 DEF LinkEnd, Current
<1>5. Evidence(e, d, X1) => Evidence(e, d, X)
  BY DEF Evidence
<1>6. Answered(e, d, X1) /\ Answered(d, e, Y) /\ SameKey(e, d, X1, Y) /\ SameKey(d, e, Y, X1)
  BY <1>5 DEF LinkEnd, Answered, SameKey
<1> QED BY <1>1, <1>2, <1>4, <1>6 DEF LinkEnd

LEMMA LoseLink ==
  ASSUME LinkInv, SaeInv', NEW s \in Sta, Lose(s)
  PROVE  LinkInv'
<1> DEFINE t == Other(s)
           A == air[s]
<1>1. t \in Sta /\ t # s /\ Sta = {s, t} /\ Other(t) = s
  <2>1. t \in Sta /\ t # s /\ Sta = {s, t}
    BY OtherIs
  <2> QED BY <2>1, OtherIs
<1>2. node' = node /\ air'[s] = Tail(A) /\ air'[t] = air[t] /\ A # <<>> /\ A \in Seq(GoodFrames)
  BY <1>1 DEF Lose, LinkInv, SaeInv, Inv
<1>3. Tail(A) = SubSeq(A, 1 + 1, Len(A))
  BY <1>2
<1>4. /\ LinkEnd(node[s], node[t], Acts(A), Acts(air[t])) /\ LinkEnd(node[t], node[s], Acts(air[t]), Acts(A))
      /\ SameKey(node[s], node[t], Acts(A), Acts(air[t]))
      /\ Ordered(node[s], air[t]) /\ Ordered(node[t], A)
  BY <1>1 DEF LinkInv, LinkOf
<1> HIDE DEF t, A
<1>5. Acts(air'[s]) \subseteq Acts(A)
  BY <1>2, <1>3, ActsAfter
<1>6. Ordered(node[t], air'[s])
  BY <1>2, <1>3, <1>4, OrderedAfter
<1>7. /\ LinkEnd(node[s], node[t], Acts(air'[s]), Acts(air[t]))
      /\ LinkEnd(node[t], node[s], Acts(air[t]), Acts(air'[s]))
      /\ SameKey(node[s], node[t], Acts(air'[s]), Acts(air[t]))
      /\ SameKey(node[t], node[s], Acts(air[t]), Acts(air'[s]))
  BY <1>4, <1>5, LoseEnds
<1>8. LinkOf(s)' /\ LinkOf(t)'
  BY <1>1, <1>2, <1>4, <1>6, <1>7 DEF LinkOf, t
<1> QED BY <1>1, <1>8 DEF LinkInv

LEMMA LinkInit == Init => LinkInv
<1> SUFFICES ASSUME Init PROVE LinkInv
  OBVIOUS
<1>1. \A s \in Sta : node[s] = NoEntry /\ air[s] = <<>> /\ Acts(air[s]) = {}
  BY DEF Init, Acts
<1>2. NoEntry.known = FALSE /\ NoEntry.sae = "NOTHING" /\ NoEntry.plid = 0 /\ NoEntry.plink = "IDLE"
  BY DEF NoEntry
<1>3. LinkEnd(NoEntry, NoEntry, {}, {}) /\ SameKey(NoEntry, NoEntry, {}, {}) /\ Ordered(NoEntry, <<>>)
  BY <1>2 DEF LinkEnd, LinkOk, Honest, Secret, InSae, Current, Answered, Installed, SameKey,
              Ordered, Confirmed
<1> QED BY <1>1, <1>3, SaeInit, OtherIs DEF LinkInv, LinkOf

LEMMA LinkNext == LinkInv /\ [Next]_vars => LinkInv'
<1> SUFFICES ASSUME LinkInv, [Next]_vars PROVE LinkInv'
  OBVIOUS
<1>0. SaeInv /\ SaeInv'
  BY SaeNext DEF LinkInv
<1>1. CASE UNCHANGED vars
  BY <1>0, <1>1 DEF LinkInv, LinkOf, vars
<1> DEFINE nil == [k |-> "reject"]
<1>a. ASSUME NEW s \in Sta PROVE Ready(node[s]) /\ LinkOk(node[s])
  BY DEF LinkInv, LinkOf, LinkEnd, SaeInv, Inv, Ready
<1>n. nil.k \notin {"open", "cnf"}
  OBVIOUS
<1> HIDE DEF nil
<1>b. ASSUME NEW s \in Sta, NEW g, RecInv(g), SaeStep(node[s], g, FreshCommits, FALSE),
             LinkStep(node[s], g, nil, FreshLids), Step(s, g)
      PROVE  LinkInv'
  <2>1. Typed(g) /\ Handle(s, g, 0)
    BY <1>b DEF RecInv, Step
  <2>2. 0 \in {0, 1} /\ 0 # 1
    OBVIOUS
  <2> QED BY <1>0, <1>b, <1>n, <2>1, <2>2, HandleLink
<1>2. ASSUME NEW s \in Sta, NewPeer(s) PROVE LinkInv'
  <2> DEFINE g(l) == AddPeer(node[s], l)
  <2>1. PICK l \in FreshLids, c \in FreshCommits, n \in FreshNonces :
          Step(s, AuthSae(g(l), c, n))
    BY <1>2 DEF NewPeer
  <2>2. RecInv(node[s]) /\ node[s].known = FALSE
    BY <1>0, <1>2, Holds DEF SaeInv, Inv, RecInv, NewPeer
  <2>3. l \in Lids /\ c \in Commits /\ n \in Nonces /\ c # 0
    BY FreshTyped, MeshAssumption
  <2>4. /\ Typed(g(l)) /\ Counted(g(l)) /\ g(l).known = TRUE /\ g(l).plink = "IDLE"
        /\ g(l).lid # 0 /\ g(l).ptm = 0 /\ g(l).aek = {}
    BY <2>2, <2>3, AddPeerTyped
  <2>5. Shaped(g(l)) /\ NoConfirm(g(l)) /\ g(l).own = 0 /\ g(l).peer = 0
    BY FieldsAre DEF AddPeer, NoEntry, Shaped, NoConfirm
  <2>8. LinkStep(node[s], AuthSae(g(l), c, n), nil, FreshLids)
    BY <1>a, <2>2, NewPeerLink
  <2> HIDE DEF g
  <2>6. RecInv(AuthSae(g(l), c, n))
    BY <2>3, <2>4, AuthSaeRec
  <2>7. SaeStep(node[s], AuthSae(g(l), c, n), FreshCommits, FALSE)
    BY <2>5, AuthSaeStep
  <2> QED BY <1>b, <2>1, <2>6, <2>7, <2>8
<1>3. ASSUME NEW s \in Sta, Receive(s) PROVE LinkInv'
  <2>1. PICK e \in Received(node[s], Head(air[s])) : Handle(s, e, 1)
    BY <1>3 DEF Receive
  <2>2. air[s] # <<>> /\ Head(air[s]) \in GoodFrames
    BY <1>0, <1>3 DEF Receive, SaeInv, Inv
  <2>3. Typed(e)
    BY <1>0, <2>2, ReceivedRec DEF SaeInv, Inv, RecInv
  <2>4. PICK v \in BOOLEAN : SaeStep(node[s], e, FreshCommits, v)
    BY <1>0, <2>2, ReceivedSae
  <2>5. LinkStep(node[s], e, Head(air[s]), FreshLids)
    BY <2>2, ReceivedLink
  <2> QED BY <1>0, <2>1, <2>2, <2>3, <2>4, <2>5, HandleLink
<1>4. ASSUME NEW s \in Sta, Lose(s) PROVE LinkInv'
  BY <1>0, <1>4, LoseLink
<1>6. ASSUME NEW s \in Sta, Retransmit(s) PROVE LinkInv'
  <2>1. RecInv(RetransmitTimer(node[s]))
    BY <1>a, RetransmitTimerRec DEF Ready
  <2>2. SaeStep(node[s], RetransmitTimer(node[s]), FreshCommits, FALSE)
    BY <1>a, RetransmitTimerStep
  <2>3. LinkStep(node[s], RetransmitTimer(node[s]), nil, FreshLids)
    BY <1>a, RetransmitTimerLink
  <2> QED BY <1>6, <1>b, <2>1, <2>2, <2>3 DEF Retransmit
<1>7. ASSUME NEW s \in Sta, AuthTimeout(s) PROVE LinkInv'
  <2>1. PICK c \in FreshCommits, n \in FreshNonces : Step(s, AuthTimer(node[s], c, n))
    BY <1>7 DEF AuthTimeout
  <2>2. RecInv(node[s]) /\ node[s].auth = TRUE
    BY <1>0, <1>7, Holds DEF SaeInv, Inv, RecInv, AuthTimeout
  <2>3. RecInv(AuthTimer(node[s], c, n))
    BY <2>2, FreshTyped, AuthTimerRec
  <2>4. SaeStep(node[s], AuthTimer(node[s], c, n), FreshCommits, FALSE)
    BY <1>a, <2>2, AuthTimerStep, FreshStep
  <2>5. LinkStep(node[s], AuthTimer(node[s], c, n), nil, FreshLids)
    BY <1>a, <2>2, AuthTimerLink
  <2> QED BY <1>b, <2>1, <2>3, <2>4, <2>5
<1>8. ASSUME NEW s \in Sta, PlinkTimeout(s) PROVE LinkInv'
  <2>1. RecInv(PlinkTimer(node[s]))
    BY <1>8, <1>a, PlinkTimerRec DEF Ready, PlinkTimeout
  <2>2. SaeStep(node[s], PlinkTimer(node[s]), FreshCommits, FALSE)
    BY <1>a, PlinkTimerStep
  <2>3. LinkStep(node[s], PlinkTimer(node[s]), nil, FreshLids)
    BY <1>a, PlinkTimerLink
  <2> QED BY <1>8, <1>b, <2>1, <2>2, <2>3 DEF PlinkTimeout
<1>9. ASSUME NEW s \in Sta, RemovePeer(s) PROVE LinkInv'
  <2>1. RecInv(node[s]) /\ node[s].known = TRUE
    BY <1>0, <1>9, Holds DEF SaeInv, Inv, RecInv, RemovePeer
  <2>2. RecInv(PlinkClose(node[s]))
    BY <2>1, PlinkCloseRec
  <2>3. SaeStep(node[s], PlinkClose(node[s]), FreshCommits, FALSE)
    BY <1>a, PlinkCloseStep
  <2>4. Stays(node[s], PlinkClose(node[s]), nil)
    BY <1>a, <2>1, PlinkCloseLink
  <2>5. LinkStep(node[s], PlinkClose(node[s]), nil, FreshLids)
    BY <2>1, <2>4 DEF LinkStep
  <2> QED BY <1>9, <1>b, <2>2, <2>3, <2>5 DEF RemovePeer
<1>10. ASSUME NEW s \in Sta, Restart(s) PROVE LinkInv'
  <2> DEFINE p == PlinkClose(node[s])
             r == [NoEntry EXCEPT !.out = p.out]
  <2>0. /\ NoEntry.sae = "NOTHING" /\ NoEntry.auth = FALSE
        /\ NoConfirm(NoEntry) /\ Left(NoEntry) /\ NoAction(NoEntry)
    BY DEF NoEntry, NoConfirm, Left, NoAction
  <2>1. CASE node[s].known /\ Step(s, r)
    <3>1. RecInv(node[s]) /\ node[s].known = TRUE
      BY <1>0, <2>1, Holds DEF SaeInv, Inv, RecInv
    <3>2. p.out \in Seq(GoodFrames)
      BY <3>1, PlinkCloseRec, Holds DEF RecInv
    <3>3. RecInv(r)
      BY <3>2, RestartedRec
    <3>4. r.sae = "NOTHING" /\ r.auth = FALSE /\ NoConfirm(r)
      BY <1>a, PlinkCloseStep DEF NoEntry, NoConfirm
    <3>5. SaeStep(node[s], r, FreshCommits, FALSE)
      BY <3>4 DEF SaeStep, SaeOk, OutOk, NoConfirm
    <3>6. Speaks(p, FALSE) /\ SameIds(node[s], p)
      BY <1>a, <3>1, PlinkCloseLink
    <3>7. r.out = p.out /\ r.known = FALSE /\ r.plid = 0 /\ r.plink = "IDLE"
      BY DEF NoEntry
    <3> HIDE DEF p, r
    <3>8. \A i \in DOMAIN r.out : r.out[i].k \notin AuthKinds => SaysOf(node[s], r.out[i], FALSE)
      BY <3>6, <3>7 DEF Speaks, SaysOf, SameIds
    <3>9. LinkStep(node[s], r, nil, FreshLids)
      BY <3>1, <3>4, <3>7, <3>8 DEF LinkStep, Leaves, Left
    <3> QED BY <1>b, <2>1, <3>3, <3>5, <3>9
  <2>2. CASE Step(s, NoEntry)
    <3>1. RecInv(NoEntry)
      BY NoEntryTyped DEF RecInv, Counted, Timed, Pending, OneTimer, Keyed, NoEntry, Opening
    <3>2. SaeStep(node[s], NoEntry, FreshCommits, FALSE)
      BY <2>0 DEF SaeStep, SaeOk, OutOk, NoConfirm
    <3>3. LinkStep(node[s], NoEntry, nil, FreshLids)
      BY <2>0, LeftStep
    <3> QED BY <1>b, <2>2, <3>1, <3>2, <3>3
  <2> QED BY <1>10, <2>1, <2>2 DEF Restart
<1> QED BY <1>1, <1>2, <1>3, <1>4, <1>6, <1>7, <1>8, <1>9, <1>10 DEF Next

LEMMA LinkAlways == Spec => []LinkInv
BY LinkInit, LinkNext, PTL DEF Spec

LEMMA InOrderSame ==
  ASSUME NEW x \in Nat, NEW y \in Nat
  PROVE  InOrder(x, y) = InOrder(y, x)
BY DEF InOrder

(* Two stations that both hold their link for established have the same key in *)
(* the driver: mesh_rsn_derive_mtk is reached on both sides with the nonces and *)
(* link identifiers of the same run of AMPE, whatever frames of earlier links   *)
(* are still on their way, although mesh_rsn_process_ampe takes a frame's nonce *)
(* over before mesh_mpm_action_rx compares the frame's identifiers.            *)
THEOREM LinkAgree == Spec => []LinkKeysAgree
<1>1. LinkInv => LinkKeysAgree
  <2> SUFFICES ASSUME LinkInv, \A x \in Sta : Established(x), NEW s \in Sta, NEW t \in Sta, s # t
               PROVE  node[s].mtk = node[t].mtk
    BY DEF LinkKeysAgree
  <2>1. Other(s) = t /\ Other(t) = s
    BY OtherIs
  <2>2. node[s].plink = "ESTAB" /\ node[t].plink = "ESTAB" /\ "ESTAB" \in Confirmed
    BY DEF Established, Confirmed
  <2>3. /\ LinkEnd(node[s], node[t], Acts(air[s]), Acts(air[t]))
        /\ LinkEnd(node[t], node[s], Acts(air[t]), Acts(air[s]))
        /\ SameKey(node[s], node[t], Acts(air[s]), Acts(air[t]))
    BY <2>1 DEF LinkInv, LinkOf
  <2>4. /\ node[s].plid # 0 /\ node[t].plid # 0 /\ node[s].known = TRUE /\ node[t].known = TRUE
    BY <2>2, <2>3 DEF LinkEnd, LinkOk
  <2>5. node[t].plid = node[s].lid /\ node[s].plid = node[t].lid
    BY <2>2, <2>3, <2>4 DEF LinkEnd, Current, Reached
  <2>6. node[s].aek = node[t].aek
    BY <2>2, <2>3, <2>4, <2>5 DEF SameKey, Evidence
  <2>7. /\ node[s].mtk = <<node[s].aek, InOrder(node[s].n, node[t].n), InOrder(node[s].lid, node[t].lid)>>
        /\ node[t].mtk = <<node[t].aek, InOrder(node[t].n, node[s].n), InOrder(node[t].lid, node[s].lid)>>
    BY <2>2, <2>3, <2>4, <2>5, <2>6 DEF LinkEnd, Installed
  <2>8. /\ node[s].n \in Nat /\ node[t].n \in Nat /\ node[s].lid \in Nat /\ node[t].lid \in Nat
    BY Holds, MeshAssumption DEF LinkInv, SaeInv, Inv, RecInv
  <2> QED BY <2>6, <2>7, <2>8, InOrderSame
<1> QED BY <1>1, LinkAlways, PTL

=============================================================================
