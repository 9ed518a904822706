------------------------------ MODULE MCWpaSm ------------------------------
(***************************************************************************)
(* Instances of WpaSm for TLC.  The Authenticator's frames are messages    *)
(* 1/4, 3/4 and 1/2 of two handshakes with small replay counters, which    *)
(* the environment delivers, repeats and reorders as it likes.             *)
(***************************************************************************)
EXTENDS WpaSm

CONSTANTS g1, g2

OneKey(g) == [k \in Kinds |-> g]

M1Frames(rcs) == {Msg1of4(rc, an) : rc \in rcs, an \in ANonces}
M3Frames(rcs, ptks, secure, ids, keys) ==
    {Msg3of4(rc, p, secure, id, key) :
        rc \in rcs, p \in ptks, id \in ids, key \in keys}
G1Frames(rcs, ptks, keys) ==
    {Msg1of2(rc, p, key) : rc \in rcs, p \in ptks, key \in keys}

FirstPtks == {p \in Ptks : p.sn = 1}

\* A first handshake, then one that retransmits its message 3/4 or rekeys the
\* PTK, and group messages in between; no Key ID KDE and those of Extended Key
\* ID, so that each is also used where it is wrong.  The message 3/4 of WPA
\* carries no GTK and leaves the group handshake to come.
AllFrames ==
    M1Frames({0, 2})
        \cup M3Frames({1}, FirstPtks, TRUE, {-1, 0}, {OneKey(g1)})
        \cup M3Frames({1}, FirstPtks, FALSE, {-1}, {NoKde})
        \cup M3Frames({3}, Ptks, TRUE, {-1, 1}, {OneKey(g1)})
        \cup G1Frames({2}, Ptks, {OneKey(g2)})

Conf(proto, ext, deny) ==
    [proto |-> proto, ext_key_id |-> ext, deny_ptk0_rekey |-> deny]

\* RSN with Extended Key ID, and WPA that refuses to rekey key index 0.
BothConfs == {Conf("RSN", TRUE, FALSE), Conf("WPA", FALSE, TRUE)}

RsnConf == {Conf("RSN", FALSE, FALSE)}
=============================================================================
