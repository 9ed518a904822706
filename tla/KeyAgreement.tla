---------------------------- MODULE KeyAgreement ----------------------------
(***************************************************************************)
(* What the 4-way handshake promises, without nonces, messages or timers:  *)
(* the pairwise keys the two drivers use.  The Supplicant installs a key   *)
(* first; the Authenticator installs only a key that the Supplicant has    *)
(* installed, and never one that the Supplicant has replaced by another;   *)
(* neither installs a key twice; each may drop its key at any time.        *)
(***************************************************************************)
EXTENDS Naturals

CONSTANTS
    Keys,         \* pairwise keys
    None          \* no key is configured

VARIABLES
    staKey,       \* key the Supplicant's driver transmits with
    staInstalls,  \* how often the Supplicant installed each key
    apKey,        \* key in the Authenticator's driver
    apInstalls    \* how often the Authenticator installed each key

staVars == <<staKey, staInstalls>>
apVars  == <<apKey, apInstalls>>
vars    == <<staVars, apVars>>

Init ==
    /\ staKey = None /\ staInstalls = [k \in Keys |-> 0]
    /\ apKey = None /\ apInstalls = [k \in Keys |-> 0]

StaInstall(k) ==
    /\ staInstalls[k] = 0
    /\ staKey' = k
    /\ staInstalls' = [staInstalls EXCEPT ![k] = 1]
    /\ UNCHANGED apVars

StaDrop == staKey' = None /\ UNCHANGED <<staInstalls, apVars>>

ApInstall(k) ==
    /\ staInstalls[k] = 1 /\ staKey \in {k, None}
    /\ apInstalls[k] = 0
    /\ apKey' = k
    /\ apInstalls' = [apInstalls EXCEPT ![k] = 1]
    /\ UNCHANGED staVars

ApDrop == apKey' = None /\ UNCHANGED <<apInstalls, staVars>>

Next ==
    \/ \E k \in Keys : StaInstall(k) \/ ApInstall(k)
    \/ StaDrop
    \/ ApDrop

Spec == Init /\ [][Next]_vars
=============================================================================
