------------------------------ MODULE EapFrames ------------------------------
(* The EAPOL and EAP frames that a Supplicant and an Authenticator exchange,   *)
(* and the link between them.  An EAP Request or Response has a type, "id" for *)
(* Identity and "m" for the one authentication method, the EAP Identifier, and *)
(* for the method the challenge n that identifies the conversation: the method *)
(* itself (its cryptography) is abstracted to the statement that both ends     *)
(* derive the key n.  Success and Failure carry only an Identifier, and Start  *)
(* and Logoff nothing.                                                         *)
EXTENDS Integers, Sequences

CONSTANTS Nonces,   \* challenges of the method; they also stand for its keys
          None,     \* no frame, no key, no challenge
          IdMod,    \* EAP Identifiers are taken modulo IdMod (256 in the code)
          Cap       \* frames that may be in flight in one direction

ASSUME EapFramesAssumption ==
  /\ None \notin Nonces
  /\ IdMod \in Nat \ {0}
  /\ Cap \in Nat \ {0}

Ids == 0 .. IdMod - 1

Frame(t, ty, id, n) == [t |-> t, ty |-> ty, id |-> id, n |-> n]

Start  == Frame("Start", "none", 0, None)
Logoff == Frame("Logoff", "none", 0, None)

\* eap_sm_buildSuccess, eap_sm_buildFailure.
Success(id) == Frame("Success", "none", id, None)
Failure(id) == Frame("Failure", "none", id, None)

Requests  == {Frame("Req", "id", id, None) : id \in Ids}
               \cup {Frame("Req", "m", id, n) : id \in Ids, n \in Nonces}
Responses == {Frame("Resp", "id", id, None) : id \in Ids}
               \cup {Frame("Resp", "m", id, n) : id \in Ids, n \in Nonces}

ToSuppFrames == Requests \cup {Success(id) : id \in Ids} \cup {Failure(id) : id \in Ids}
ToAuthFrames == Responses \cup {Start, Logoff}

ASSUME NoneAssumption == None \notin ToSuppFrames \cup ToAuthFrames

\* The link keeps the order of the frames; a frame sent while Cap frames are in
\* flight pushes out the oldest one.
Push(link, f) == Append(IF Len(link) < Cap THEN link ELSE Tail(link), f)
=============================================================================
