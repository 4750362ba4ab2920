---------------------------- MODULE SessionAbs ----------------------------
(***************************************************************************)
(* What the session promises to the people connected to it, with neither   *)
(* threads nor locks: who is connected, which one of them is the owner,    *)
(* and in which phase the session is.                                      *)
(***************************************************************************)
CONSTANTS Conns, None

VARIABLES phase, members, owner

vars == <<phase, members, owner>>

Init ==
    /\ phase = "LOBBY"
    /\ members = {}
    /\ owner = None

(* The first to connect owns the session. *)
Join(c) ==
    /\ c \notin members
    /\ members' = members \cup {c}
    /\ owner' = IF members = {} THEN c ELSE owner
    /\ UNCHANGED phase

(* Ownership changes only when the owner leaves, and passes to someone who *)
(* is still connected.                                                     *)
Leave(c) ==
    /\ c \in members
    /\ members' = members \ {c}
    /\ IF c # owner THEN owner' = owner
       ELSE IF members' = {} THEN owner' = None
       ELSE owner' \in members'
    /\ UNCHANGED phase

(* START and RESET need an owner to issue them. *)
Start ==
    /\ phase = "LOBBY"
    /\ owner # None
    /\ phase' = "PLAYING"
    /\ UNCHANGED <<members, owner>>

End ==
    /\ phase = "PLAYING"
    /\ phase' = "FINISHED"
    /\ UNCHANGED <<members, owner>>

Reset ==
    /\ phase = "FINISHED"
    /\ owner # None
    /\ phase' = "LOBBY"
    /\ UNCHANGED <<members, owner>>

Next ==
    \/ \E c \in Conns : Join(c) \/ Leave(c)
    \/ Start \/ End \/ Reset

Spec == Init /\ [][Next]_vars
=============================================================================
