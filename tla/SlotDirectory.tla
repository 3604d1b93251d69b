--------------------------- MODULE SlotDirectory ---------------------------
(***************************************************************************)
(* What the session registry promises its callers, without indices, tasks  *)
(* or directories: each (user, slot) names at most one session; a name is  *)
(* given to a session that never had one, never taken over from another    *)
(* session in one step; a session that lost its name never gets it back;   *)
(* and opening a slot costs nobody but the same user one of theirs.        *)
(***************************************************************************)
EXTENDS Naturals

CONSTANTS Users, Slots, Tokens, None

Keys == Users \X Slots

VARIABLES
    slotOf,   \* Keys -> the session the slot names, or None
    fresh     \* sessions that no slot has named yet

vars == <<slotOf, fresh>>

Init ==
    /\ slotOf = [k \in Keys |-> None]
    /\ fresh = Tokens

\* Open a slot that names nothing, at the cost of other slots of the same user.
Bind(k, t, E) ==
    /\ slotOf[k] = None
    /\ t \in fresh
    /\ \A e \in E : e[1] = k[1]
    /\ slotOf' = [e \in Keys |-> IF e = k THEN t ELSE IF e \in E THEN None ELSE slotOf[e]]
    /\ fresh' = fresh \ {t}

\* An idle session is collected.
Expire(k) ==
    /\ slotOf[k] # None
    /\ slotOf' = [slotOf EXCEPT ![k] = None]
    /\ UNCHANGED fresh

\* An attempt to open came to nothing: its token is spent.
Waste(t) ==
    /\ t \in fresh
    /\ fresh' = fresh \ {t}
    /\ UNCHANGED slotOf

\* The server restarts: no slot names a session, and what was in the making is lost.
Crash ==
    /\ slotOf' = [k \in Keys |-> None]
    /\ fresh' \subseteq fresh

Next ==
    \/ \E k \in Keys, t \in Tokens : \E E \in SUBSET Keys : Bind(k, t, E)
    \/ \E k \in Keys : Expire(k)
    \/ \E t \in Tokens : Waste(t)
    \/ Crash

Spec == Init /\ [][Next]_vars
=============================================================================
