------------------------------ MODULE LinkLock ------------------------------
(***************************************************************************)
(* What the semaphore of vcontrold promises (header comment of             *)
(* src/src/framer.c): everything from opening the link to the heating      *)
(* until closing it again belongs to one session, and no other session     *)
(* opens or closes the link meanwhile.  The promise is void for good once  *)
(* somebody gives the lock back without having it, or a second semaphore   *)
(* guards the same link.                                                   *)
(***************************************************************************)
CONSTANT Session        \* the session processes that compete for the link

VARIABLES users,        \* the sessions between opening and closing the link
          void          \* nothing is promised any more

vars == <<users, void>>

Init == users = {} /\ void = FALSE

Enter(s) == /\ ~void /\ users = {}
            /\ users' = {s}
            /\ UNCHANGED void

Leave(s) == /\ ~void /\ users = {s}
            /\ users' = {}
            /\ UNCHANGED void

\* Whoever breaks the rules; from then on anybody may be on the link.
Void == /\ void' = TRUE
        /\ users' \subseteq Session

Next == (\E s \in Session : Enter(s) \/ Leave(s)) \/ Void

Spec == Init /\ [][Next]_vars
=============================================================================
