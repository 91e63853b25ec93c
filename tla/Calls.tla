------------------------------- MODULE Calls --------------------------------
(***************************************************************************)
(* What client.c promises vclient: a list of commands is carried out in    *)
(* its order, each at most once and only when the result of the one before *)
(* has come back; what comes back as the result of a command is the result *)
(* of that command; and a list that is reported as done was done wholly.   *)
(***************************************************************************)
EXTENDS Naturals, Sequences

VARIABLES number,       \* how many commands there are
          executed,     \* the results of the commands that were carried out
          returned,     \* the results the caller has
          status        \* what the caller is told: "running", "ok" or "failed"

vars == <<number, executed, returned, status>>

Result(k) == [of : {{k}}, err : BOOLEAN]

Init == number \in Nat \ {0} /\ executed = <<>> /\ returned = <<>> /\ status = "running"

Execute == /\ Len(executed) = Len(returned) /\ Len(executed) < number
           /\ \E r \in Result(Len(executed) + 1) : executed' = Append(executed, r)
           /\ UNCHANGED <<number, returned, status>>

Return == /\ status = "running" /\ Len(returned) < Len(executed)
          /\ returned' = Append(returned, executed[Len(executed)])
          /\ UNCHANGED <<number, executed, status>>

Succeed == /\ status = "running" /\ Len(returned) = number
           /\ status' = "ok"
           /\ UNCHANGED <<number, executed, returned>>

Fail == /\ status = "running"
        /\ status' = "failed"
        /\ UNCHANGED <<number, executed, returned>>

Next == Execute \/ Return \/ Succeed \/ Fail

Spec == Init /\ [][Next]_vars
=============================================================================
