-------------------------------- MODULE Rpc --------------------------------
(* What an application may expect of calls into another process: one call   *)
(* at a time; the call is executed at most once, and only while the caller  *)
(* waits; it returns its own result or an error.                            *)
EXTENDS Naturals, SequencesExt

CONSTANT Error

VARIABLES
    asked,      \* number of calls made
    executed,   \* the calls that were executed, in order
    returned    \* per call that returned, whose result it got, or Error

vars == <<asked, executed, returned>>

Init ==
    /\ asked = 0
    /\ executed = <<>>
    /\ returned = <<>>

Waiting == Len(returned) < asked

Ask ==
    /\ ~Waiting
    /\ asked' = asked + 1
    /\ UNCHANGED <<executed, returned>>

Execute ==
    /\ Waiting
    /\ ~Contains(executed, asked)
    /\ executed' = Append(executed, asked)
    /\ UNCHANGED <<asked, returned>>

Return ==
    /\ Waiting
    /\ \E r \in {asked, Error} :
        /\ r # Error => Contains(executed, r)
        /\ returned' = Append(returned, r)
    /\ UNCHANGED <<asked, executed>>

Next == Ask \/ Execute \/ Return

Spec == Init /\ [][Next]_vars
=============================================================================
