----------------------------- MODULE PolicyMap -----------------------------
(***************************************************************************)
(* What a dms.pth file promises of one of its policies (libpath, rwpaths,  *)
(* worklib, workdir, tconfig): a value per tool.view name, the last one    *)
(* given to it, in which <append> stands for the value it had before.      *)
(***************************************************************************)
EXTENDS Sequences, SequencesExt

CONSTANTS Names, Texts, APPEND, Nothing, Default, DefaultValue

VARIABLE policy

Undefined == <<>>

Init == policy = [n \in Names |-> IF n = Default THEN DefaultValue ELSE Undefined]

\* With nothing to append, an element that names no directory stays.
Previous(old) == IF old = Undefined THEN <<Nothing>> ELSE old

Expanded(text, old) ==
    FlattenSeq([k \in DOMAIN text |->
        IF text[k] = APPEND THEN Previous(old) ELSE <<text[k]>>])

Define(n, text) == policy' = [policy EXCEPT ![n] = Expanded(text, @)]

Next == \E n \in Names, text \in Texts : Define(n, text)

Spec == Init /\ [][Next]_policy
=============================================================================
