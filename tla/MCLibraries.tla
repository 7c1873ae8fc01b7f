---------------------------- MODULE MCLibraries ----------------------------
(* Instances of Libraries: two users whose paths and working libraries differ, *)
(* with a session each, or two sessions of one user.                            *)
EXTENDS Libraries, TLC

CONSTANTS Ann, Bob

E(opt, dir) == [opt |-> opt, dir |-> dir]

\* Ann may write both libraries and makes her cellviews in the second, Bob the
\* other way round.
TwoPaths ==
    Ann :> <<E("RW", "A"), E("RW", "B"), E("WORK", AnyLib)>>
        @@ Bob :> <<E("UNIX", "D"), E("RW", "B"), E("RO", "A")>>

\* Ann asks for everything in the first library on her path, and for installs by
\* name too; Bob for what gets in her way.
TwoAsks ==
    Ann :> (Ops \X {AnyLib}) \cup {<<"install", "A">>}
        @@ Bob :> ({"readonly", "checkout", "checkin", "delete"} \X {AnyLib})
                    \cup {<<"install", "A">>}

TwoWorklibs == Ann :> "B" @@ Bob :> "A"

OwnSession == "a" :> Ann @@ "b" :> Bob
SameUser == "a" :> Ann @@ "b" :> Ann
=============================================================================
