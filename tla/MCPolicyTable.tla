--------------------------- MODULE MCPolicyTable ---------------------------
(* Two tools, amps and am, and two views besides the empty one. *)
EXTENDS PolicyTable

CONSTANTS am, amps, net, sch, a, b

MCTools == {AnyTool, am, amps}
MCViews == {AnyView, net, sch}

NoPrefixes == {<<t, t>> : t \in MCTools}
AmPrefix == NoPrefixes \cup {<<am, amps>>}

dotted(t, vs) == [tool |-> t, dotted |-> TRUE, views |-> vs]
alone(t) == [tool |-> t, dotted |-> FALSE, views |-> <<>>]

\* Every rank twice, an overlap of view lists, and a tool alone.
MCNames ==
    { dotted(amps, <<net>>), dotted(amps, <<net, sch>>),
      dotted(amps, <<AnyView>>), dotted(AnyTool, <<net>>),
      dotted(AnyTool, <<AnyView>>), dotted(am, <<net>>), alone(am) }

OverlapNames ==
    { dotted(amps, <<net>>), dotted(amps, <<net, sch>>),
      dotted(AnyTool, <<AnyView>>) }

MCTexts == { <<a>>, <<b, APPEND>> }
MCDefault == <<b>>
=============================================================================
