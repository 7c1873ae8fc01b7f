---------------------------- MODULE PolicyTable ----------------------------
(***************************************************************************)
(* One policy of dms.pth (libpath, rwpaths, worklib, workdir or tconfig)   *)
(* as src/iDMS keeps it: the array that the parser of fwidms.yacc fills, a *)
(* definition at a time and across $include files, and the search of it    *)
(* for a tool and a view in dmsC_functions2.c, which every operation on a  *)
(* cellview starts with.                                                   *)
(***************************************************************************)
EXTENDS Naturals, Sequences, SequencesExt

CONSTANTS
    Tools,       \* names of tools, AnyTool among them
    Views,       \* names of views, AnyView among them
    AnyTool,     \* the tool "*"
    AnyView,     \* the view "*"
    ToolPrefix,    \* pairs of tools, the first a prefix of the second
    Names,       \* the names that policies are defined for
    Elements,    \* the directories and libraries of a value
    APPEND,      \* <append>, or ^$
    Nothing,     \* an element that <append> left empty
    Texts,       \* the values as written
    DefaultValue,
    MaxDefinitions  \* bound: the definitions of a dms.pth

\* A name is tool.view1 view2 ... or, with no dot, a tool alone.
Name == [tool : Tools, dotted : BOOLEAN, views : Seq(Views)]
Default == [tool |-> AnyTool, dotted |-> TRUE, views |-> <<AnyView>>]

ASSUME NameAssumption ==
    /\ AnyTool \in Tools /\ AnyView \in Views
    /\ Names \subseteq Name /\ Default \in Names

ASSUME PrefixAssumption ==
    /\ ToolPrefix \subseteq Tools \X Tools
    /\ \A t \in Tools : <<t, t>> \in ToolPrefix

ASSUME TextAssumption ==
    /\ APPEND \notin Elements /\ Nothing \notin Elements /\ Nothing # APPEND
    /\ Texts \subseteq Seq(Elements \cup {APPEND}) \ {<<>>}
    /\ DefaultValue \in Seq(Elements) \ {<<>>}

ASSUME BoundAssumption == MaxDefinitions \in Nat

VARIABLES
    table,  \* the entries [name, value], in the order of the array
    defs    \* history: the names, in the order they were defined
vars == <<table, defs>>

Value == Seq(Elements \cup {Nothing}) \ {<<>>}

TypeOK ==
    /\ table \in Seq([name : Names, value : Value])
    /\ defs \in Seq(Names)

Init ==
    /\ table = <<[name |-> Default, value |-> DefaultValue]>>
    /\ defs = <<Default>>

-----------------------------------------------------------------------------
(* The parser.                                                              *)

\* The entry of the same name nearest before the one being defined, or 0.
OldEntry(n) == SelectLastInSeq(table, LAMBDA e : e.name = n)

\* Mutant: the entry at the start of the array, the default, is not looked at.
GETAPPEND_SkipsDefault(n) ==
    IF OldEntry(n) <= 1 THEN <<Nothing>> ELSE table[OldEntry(n)].value

GETAPPEND(n) ==
    IF OldEntry(n) = 0 THEN <<Nothing>> ELSE table[OldEntry(n)].value

\* Mutant: <append> is taken for the name of a directory.
NEWDIRLIB_Verbatim(n, text) == text

\* The value as written, <append> replaced.
NEWDIRLIB(n, text) ==
    FlattenSeq([k \in DOMAIN text |->
        IF text[k] = APPEND THEN GETAPPEND(n) ELSE <<text[k]>>])

\* Mutant: an old definition stays in the array.
FREEOLDDEF_KeepsOld(new) == table' = table \o <<new>>

\* The value moves to the old entry of the name, the new entry is dropped.
FREEOLDDEF(new) ==
    table' = IF OldEntry(new.name) = 0 THEN table \o <<new>>
             ELSE [table EXCEPT ![OldEntry(new.name)] = new]

\* NEWINFO, a value or string of the grammar, FREEOLDDEF.
Define(n, text) ==
    /\ Len(defs) <= MaxDefinitions
    /\ FREEOLDDEF([name |-> n, value |-> NEWDIRLIB(n, text)])
    /\ defs' = defs \o <<n>>

Next == \E n \in Names, text \in Texts : Define(n, text)

Spec == Init /\ [][Next]_vars

-----------------------------------------------------------------------------
(* The search.                                                              *)

\* strncmp over the length of the entry's tool.
matchToolName(n, t) ==
    IF n.dotted THEN <<n.tool, t>> \in ToolPrefix ELSE n.tool = t

matchvName(n, v) == ~n.dotted \/ v \in ToSet(n.views)

NoMatch == [exact |-> 0, WildExt |-> 0, WildTool |-> 0, WildAll |-> 0]

\* Mutant: the loop runs on past a match, and a later match replaces it.
Examine_RunsOn(i, found, t, v) ==
    LET n == table[i].name IN
    IF matchToolName(n, t) /\ matchvName(n, v) THEN [found EXCEPT !.exact = i]
    ELSE IF matchToolName(n, t) /\ matchvName(n, AnyView)
    THEN [found EXCEPT !.WildExt = i]
    ELSE IF matchToolName(n, AnyTool) /\ matchvName(n, v)
    THEN [found EXCEPT !.WildTool = i]
    ELSE IF matchToolName(n, AnyTool) /\ matchvName(n, AnyView)
    THEN [found EXCEPT !.WildAll = i]
    ELSE found

\* One turn of the loop, from the last entry down; it ends at an exact match.
Examine(i, found, t, v) ==
    LET n == table[i].name
        First(k) == IF k = 0 THEN i ELSE k
    IN  IF found.exact # 0 THEN found
        ELSE IF matchToolName(n, t) /\ matchvName(n, v)
        THEN [found EXCEPT !.exact = i]
        ELSE IF matchToolName(n, t) /\ matchvName(n, AnyView)
        THEN [found EXCEPT !.WildExt = First(@)]
        ELSE IF matchToolName(n, AnyTool) /\ matchvName(n, v)
        THEN [found EXCEPT !.WildTool = First(@)]
        ELSE IF matchToolName(n, AnyTool) /\ matchvName(n, AnyView)
        THEN [found EXCEPT !.WildAll = First(@)]
        ELSE found

\* The tests are for an index > 0 in C, so a match at the first entry only
\* counts as the answer of last resort, which is that entry.
findPolicyEntry(t, v) ==
    LET found == FoldRightDomain(LAMBDA i, f : Examine(i, f, t, v),
                                 table, NoMatch)
    IN  IF found.exact # 0 THEN found.exact
        ELSE IF found.WildExt > 1 THEN found.WildExt
        ELSE IF found.WildTool > 1 THEN found.WildTool
        ELSE IF found.WildAll > 1 THEN found.WildAll
        ELSE 1

-----------------------------------------------------------------------------
(* Properties.                                                              *)

\* The rank of a name for a tool and a view, from dmspath.txt (FAQ 1):
\* <toolName>.<viewName> -> <toolName>.* -> *.<viewName> -> *.*; a tool alone
\* stands for its every view.  5 is for a name that does not concern them.
Rank(n, t, v) ==
    LET forView == ~n.dotted \/ v \in ToSet(n.views)
        forAll == n.dotted /\ AnyView \in ToSet(n.views)
    IN  IF n.tool = t /\ forView THEN 1
        ELSE IF n.tool = t /\ forAll THEN 2
        ELSE IF n.tool = AnyTool /\ forView THEN 3
        ELSE IF n.tool = AnyTool /\ forAll THEN 4
        ELSE 5

\* The search answers the last entry of the best rank there is.
LookupPriority ==
    \A t \in Tools, v \in Views :
        LET i == findPolicyEntry(t, v)
            rank == [j \in DOMAIN table |-> Rank(table[j].name, t, v)]
        IN  /\ rank[i] < 5
            /\ \A j \in DOMAIN table :
                rank[j] > rank[i] \/ (rank[j] = rank[i] /\ j <= i)

\* However often and wherever names are defined again, a name has one entry, so
\* that no search can find a value that was overridden; and the default, which
\* ends every search, stays first.
OneEntryPerName ==
    /\ \A i, j \in DOMAIN table : table[i].name = table[j].name => i = j
    /\ table[1].name = Default

\* "The definition ... that comes last will override all previous definitions"
\* (dmspath.txt): of the definitions of the best rank, the last one is found.
LastDefinitionWins ==
    \A t \in Tools, v \in Views :
        LET n == table[findPolicyEntry(t, v)].name
            last == SelectLastInSeq(defs, LAMBDA d :
                        Rank(d, t, v) = Rank(n, t, v))
        IN  defs[last] = n

\* The array, read name by name, is the map of the last definitions.
Map == INSTANCE PolicyMap WITH
    policy <- [n \in Names |->
                  IF OldEntry(n) = 0 THEN <<>> ELSE table[OldEntry(n)].value]

ImplementsPolicyMap == Map!Spec
=============================================================================
