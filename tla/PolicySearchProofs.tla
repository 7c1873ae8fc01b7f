------------------------- MODULE PolicySearchProofs -------------------------
(***************************************************************************)
(* What findPolicyEntry answers in an array of any length, for any tool    *)
(* and view: its loop, turn by turn, and the order of dmspath.txt.         *)
(***************************************************************************)
EXTENDS PolicyTableProofs

\* A set of numbers has a least one.
LEMMA LeastOf ==
  ASSUME NEW s \in SUBSET Nat, s # {}
  PROVE  Min(s) \in s /\ \A y \in s : Min(s) <= y
  <1> DEFINE R == OpToRel(<, Nat)
  <1>1. IsWellFoundedOn(R, Nat)
    BY NatLessThanWellFounded, Zenon
  <1>2. \A x, y \in Nat : <<y, x>> \in R <=> y < x
    BY DEF OpToRel
  <1> HIDE DEF R
  <1>3. PICK x \in s : \A y \in s : ~(<<y, x>> \in R)
    BY <1>1, WFMin
  <1>4. x \in s /\ \A y \in s : x <= y
    <2>1. \A y \in s : ~(y < x)
      BY <1>2, <1>3
    <2> QED BY <2>1
  <1> QED BY <1>4 DEF Min

\* The fold over the places in M, from the last of them down.
Turns(g, M, t, v) ==
    g = [s \in SUBSET M |->
            IF s = {} THEN NoMatch
            ELSE Examine(Min(s), g[s \ {Min(s)}], t, v)]

\* There is one for the places up to any n.
LEMMA TurnsExist ==
  ASSUME NEW n \in Nat, NEW t, NEW v
  PROVE  \E g : Turns(g, 1..n, t, v)
  <1> DEFINE T == {k \in Nat : k <= n => \E g : Turns(g, (n + 1 - k)..n, t, v)}
  <1>1. 0 \in T
    <2> DEFINE g == [s \in SUBSET ((n + 1)..n) |-> NoMatch]
    <2>1. \A s \in SUBSET ((n + 1)..n) : s = {}
      OBVIOUS
    <2>2. Turns(g, (n + 1)..n, t, v)
      BY <2>1 DEF Turns
    <2>3. \E e : Turns(e, (n + 1)..n, t, v)
      BY <2>2
    <2>4. n + 1 - 0 = n + 1
      OBVIOUS
    <2> QED BY <2>3, <2>4
  <1>2. ASSUME NEW k \in Nat, k \in T PROVE k + 1 \in T
    <2> SUFFICES ASSUME k + 1 <= n
                 PROVE  \E e : Turns(e, (n + 1 - (k + 1))..n, t, v)
      OBVIOUS
    <2> DEFINE m == n - k
               M == (m + 1)..n
               L == m..n
    <2>1. m \in Nat /\ m >= 1 /\ m <= n /\ n + 1 - k = m + 1 /\ n + 1 - (k + 1) = m /\ k <= n
      OBVIOUS
    <2>2. PICK g : Turns(g, M, t, v)
      BY <1>2, <2>1
    <2> HIDE DEF m
    <2> DEFINE h == [s \in SUBSET L |->
                       IF s = {} THEN NoMatch
                       ELSE IF m \in s THEN Examine(m, g[s \ {m}], t, v) ELSE g[s]]
    <2>3. M \in SUBSET Nat /\ L \in SUBSET Nat /\ M = L \ {m} /\ \A i \in L : m <= i
      BY <2>1
    <2> HIDE DEF M, L
    <2>4. \A s \in SUBSET M : s \in SUBSET L /\ m \notin s /\ h[s] = g[s]
      <3>1. g[{}] = NoMatch
        BY <2>2 DEF Turns
      <3> QED BY <2>3, <3>1
    <2>5. ASSUME NEW s \in SUBSET L
          PROVE  h[s] = IF s = {} THEN NoMatch
                        ELSE Examine(Min(s), h[s \ {Min(s)}], t, v)
      <3>1. CASE s = {}
        BY <3>1
      <3>2. CASE s # {} /\ m \in s
        <4>1. Min(s) \in s /\ \A y \in s : Min(s) <= y
          BY <2>3, <3>2, LeastOf
        <4>2. Min(s) = m
          <5>1. Min(s) <= m /\ m <= Min(s) /\ Min(s) \in Nat /\ m \in Nat
            BY <2>1, <2>3, <3>2, <4>1
          <5> QED BY <5>1
        <4>3. s \ {m} \in SUBSET M
          BY <2>3
        <4>4. h[s] = Examine(m, g[s \ {m}], t, v)
          BY <3>2
        <4> HIDE DEF h
        <4> QED BY <2>4, <3>2, <4>2, <4>3, <4>4
      <3>3. CASE s # {} /\ m \notin s
        <4>1. s \in SUBSET M /\ s \ {Min(s)} \in SUBSET M
          BY <2>3, <3>3
        <4>2. g[s] = Examine(Min(s), g[s \ {Min(s)}], t, v)
          BY <2>2, <3>3, <4>1 DEF Turns
        <4> HIDE DEF h
        <4> QED BY <2>4, <3>3, <4>1, <4>2
      <3> QED BY <3>1, <3>2, <3>3
    <2>6. h = [s \in SUBSET L |-> h[s]]
      OBVIOUS
    <2> HIDE DEF h
    <2>7. Turns(h, L, t, v)
      BY <2>5, <2>6 DEF Turns
    <2>8. Turns(h, (n + 1 - (k + 1))..n, t, v)
      BY <2>1, <2>7 DEF L
    <2> QED BY <2>8
  <1>3. n \in T
    <2> HIDE DEF T
    <2> QED BY <1>1, <1>2, AllNumbers
  <1>4. n + 1 - n = 1
    OBVIOUS
  <1> QED BY <1>3, <1>4

\* What the loop of findPolicyEntry has found at its end.
FoundAtEnd(t, v) ==
    FoldRightDomain(LAMBDA i, f : Examine(i, f, t, v), table, NoMatch)

\* The loop of findPolicyEntry, turn by turn: F[j] is what is found when the
\* entries from the last down to the one at j have been looked at.
LEMMA SearchIsLoop ==
  ASSUME TableInv, NEW t, NEW v
  PROVE  \E F : /\ F[Len(table) + 1] = NoMatch
                /\ \A j \in 1..Len(table) : F[j] = Examine(j, F[j + 1], t, v)
                /\ FoundAtEnd(t, v) = F[1]
  <1> DEFINE n == Len(table)
             D == DOMAIN table
             V(g) == [s \in SUBSET D |->
                        IF s = {} THEN NoMatch
                        ELSE Examine([i \in D |-> i][Min(s)], g[s \ {Min(s)}], t, v)]
             found == FoundAtEnd(t, v)
  <1>1. D = 1..n /\ n \in Nat
    BY TableGrows DEF TableInv
  <1>2. found = (CHOOSE g : g = V(g))[D]
    BY DEF FoundAtEnd, FoldRightDomain, FoldRight, MapThenFoldSet
  <1>3. ASSUME NEW g PROVE g = V(g) <=> Turns(g, D, t, v)
    <2>1. \A s \in SUBSET D : s # {} => [i \in D |-> i][Min(s)] = Min(s)
      <3> SUFFICES ASSUME NEW s \in SUBSET D, s # {} PROVE [i \in D |-> i][Min(s)] = Min(s)
        OBVIOUS
      <3>1. s \in SUBSET Nat
        BY <1>1
      <3>2. Min(s) \in D
        BY <3>1, LeastOf
      <3> QED BY <3>2
    <2>2. V(g) = [s \in SUBSET D |->
                     IF s = {} THEN NoMatch
                     ELSE Examine(Min(s), g[s \ {Min(s)}], t, v)]
      BY <2>1
    <2> QED BY <2>2 DEF Turns
  <1>4. PICK g : Turns(g, D, t, v) /\ found = g[D]
    <2>1. \E g : Turns(g, D, t, v)
      BY <1>1, TurnsExist
    <2>2. \E g : g = V(g)
      BY <1>3, <2>1
    <2> DEFINE c == CHOOSE g : g = V(g)
    <2>3. c = V(c)
      BY <2>2
    <2>4. found = c[D]
      BY <1>2
    <2> HIDE DEF c, V, found
    <2> QED BY <1>3, <2>3, <2>4
  <1> HIDE DEF V, found
  <1> DEFINE F == [j \in 1..(n + 1) |-> g[j..n]]
  <1>5. \A s \in SUBSET D : g[s] = IF s = {} THEN NoMatch
                                   ELSE Examine(Min(s), g[s \ {Min(s)}], t, v)
    BY <1>4 DEF Turns
  <1>6. F[n + 1] = NoMatch
    <2>1. (n + 1)..n = {} /\ n + 1 \in 1..(n + 1)
      BY <1>1
    <2> QED BY <1>5, <2>1
  <1>7. ASSUME NEW j \in 1..n PROVE F[j] = Examine(j, F[j + 1], t, v)
    <2>1. /\ j..n \in SUBSET D /\ j..n # {} /\ j..n \in SUBSET Nat
          /\ (j..n) \ {j} = (j + 1)..n /\ j \in j..n /\ \A i \in j..n : j <= i
          /\ j \in 1..(n + 1) /\ j + 1 \in 1..(n + 1)
      BY <1>1
    <2>2. Min(j..n) = j
      <3>1. Min(j..n) \in j..n /\ \A y \in j..n : Min(j..n) <= y
        BY <2>1, LeastOf
      <3>2. Min(j..n) <= j /\ j <= Min(j..n) /\ Min(j..n) \in Nat
        BY <2>1, <3>1
      <3> QED BY <3>2
    <2>3. g[j..n] = Examine(j, g[(j + 1)..n], t, v)
      BY <1>5, <2>1, <2>2
    <2> QED BY <2>1, <2>3
  <1>8. found = F[1]
    <2>1. 1 \in 1..(n + 1)
      BY <1>1
    <2> QED BY <1>1, <1>4, <2>1
  <1> HIDE DEF F
  <1> QED BY <1>6, <1>7, <1>8 DEF found

\* The four tests of a turn of the loop, the first that holds deciding.
IsExact(n, t, v) == matchToolName(n, t) /\ matchvName(n, v)
IsWildExt(n, t, v) ==
    ~IsExact(n, t, v) /\ matchToolName(n, t) /\ matchvName(n, AnyView)
IsWildTool(n, t, v) ==
    /\ ~IsExact(n, t, v) /\ ~IsWildExt(n, t, v)
    /\ matchToolName(n, AnyTool) /\ matchvName(n, v)
IsWildAll(n, t, v) ==
    /\ ~IsExact(n, t, v) /\ ~IsWildExt(n, t, v) /\ ~IsWildTool(n, t, v)
    /\ matchToolName(n, AnyTool) /\ matchvName(n, AnyView)

\* The places in the array at which each holds.
Exact(t, v) == {i \in DOMAIN table : IsExact(table[i].name, t, v)}
Ext(t, v) == {i \in DOMAIN table : IsWildExt(table[i].name, t, v)}
Tool(t, v) == {i \in DOMAIN table : IsWildTool(table[i].name, t, v)}
All(t, v) == {i \in DOMAIN table : IsWildAll(table[i].name, t, v)}

\* From j on, k is the last place of S, or 0 when there is none.
IsLast(S, k, j) ==
    \/ k = 0 /\ \A i \in S : i < j
    \/ k \in S /\ k >= j /\ \A i \in S : i <= k

\* What has been found when the entries from j on have been looked at: an exact
\* match ends the search, else each candidate is the last of its kind.
FoundFrom(f, j, t, v) ==
    /\ f \in [exact : Nat, WildExt : Nat, WildTool : Nat, WildAll : Nat]
    /\ IsLast(Exact(t, v), f.exact, j)
    /\ f.exact = 0 =>
        /\ IsLast(Ext(t, v), f.WildExt, j)
        /\ IsLast(Tool(t, v), f.WildTool, j)
        /\ IsLast(All(t, v), f.WildAll, j)

\* One place more is looked at.
LEMMA LastStep ==
  ASSUME NEW S \in SUBSET Nat, NEW j \in Nat, j # 0, NEW k, IsLast(S, k, j + 1)
  PROVE  /\ j \notin S => IsLast(S, k, j)
         /\ j \in S => IsLast(S, IF k = 0 THEN j ELSE k, j)
  <1>1. CASE k = 0 /\ \A i \in S : i < j + 1
    <2>1. \A i \in S : i <= j
      BY <1>1
    <2>2. j \notin S => \A i \in S : i < j
      BY <2>1
    <2> QED BY <1>1, <2>1, <2>2 DEF IsLast
  <1>2. CASE k \in S /\ k >= j + 1 /\ \A i \in S : i <= k
    BY <1>2 DEF IsLast
  <1> QED BY <1>1, <1>2 DEF IsLast

\* A turn of the loop keeps what it has found.
LEMMA TurnKeeps ==
  ASSUME TableInv, NEW t, NEW v, NEW j \in DOMAIN table, NEW f, FoundFrom(f, j + 1, t, v)
  PROVE  FoundFrom(Examine(j, f, t, v), j, t, v)
  <1> DEFINE n == table[j].name
             g == Examine(j, f, t, v)
             X == Exact(t, v)
             E == Ext(t, v)
             W == Tool(t, v)
             A == All(t, v)
             First(k) == IF k = 0 THEN j ELSE k
  <1>1. DOMAIN table \in SUBSET Nat /\ j \in Nat /\ j # 0
    BY TableGrows DEF TableInv
  <1>2. /\ X \in SUBSET Nat /\ E \in SUBSET Nat /\ W \in SUBSET Nat /\ A \in SUBSET Nat
    BY <1>1 DEF Exact, Ext, Tool, All
  <1>3. /\ j \in X <=> IsExact(n, t, v)
        /\ j \in E <=> IsWildExt(n, t, v)
        /\ j \in W <=> IsWildTool(n, t, v)
        /\ j \in A <=> IsWildAll(n, t, v)
    BY DEF Exact, Ext, Tool, All
  <1>4. /\ f \in [exact : Nat, WildExt : Nat, WildTool : Nat, WildAll : Nat]
        /\ IsLast(X, f.exact, j + 1)
        /\ f.exact = 0 => /\ IsLast(E, f.WildExt, j + 1)
                          /\ IsLast(W, f.WildTool, j + 1)
                          /\ IsLast(A, f.WildAll, j + 1)
    BY DEF FoundFrom
  <1>5. g = IF f.exact # 0 THEN f
            ELSE IF j \in X THEN [f EXCEPT !.exact = j]
            ELSE IF j \in E THEN [f EXCEPT !.WildExt = First(f.WildExt)]
            ELSE IF j \in W THEN [f EXCEPT !.WildTool = First(f.WildTool)]
            ELSE IF j \in A THEN [f EXCEPT !.WildAll = First(f.WildAll)]
            ELSE f
    BY <1>3 DEF Examine, IsExact, IsWildExt, IsWildTool, IsWildAll
  <1>6. /\ j \in X => j \notin E /\ j \notin W /\ j \notin A
        /\ j \in E => j \notin W /\ j \notin A
        /\ j \in W => j \notin A
    BY <1>3 DEF IsWildExt, IsWildTool, IsWildAll
  <1> SUFFICES /\ g \in [exact : Nat, WildExt : Nat, WildTool : Nat, WildAll : Nat]
               /\ IsLast(X, g.exact, j)
               /\ g.exact = 0 => /\ IsLast(E, g.WildExt, j)
                                 /\ IsLast(W, g.WildTool, j)
                                 /\ IsLast(A, g.WildAll, j)
    BY DEF FoundFrom
  <1> HIDE DEF g, X, E, W, A
  <1>7. CASE f.exact # 0
    <2>1. g = f
      BY <1>5, <1>7
    <2>2. IsLast(X, f.exact, j)
      BY <1>1, <1>2, <1>4, <1>7 DEF IsLast
    <2> QED BY <1>4, <1>7, <2>1, <2>2
  <1>8. CASE f.exact = 0 /\ j \in X
    <2>1. /\ g \in [exact : Nat, WildExt : Nat, WildTool : Nat, WildAll : Nat]
          /\ g.exact = j
      BY <1>1, <1>4, <1>5, <1>8
    <2>2. IsLast(X, j, j)
      BY <1>1, <1>2, <1>4, <1>8, LastStep
    <2> QED BY <1>1, <2>1, <2>2
  <1>9. CASE f.exact = 0 /\ j \notin X
    <2>1. /\ j \notin X => IsLast(X, f.exact, j)
          /\ j \notin E => IsLast(E, f.WildExt, j)
          /\ j \notin W => IsLast(W, f.WildTool, j)
          /\ j \notin A => IsLast(A, f.WildAll, j)
          /\ j \in E => IsLast(E, First(f.WildExt), j)
          /\ j \in W => IsLast(W, First(f.WildTool), j)
          /\ j \in A => IsLast(A, First(f.WildAll), j)
      BY <1>1, <1>2, <1>4, <1>9, LastStep
    <2>2. First(f.WildExt) \in Nat /\ First(f.WildTool) \in Nat /\ First(f.WildAll) \in Nat
      BY <1>1, <1>4
    <2> HIDE DEF First
    <2>3. CASE j \in E
      <3>1. g = [f EXCEPT !.WildExt = First(f.WildExt)]
        BY <1>5, <1>9, <2>3
      <3> QED BY <1>4, <1>6, <1>9, <2>1, <2>2, <2>3, <3>1
    <2>4. CASE j \in W
      <3>1. g = [f EXCEPT !.WildTool = First(f.WildTool)]
        BY <1>5, <1>6, <1>9, <2>4
      <3> QED BY <1>4, <1>6, <1>9, <2>1, <2>2, <2>4, <3>1
    <2>5. CASE j \in A
      <3>1. g = [f EXCEPT !.WildAll = First(f.WildAll)]
        BY <1>5, <1>6, <1>9, <2>5
      <3> QED BY <1>4, <1>6, <1>9, <2>1, <2>2, <2>5, <3>1
    <2>6. CASE j \notin E /\ j \notin W /\ j \notin A
      <3>1. g = f
        BY <1>5, <1>9, <2>6
      <3> QED BY <1>4, <1>9, <2>1, <2>6, <3>1
    <2> QED BY <2>3, <2>4, <2>5, <2>6
  <1> QED BY <1>7, <1>8, <1>9

\* At its end the loop has found the last exact match or, when there is none, the
\* last match of each other kind.
LEMMA SearchFinds ==
  ASSUME TableInv, NEW t, NEW v
  PROVE  FoundFrom(FoundAtEnd(t, v), 1, t, v)
  <1> DEFINE n == Len(table)
  <1>1. n \in Nat /\ DOMAIN table = 1..n
    BY TableGrows DEF TableInv
  <1>2. PICK F : /\ F[n + 1] = NoMatch
                 /\ \A j \in 1..n : F[j] = Examine(j, F[j + 1], t, v)
                 /\ FoundAtEnd(t, v) = F[1]
    BY SearchIsLoop
  <1> HIDE DEF n
  <1> DEFINE T == {k \in Nat : k <= n => FoundFrom(F[n + 1 - k], n + 1 - k, t, v)}
  <1>3. 0 \in T
    <2>1. n + 1 - 0 = n + 1
      BY <1>1
    <2>2. \A i \in DOMAIN table : i < n + 1
      BY <1>1
    <2>3. FoundFrom(NoMatch, n + 1, t, v)
      BY <2>2 DEF FoundFrom, NoMatch, IsLast, Exact, Ext, Tool, All
    <2> QED BY <1>2, <2>1, <2>3
  <1>4. ASSUME NEW k \in Nat, k \in T PROVE k + 1 \in T
    <2> SUFFICES ASSUME k + 1 <= n
                 PROVE  FoundFrom(F[n + 1 - (k + 1)], n + 1 - (k + 1), t, v)
      OBVIOUS
    <2> DEFINE j == n - k
    <2>1. /\ j \in 1..n /\ n + 1 - k = j + 1 /\ n + 1 - (k + 1) = j /\ k <= n
      BY <1>1
    <2>2. FoundFrom(F[j + 1], j + 1, t, v)
      BY <1>4, <2>1
    <2> HIDE DEF j
    <2>3. FoundFrom(Examine(j, F[j + 1], t, v), j, t, v)
      BY <1>1, <2>1, <2>2, TurnKeeps
    <2> QED BY <1>2, <2>1, <2>3
  <1>5. n \in T
    <2> HIDE DEF T
    <2> QED BY <1>1, <1>3, <1>4, AllNumbers
  <1>6. n + 1 - n = 1
    BY <1>1
  <1> QED BY <1>1, <1>2, <1>5, <1>6

\* No tool's name is the beginning of another's.
NoPrefix == ToolPrefix = {<<t, t>> : t \in Tools}

\* The kind of a match is its rank in dmspath.txt.
LEMMA RankOfMatch ==
  ASSUME NoPrefix, NEW n \in Name, NEW t \in Tools, NEW v \in Views
  PROVE  /\ Rank(n, t, v) = IF IsExact(n, t, v) THEN 1
                            ELSE IF IsWildExt(n, t, v) THEN 2
                            ELSE IF IsWildTool(n, t, v) THEN 3
                            ELSE IF IsWildAll(n, t, v) THEN 4
                            ELSE 5
         /\ (IsWildExt(n, t, v) /\ n = Default) => t = AnyTool
         /\ (IsWildTool(n, t, v) /\ n = Default) => v = AnyView
         /\ n = Default => \/ IsExact(n, t, v) \/ IsWildExt(n, t, v)
                           \/ IsWildTool(n, t, v) \/ IsWildAll(n, t, v)
         /\ t = AnyTool => ~IsWildTool(n, t, v) /\ ~IsWildAll(n, t, v)
         /\ v = AnyView => ~IsWildAll(n, t, v)
  <1>1. n.tool \in Tools /\ n.dotted \in BOOLEAN /\ AnyTool \in Tools
    BY NameAssumption DEF Name
  <1>2. \A u \in Tools : matchToolName(n, u) <=> n.tool = u
    BY <1>1 DEF NoPrefix, matchToolName
  <1>3. /\ matchToolName(n, t) <=> n.tool = t
        /\ matchToolName(n, AnyTool) <=> n.tool = AnyTool
    BY <1>1, <1>2
  <1>4. \A w : matchvName(n, w) <=> ~n.dotted \/ w \in ToSet(n.views)
    BY DEF matchvName
  <1>5. n = Default => /\ n.tool = AnyTool /\ n.dotted
                       /\ \A w : w \in ToSet(n.views) <=> w = AnyView
    <2>1. \A w : w \in ToSet(<<AnyView>>) <=> w = AnyView
      BY DEF ToSet
    <2> QED BY <2>1 DEF Default
  <1> DEFINE here == n.tool = t
             any == n.tool = AnyTool
             view == ~n.dotted \/ v \in ToSet(n.views)
             all == ~n.dotted \/ AnyView \in ToSet(n.views)
  <1>6. /\ IsExact(n, t, v) <=> here /\ view
        /\ IsWildExt(n, t, v) <=> here /\ ~view /\ all
        /\ IsWildTool(n, t, v) <=> ~(here /\ view) /\ ~(here /\ all) /\ any /\ view
        /\ IsWildAll(n, t, v) <=> ~(here /\ view) /\ ~(here /\ all) /\ ~(any /\ view)
                                  /\ any /\ all
    BY <1>3, <1>4 DEF IsExact, IsWildExt, IsWildTool, IsWildAll
  <1>7. Rank(n, t, v) = IF here /\ view THEN 1
                        ELSE IF here /\ ~view /\ all THEN 2
                        ELSE IF any /\ view THEN 3
                        ELSE IF any /\ ~view /\ all THEN 4
                        ELSE 5
    BY DEF Rank
  <1>8. n = Default => any /\ all /\ (view <=> v = AnyView)
    BY <1>5
  <1>9. /\ t = AnyTool => (any <=> here)
        /\ any /\ here => t = AnyTool
        /\ v = AnyView => (all <=> view)
    OBVIOUS
  <1> HIDE DEF here, any, view, all
  <1>10. Rank(n, t, v) = IF IsExact(n, t, v) THEN 1
                         ELSE IF IsWildExt(n, t, v) THEN 2
                         ELSE IF IsWildTool(n, t, v) THEN 3
                         ELSE IF IsWildAll(n, t, v) THEN 4
                         ELSE 5
    BY <1>6, <1>7
  <1>11. /\ (IsWildExt(n, t, v) /\ n = Default) => t = AnyTool
         /\ (IsWildTool(n, t, v) /\ n = Default) => v = AnyView
         /\ n = Default => \/ IsExact(n, t, v) \/ IsWildExt(n, t, v)
                           \/ IsWildTool(n, t, v) \/ IsWildAll(n, t, v)
    BY <1>6, <1>8, <1>9
  <1>12. /\ t = AnyTool => ~IsWildTool(n, t, v) /\ ~IsWildAll(n, t, v)
         /\ v = AnyView => ~IsWildAll(n, t, v)
    BY <1>6, <1>9
  <1> QED BY <1>10, <1>11, <1>12

\* The search of one tool and view answers the last entry of the best rank.
LEMMA BestRankIsFound ==
  ASSUME NoPrefix, TypeOK, TableInv, NEW t \in Tools, NEW v \in Views
  PROVE  /\ findPolicyEntry(t, v) \in DOMAIN table
         /\ Rank(table[findPolicyEntry(t, v)].name, t, v) < 5
         /\ \A j \in DOMAIN table :
               \/ Rank(table[j].name, t, v) > Rank(table[findPolicyEntry(t, v)].name, t, v)
               \/ /\ Rank(table[j].name, t, v) = Rank(table[findPolicyEntry(t, v)].name, t, v)
                  /\ j <= findPolicyEntry(t, v)
  <1> DEFINE f == FoundAtEnd(t, v)
             p == findPolicyEntry(t, v)
             r(i) == Rank(table[i].name, t, v)
             D == DOMAIN table
             X == Exact(t, v)
             E == Ext(t, v)
             W == Tool(t, v)
             A == All(t, v)
  <1>1. D \in SUBSET (Nat \ {0}) /\ 1 \in D
    <2>1. D = 1..Len(table) /\ Len(table) \in Nat /\ Len(table) # 0
      <3>1. PICK S : table \in Seq(S)
        BY DEF TableInv, IsTable
      <3> QED BY <3>1, EmptySeq, LenProperties DEF TableInv
    <2> QED BY <2>1
  <1>2. \A i \in D : table[i].name \in Name
    <2> DEFINE T == [name : Names, value : Value]
    <2>1. table \in Seq(T)
      BY DEF TypeOK
    <2> HIDE DEF T
    <2>2. \A i \in D : table[i] \in T
      BY <2>1, LenProperties, ElementOfSeq
    <2> QED BY <2>2, NameAssumption DEF T
  <1>3. \A i \in D : r(i) = IF i \in X THEN 1 ELSE IF i \in E THEN 2
                            ELSE IF i \in W THEN 3 ELSE IF i \in A THEN 4 ELSE 5
    BY <1>2, RankOfMatch DEF Exact, Ext, Tool, All
  <1>4. /\ table[1].name = Default
        /\ 1 \in X \/ 1 \in E \/ 1 \in W \/ 1 \in A
        /\ 1 \in E => t = AnyTool
        /\ 1 \in W => v = AnyView
    <2>1. table[1].name = Default /\ table[1].name \in Name
      BY <1>1, <1>2 DEF TableInv, OneEntryPerName
    <2> QED BY <1>1, <2>1, RankOfMatch DEF Exact, Ext, Tool, All
  <1>5. /\ t = AnyTool => W = {} /\ A = {}
        /\ v = AnyView => A = {}
    BY <1>2, RankOfMatch DEF Tool, All
  <1>6. /\ f \in [exact : Nat, WildExt : Nat, WildTool : Nat, WildAll : Nat]
        /\ IsLast(X, f.exact, 1)
        /\ f.exact = 0 => /\ IsLast(E, f.WildExt, 1)
                          /\ IsLast(W, f.WildTool, 1)
                          /\ IsLast(A, f.WildAll, 1)
    BY SearchFinds DEF FoundFrom
  <1>7. X \in SUBSET D /\ E \in SUBSET D /\ W \in SUBSET D /\ A \in SUBSET D
    BY DEF Exact, Ext, Tool, All
  <1>8. ASSUME NEW S \in SUBSET D, NEW k, IsLast(S, k, 1)
        PROVE  (k = 0 /\ S = {}) \/ (k \in S /\ \A i \in S : i <= k)
    <2>1. \A i \in S : ~(i < 1)
      BY <1>1
    <2> QED BY <1>8, <2>1 DEF IsLast
  <1>9. p = IF f.exact # 0 THEN f.exact
            ELSE IF f.WildExt > 1 THEN f.WildExt
            ELSE IF f.WildTool > 1 THEN f.WildTool
            ELSE IF f.WildAll > 1 THEN f.WildAll
            ELSE 1
    BY DEF findPolicyEntry, FoundAtEnd
  <1> HIDE DEF f, p, X, E, W, A, D
  <1> SUFFICES /\ p \in D /\ r(p) < 5
               /\ \A j \in D : r(j) > r(p) \/ (r(j) = r(p) /\ j <= p)
    BY DEF p, D
  <1> HIDE DEF r
  <1>10. CASE f.exact # 0
    <2>1. p = f.exact /\ p \in X /\ \A i \in X : i <= p
      BY <1>6, <1>7, <1>8, <1>9, <1>10
    <2> QED BY <1>3, <1>7, <2>1
  <1>11. CASE f.exact = 0 /\ f.WildExt > 1
    <2>1. X = {} /\ p = f.WildExt /\ p \in E /\ \A i \in E : i <= p
      BY <1>1, <1>6, <1>7, <1>8, <1>9, <1>11
    <2> QED BY <1>3, <1>7, <2>1
  <1>12. CASE f.exact = 0 /\ ~(f.WildExt > 1)
    <2>1. X = {} /\ E \in SUBSET {1}
      <3>1. X = {}
        BY <1>1, <1>6, <1>7, <1>8, <1>12
      <3>2. E = {} \/ (f.WildExt \in E /\ \A i \in E : i <= f.WildExt)
        BY <1>6, <1>7, <1>8, <1>12
      <3>3. f.WildExt \in E => f.WildExt = 1
        BY <1>1, <1>6, <1>7, <1>12
      <3>4. \A i \in E : i \in Nat /\ i # 0
        BY <1>1, <1>7
      <3>5. \A i \in E : i = 1
        BY <3>2, <3>3, <3>4
      <3> QED BY <3>1, <3>5
    <2>2. CASE 1 \in E
      <3>1. W = {} /\ A = {} /\ E = {1}
        BY <1>4, <1>5, <2>1, <2>2
      <3>2. f.WildTool = 0 /\ f.WildAll = 0
        BY <1>6, <1>7, <1>8, <1>12, <3>1
      <3>3. p = 1
        BY <1>9, <1>12, <3>2
      <3> QED BY <1>1, <1>3, <2>1, <3>1, <3>3
    <2>3. CASE 1 \notin E /\ f.WildTool > 1
      <3>1. E = {} /\ p = f.WildTool /\ p \in W /\ \A i \in W : i <= p
        BY <1>1, <1>6, <1>7, <1>8, <1>9, <1>12, <2>1, <2>3
      <3>2. r(p) = 3 /\ p \in D
        BY <1>3, <1>7, <2>1, <3>1
      <3>3. \A j \in D : (r(j) = 3 /\ j \in W) \/ r(j) \in {4, 5}
        BY <1>3, <1>7, <2>1, <3>1
      <3> QED BY <3>1, <3>2, <3>3
    <2>4. CASE 1 \notin E /\ ~(f.WildTool > 1)
      <3>1. E = {}
        BY <2>1, <2>4
      <3>2. \A i \in W : i = 1
        <4>1. W = {} \/ (f.WildTool \in W /\ \A i \in W : i <= f.WildTool)
          BY <1>6, <1>7, <1>8, <1>12
        <4>2. f.WildTool \in W => f.WildTool = 1
          BY <1>1, <1>6, <1>7, <2>4
        <4>3. \A i \in W : i \in Nat /\ i # 0
          BY <1>1, <1>7
        <4> QED BY <4>1, <4>2, <4>3
      <3>3. CASE 1 \in W
        <4>1. A = {} /\ W = {1}
          BY <1>4, <1>5, <3>2, <3>3
        <4>2. f.WildAll = 0
          BY <1>6, <1>7, <1>8, <1>12, <4>1
        <4>3. p = 1
          BY <1>9, <1>12, <2>4, <4>2
        <4> QED BY <1>1, <1>3, <2>1, <3>1, <4>1, <4>3
      <3>4. CASE 1 \notin W
        <4>1. W = {} /\ 1 \in A
          BY <1>4, <2>1, <3>1, <3>2, <3>4
        <4>2. f.WildAll \in A /\ \A i \in A : i <= f.WildAll
          BY <1>6, <1>7, <1>8, <1>12, <4>1
        <4>3. p = f.WildAll
          <5>1. f.WildAll \in Nat /\ f.WildAll # 0
            BY <1>1, <1>7, <4>2
          <5> QED BY <1>9, <1>12, <2>4, <5>1
        <4>4. r(p) = 4 /\ p \in D
          BY <1>3, <1>7, <2>1, <3>1, <4>1, <4>2, <4>3
        <4>5. \A j \in D : (r(j) = 4 /\ j \in A) \/ r(j) = 5
          BY <1>3, <1>7, <2>1, <3>1, <4>1
        <4> QED BY <4>2, <4>3, <4>4, <4>5
      <3> QED BY <3>3, <3>4
    <2> QED BY <2>2, <2>3, <2>4
  <1> QED BY <1>10, <1>11, <1>12

\* The search for any tool and view, in any array of any length that definitions
\* lead to, answers the last entry of the best rank there is, though its tests
\* take an index of 0 for no match and so pass over a match at the first entry.
\* It does so only while no tool's name is the beginning of another's.
THEOREM LookupFollowsPriority ==
  ASSUME NoPrefix
  PROVE  Spec => []LookupPriority
  <1>1. TypeOK /\ TableInv => LookupPriority
    <2> SUFFICES ASSUME TypeOK, TableInv PROVE LookupPriority
      OBVIOUS
    <2> QED BY BestRankIsFound DEF LookupPriority
  <1> QED BY <1>1, TypeCorrect, TableAlways, PTL
=============================================================================
