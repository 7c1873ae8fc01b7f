------------------------- MODULE PolicyTableProofs -------------------------
(***************************************************************************)
(* What holds of the parser's array in PolicyTable for any names, values   *)
(* and definitions: its types, one entry for a name, and that it           *)
(* implements PolicyMap.                                                   *)
(***************************************************************************)
EXTENDS PolicyTable, SequenceTheorems, WellFoundedInduction, TLAPS

-----------------------------------------------------------------------------
(* Recursion: what FlattenSeq makes of the parts of a value.                *)

\* Induction, for a set of numbers.
LEMMA AllNumbers ==
  ASSUME NEW T, 0 \in T, \A k \in Nat : k \in T => k + 1 \in T
  PROVE  Nat \subseteq T
  <1> DEFINE U == Nat \ T
             R == OpToRel(<, Nat)
  <1>1. IsWellFoundedOn(R, Nat)
    BY NatLessThanWellFounded, Zenon
  <1>2. \A x, y \in Nat : <<y, x>> \in R <=> y < x
    BY DEF OpToRel
  <1> HIDE DEF R
  <1>3. ASSUME U # {} PROVE FALSE
    <2>1. \E x \in U : \A y \in U : ~(<<y, x>> \in R)
      BY <1>1, <1>3, WFMin
    <2>2. PICK x \in U : \A y \in U : ~(y < x)
      BY <1>2, <2>1
    <2>3. x \in Nat /\ x # 0
      BY <2>2
    <2>4. x - 1 \in Nat /\ x - 1 < x /\ x = (x - 1) + 1
      BY <2>3
    <2>5. x - 1 \in T
      BY <2>2, <2>4
    <2> QED BY <2>2, <2>4, <2>5
  <1> QED BY <1>3

\* The sequences of a sequence of sequences, one after the other, up to each.
FlattenStep(q, f) == [i \in 1..Len(q) |-> IF i = 1 THEN q[i] ELSE f[i - 1] \o q[i]]

\* FlattenSeq is what its recursive function makes of the last index.
LEMMA FlattenStops ==
  ASSUME NEW S, NEW q \in Seq(Seq(S)), q # <<>>
  PROVE  \E f : f = FlattenStep(q, f) /\ FlattenSeq(q) = f[Len(q)]
  <1> DEFINE Flat(g, k) ==
               g = [i \in 1..k |-> IF i = 1 THEN q[i] ELSE g[i - 1] \o q[i]]
             T == {k \in Nat : \E g : Flat(g, k)}
  <1>1. Len(q) \in Nat /\ Len(q) # 0
    BY EmptySeq, LenProperties
  <1>2. 0 \in T
    <2> DEFINE g == [i \in 1..0 |-> q[i]]
    <2>1. Flat(g, 0)
      OBVIOUS
    <2> QED BY <2>1
  <1>3. ASSUME NEW k \in Nat, k \in T PROVE k + 1 \in T
    <2>1. PICK g : Flat(g, k)
      BY <1>3
    <2> DEFINE h == [i \in 1..(k + 1) |->
                       IF i = 1 THEN q[i]
                       ELSE IF i = k + 1 THEN g[i - 1] \o q[i] ELSE g[i]]
    <2>2. \A i \in 1..k : h[i] = g[i]
      BY <2>1
    <2>3. \A i \in 1..(k + 1) : i = 1 \/ (i - 1 \in 1..k /\ h[i - 1] = g[i - 1])
      <3> HIDE DEF h
      <3>1. \A i \in 1..(k + 1) : i = 1 \/ i - 1 \in 1..k
        OBVIOUS
      <3> QED BY <2>2, <3>1
    <2>4. \A i \in 1..(k + 1) : h[i] = IF i = 1 THEN q[i] ELSE h[i - 1] \o q[i]
      <3> SUFFICES ASSUME NEW i \in 1..(k + 1)
                   PROVE  h[i] = IF i = 1 THEN q[i] ELSE h[i - 1] \o q[i]
        OBVIOUS
      <3>1. CASE i = 1
        BY <3>1
      <3>2. CASE i # 1 /\ i = k + 1
        <4>1. h[i] = g[i - 1] \o q[i]
          BY <3>2
        <4>2. h[i - 1] = g[i - 1]
          BY <2>3, <3>2
        <4> HIDE DEF h
        <4> QED BY <3>2, <4>1, <4>2
      <3>3. CASE i # 1 /\ i # k + 1
        <4>1. i \in 1..k
          BY <3>3
        <4>2. h[i] = g[i] /\ h[i - 1] = g[i - 1]
          BY <2>2, <2>3, <3>3, <4>1
        <4>3. g[i] = g[i - 1] \o q[i]
          BY <2>1, <3>3, <4>1
        <4> HIDE DEF h
        <4> QED BY <3>3, <4>2, <4>3
      <3> QED BY <3>1, <3>2, <3>3
    <2>5. h = [i \in 1..(k + 1) |-> h[i]]
      OBVIOUS
    <2> HIDE DEF h
    <2>6. Flat(h, k + 1)
      BY <2>4, <2>5
    <2>7. \E e : Flat(e, k + 1)
      BY <2>6
    <2> HIDE DEF Flat
    <2> QED BY <2>7
  <1>4. Len(q) \in T
    <2> HIDE DEF T
    <2> QED BY <1>1, <1>2, <1>3, AllNumbers
  <1>5. \E g : g = FlattenStep(q, g)
    BY <1>4 DEF FlattenStep
  <1> DEFINE f == CHOOSE g : g = [i \in 1..Len(q) |-> IF i = 1 THEN q[i] ELSE g[i - 1] \o q[i]]
  <1>6. f = FlattenStep(q, f)
    BY <1>5 DEF FlattenStep
  <1>7. FlattenSeq(q) = f[Len(q)]
    BY <1>1 DEF FlattenSeq
  <1> QED BY <1>6, <1>7

\* Of sequences that are not empty, FlattenSeq makes one that is not.
LEMMA Flattened ==
  ASSUME NEW S, NEW q \in Seq(Seq(S) \ {<<>>}), q # <<>>
  PROVE  FlattenSeq(q) \in Seq(S) \ {<<>>}
  <1>1. /\ Len(q) \in Nat /\ Len(q) # 0
        /\ \A i \in 1..Len(q) : q[i] \in Seq(S) \ {<<>>}
    BY EmptySeq, LenProperties, ElementOfSeq
  <1>2. q \in Seq(Seq(S))
    <2>1. q \in [1..Len(q) -> Seq(S)]
      BY <1>1, LenProperties
    <2> QED BY <1>1, <2>1, SeqDef
  <1>3. PICK f : f = FlattenStep(q, f) /\ FlattenSeq(q) = f[Len(q)]
    BY <1>2, FlattenStops
  <1>4. \A i \in 1..Len(q) : f[i] = IF i = 1 THEN q[i] ELSE f[i - 1] \o q[i]
    BY <1>3 DEF FlattenStep
  <1> DEFINE T == {k \in Nat : k \in 1..Len(q) => f[k] \in Seq(S) \ {<<>>}}
  <1>5. 0 \in T
    OBVIOUS
  <1>6. ASSUME NEW k \in Nat, k \in T PROVE k + 1 \in T
    <2> SUFFICES ASSUME k + 1 \in 1..Len(q) PROVE f[k + 1] \in Seq(S) \ {<<>>}
      OBVIOUS
    <2>1. CASE k = 0
      BY <1>1, <1>4, <2>1
    <2>2. CASE k # 0
      <3>1. k \in 1..Len(q) /\ k + 1 # 1 /\ (k + 1) - 1 = k
        BY <1>1, <2>2
      <3>2. f[k + 1] = f[k] \o q[k + 1]
        BY <1>4, <3>1
      <3>3. f[k] \in Seq(S) \ {<<>>} /\ q[k + 1] \in Seq(S)
        BY <1>1, <1>6, <3>1
      <3>4. f[k] \o q[k + 1] \in Seq(S) /\ Len(f[k] \o q[k + 1]) = Len(f[k]) + Len(q[k + 1])
        BY <3>3, ConcatProperties
      <3>5. Len(f[k]) \in Nat /\ Len(f[k]) # 0 /\ Len(q[k + 1]) \in Nat
        BY <3>3, EmptySeq, LenProperties
      <3>6. Len(f[k] \o q[k + 1]) # 0
        <4> DEFINE a == Len(f[k])
                   b == Len(q[k + 1])
        <4>1. a \in Nat /\ a # 0 /\ b \in Nat
          BY <3>5
        <4> HIDE DEF a, b
        <4>2. a + b # 0
          BY <4>1
        <4> QED BY <3>4, <4>2 DEF a, b
      <3> QED BY <3>2, <3>4, <3>6, EmptySeq
    <2> QED BY <2>1, <2>2
  <1>7. Len(q) \in T
    <2> HIDE DEF T
    <2> QED BY <1>1, <1>5, <1>6, AllNumbers
  <1> QED BY <1>1, <1>3, <1>7
-----------------------------------------------------------------------------
(* The array.                                                               *)

\* The entries may hold any value: what <append> expands to does not matter.
IsTable(s) == \E S : s \in Seq(S)

\* Sequences of any entries grow by any entry.
LEMMA TableGrows ==
  ASSUME NEW s, IsTable(s), NEW e
  PROVE  /\ IsTable(s \o <<e>>)
         /\ Len(s) \in Nat
         /\ DOMAIN s = 1 .. Len(s)
         /\ DOMAIN (s \o <<e>>) = 1 .. Len(s) + 1
         /\ \A i \in 1 .. Len(s) : (s \o <<e>>)[i] = s[i]
         /\ (s \o <<e>>)[Len(s) + 1] = e
  <1>1. PICK S : s \in Seq(S)
    BY DEF IsTable
  <1> DEFINE T == S \cup {e}
  <1>2. s \in Seq(T)
    BY <1>1
  <1>3. <<e>> \in Seq(T)
    OBVIOUS
  <1>4. s \o <<e>> \in Seq(T)
    BY <1>2, <1>3
  <1>5. QED
    BY <1>2, <1>3, <1>4 DEF IsTable

\* Replacing an entry leaves the rest.
LEMMA TableChanges ==
  ASSUME NEW s, IsTable(s), NEW k \in DOMAIN s, NEW e
  PROVE  /\ IsTable([s EXCEPT ![k] = e])
         /\ DOMAIN [s EXCEPT ![k] = e] = DOMAIN s
         /\ [s EXCEPT ![k] = e][k] = e
         /\ \A i \in DOMAIN s : i # k => [s EXCEPT ![k] = e][i] = s[i]
  <1>1. PICK S : s \in Seq(S)
    BY DEF IsTable
  <1> DEFINE T == S \cup {e}
  <1>2. s \in Seq(T)
    BY <1>1
  <1>3. [s EXCEPT ![k] = e] \in Seq(T)
    BY <1>2
  <1>4. QED
    BY <1>2, <1>3 DEF IsTable

\* While no name has two entries, the parser finds the one of a name, or none.
LEMMA OldEntryFinds ==
  ASSUME IsTable(table), OneEntryPerName, NEW n
  PROVE  \/ /\ OldEntry(n) = 0
            /\ \A i \in DOMAIN table : table[i].name # n
         \/ /\ OldEntry(n) \in DOMAIN table
            /\ table[OldEntry(n)].name = n
  <1> DEFINE I == { i \in 1 .. Len(table) : table[i].name = n }
  <1>1. DOMAIN table = 1 .. Len(table) /\ Len(table) \in Nat
    BY TableGrows
  <1>2. OldEntry(n) = IF I # {} THEN Max(I) ELSE 0
    BY DEF OldEntry, SelectLastInSeq
  <1>3. CASE I = {}
    BY <1>1, <1>2, <1>3
  <1>4. CASE I # {}
    <2>1. PICK k \in I : TRUE
      BY <1>4
    <2>2. \A i \in I : i = k
      BY <1>1, <2>1 DEF OneEntryPerName
    <2>3. I = {k} /\ k >= k
      BY <1>1, <2>1, <2>2
    <2>4. Max(I) = k
      BY <2>3 DEF Max
    <2>5. QED
      BY <1>1, <1>2, <1>4, <2>1, <2>4
  <1>5. QED
    BY <1>3, <1>4

-----------------------------------------------------------------------------
TableInv == IsTable(table) /\ table # <<>> /\ OneEntryPerName

\* The array is a sequence that is never empty, with one entry for a name and
\* the default first.
LEMMA TableAlways == Spec => []TableInv
  <1>1. Init => TableInv
    <2> SUFFICES ASSUME Init
                 PROVE  TableInv
      OBVIOUS
    <2> DEFINE e == [name |-> Default, value |-> DefaultValue]
    <2>1. table = <<e>> /\ e.name = Default
      BY DEF Init
    <2>2. table \in Seq({e}) /\ DOMAIN table = {1} /\ table[1] = e
      BY <2>1
    <2>3. QED
      BY <2>1, <2>2 DEF TableInv, IsTable, OneEntryPerName
  <1>2. TableInv /\ [Next]_vars => TableInv'
    <2> SUFFICES ASSUME TableInv, [Next]_vars
                 PROVE  TableInv'
      OBVIOUS
    <2>1. ASSUME NEW n \in Names, NEW text \in Texts, Define(n, text)
          PROVE  TableInv'
      <3> DEFINE new == [name |-> n, value |-> NEWDIRLIB(n, text)]
                 k == OldEntry(n)
      <3> HIDE DEF k
      <3>1. new.name = n
        OBVIOUS
      <3> HIDE DEF new
      <3>2. table' = IF k = 0 THEN table \o <<new>> ELSE [table EXCEPT ![k] = new]
        BY <2>1, <3>1 DEF Define, FREEOLDDEF, new, k
      <3>3. /\ DOMAIN table = 1 .. Len(table) /\ Len(table) \in Nat
            /\ 1 \in DOMAIN table
        BY TableGrows DEF TableInv, IsTable
      <3>4. CASE k = 0
        <4>1. table' = table \o <<new>>
          BY <3>2, <3>4
        <4>2. \A i \in DOMAIN table : table[i].name # n
          BY <3>3, <3>4, OldEntryFinds DEF TableInv, k
        <4>3. /\ IsTable(table')
              /\ DOMAIN table' = 1 .. Len(table) + 1
              /\ \A i \in 1 .. Len(table) : table'[i] = table[i]
              /\ table'[Len(table) + 1] = new
          BY <4>1, TableGrows DEF TableInv
        <4>4. QED
          BY <3>1, <3>3, <4>2, <4>3 DEF TableInv, OneEntryPerName
      <3>5. CASE k # 0
        <4>1. table' = [table EXCEPT ![k] = new]
          BY <3>2, <3>5
        <4>2. k \in DOMAIN table /\ table[k].name = n
          BY <3>5, OldEntryFinds DEF TableInv, k
        <4>3. /\ IsTable(table')
              /\ DOMAIN table' = DOMAIN table
              /\ table'[k] = new
              /\ \A i \in DOMAIN table : i # k => table'[i] = table[i]
          BY <4>1, <4>2, TableChanges DEF TableInv
        <4>4. \A i \in DOMAIN table : table'[i].name = table[i].name
          BY <3>1, <4>2, <4>3
        <4>5. QED
          BY <3>3, <4>3, <4>4 DEF TableInv, OneEntryPerName
      <3>6. QED
        BY <3>4, <3>5
    <2>2. CASE UNCHANGED vars
      BY <2>2 DEF vars, TableInv, IsTable, OneEntryPerName
    <2>3. QED
      BY <2>1, <2>2 DEF Next
  <1> QED BY <1>1, <1>2, PTL DEF Spec

\* Whatever is defined, in whatever order and however often, a name keeps one
\* entry and the default stays the first: FREEOLDDEF never has to look further
\* than the first old entry it meets, and the fallback of findPolicyEntry to the
\* first entry is always a fallback to *.*.
THEOREM OneEntryPerNameAlways == Spec => []OneEntryPerName
  <1>1. TableInv => OneEntryPerName
    BY DEF TableInv
  <1> QED BY <1>1, TableAlways, PTL

-----------------------------------------------------------------------------
(* Types.                                                                   *)

\* What replaces <append> is a value: the one the name has, or an element that
\* names no directory.
LEMMA AppendedIsValue ==
  ASSUME TypeOK, TableInv, NEW n
  PROVE  GETAPPEND(n) \in Value
  <1>1. CASE OldEntry(n) = 0
    <2>1. <<Nothing>> \in Seq(Elements \cup {Nothing}) /\ <<Nothing>> # <<>>
      OBVIOUS
    <2> QED BY <1>1, <2>1 DEF GETAPPEND, Value
  <1>2. CASE OldEntry(n) # 0
    <2>1. OldEntry(n) \in DOMAIN table
      BY <1>2, OldEntryFinds DEF TableInv
    <2>2. table[OldEntry(n)] \in [name : Names, value : Value]
      <3> DEFINE E == [name : Names, value : Value]
      <3>1. table \in Seq(E)
        BY DEF TypeOK
      <3> HIDE DEF E
      <3>2. table[OldEntry(n)] \in E
        BY <2>1, <3>1, LenProperties, ElementOfSeq
      <3> QED BY <3>2 DEF E
    <2> QED BY <1>2, <2>2 DEF GETAPPEND
  <1> QED BY <1>1, <1>2

\* A value read from dms.pth is a value, however <append> is used in it.
LEMMA ReadIsValue ==
  ASSUME TypeOK, TableInv, NEW n \in Names, NEW text \in Texts
  PROVE  NEWDIRLIB(n, text) \in Value
  <1> DEFINE S == Elements \cup {Nothing}
             q == [k \in DOMAIN text |->
                     IF text[k] = APPEND THEN GETAPPEND(n) ELSE <<text[k]>>]
  <1>1. /\ text \in Seq(Elements \cup {APPEND}) /\ text # <<>>
        /\ Len(text) \in Nat /\ Len(text) # 0
        /\ DOMAIN text = 1..Len(text)
        /\ \A k \in 1..Len(text) : text[k] \in Elements \cup {APPEND}
    <2>1. text \in Seq(Elements \cup {APPEND}) /\ text # <<>>
      BY TextAssumption
    <2> QED BY <2>1, EmptySeq, LenProperties, ElementOfSeq
  <1>2. GETAPPEND(n) \in Seq(S) \ {<<>>}
    BY AppendedIsValue DEF Value
  <1>3. \A k \in 1..Len(text) : q[k] \in Seq(S) \ {<<>>}
    <2> SUFFICES ASSUME NEW k \in 1..Len(text) PROVE q[k] \in Seq(S) \ {<<>>}
      OBVIOUS
    <2>1. CASE text[k] = APPEND
      BY <1>1, <1>2, <2>1
    <2>2. CASE text[k] # APPEND
      <3>1. text[k] \in S
        BY <1>1, <2>2
      <3> HIDE DEF S
      <3>2. <<text[k]>> \in Seq(S) /\ <<text[k]>> # <<>>
        BY <3>1
      <3> QED BY <1>1, <2>2, <3>2
    <2> QED BY <2>1, <2>2
  <1>4. q \in [1..Len(text) -> Seq(S) \ {<<>>}]
    <2>1. DOMAIN q = 1..Len(text) /\ q = [k \in 1..Len(text) |-> q[k]]
      BY <1>1
    <2> HIDE DEF q, S
    <2> QED BY <1>3, <2>1
  <1> HIDE DEF q, S
  <1>5. q \in Seq(Seq(S) \ {<<>>})
    BY <1>1, <1>4, SeqDef
  <1>6. q # <<>>
    <2>1. DOMAIN q = 1..Len(text) /\ 1 \in 1..Len(text)
      BY <1>1, <1>4
    <2>2. 1 \in DOMAIN q
      BY <2>1
    <2> QED BY <2>2
  <1>7. FlattenSeq(q) \in Seq(S) \ {<<>>}
    BY <1>5, <1>6, Flattened
  <1> QED BY <1>7 DEF NEWDIRLIB, Value, q, S

\* Every entry has a name and a value that is not empty: a lookup that finds an
\* entry has a directory or library to answer.
THEOREM TypeCorrect == Spec => []TypeOK
  <1>1. Init => TypeOK
    <2> SUFFICES ASSUME Init PROVE TypeOK
      OBVIOUS
    <2>1. Default \in Names /\ DefaultValue \in Value
      <3>1. DefaultValue \in Seq(Elements) /\ DefaultValue # <<>>
        BY TextAssumption
      <3>2. DefaultValue \in Seq(Elements \cup {Nothing})
        BY <3>1
      <3> QED BY <3>1, <3>2, NameAssumption DEF Value
    <2> QED BY <2>1 DEF Init, TypeOK
  <1>2. TypeOK /\ TableInv /\ [Next]_vars => TypeOK'
    <2> SUFFICES ASSUME TypeOK, TableInv, [Next]_vars PROVE TypeOK'
      OBVIOUS
    <2>1. ASSUME NEW n \in Names, NEW text \in Texts, Define(n, text)
          PROVE  TypeOK'
      <3> DEFINE E == [name : Names, value : Value]
                 new == [name |-> n, value |-> NEWDIRLIB(n, text)]
                 k == OldEntry(n)
      <3>1. new \in E /\ new.name = n
        BY ReadIsValue
      <3>2. table \in Seq(E)
        BY DEF TypeOK
      <3>3. table' = IF k = 0 THEN table \o <<new>> ELSE [table EXCEPT ![k] = new]
        BY <2>1, <3>1 DEF Define, FREEOLDDEF
      <3>4. k # 0 => k \in DOMAIN table
        BY OldEntryFinds DEF TableInv
      <3> HIDE DEF E, new, k
      <3>5. table' \in Seq(E)
        <4>1. <<new>> \in Seq(E)
          BY <3>1
        <4>2. CASE k = 0
          BY <3>2, <3>3, <4>1, <4>2, ConcatProperties
        <4>3. CASE k # 0
          BY <3>1, <3>2, <3>3, <3>4, <4>3, ExceptSeq
        <4> QED BY <4>2, <4>3
      <3>6. defs' \in Seq(Names)
        <4>1. defs \in Seq(Names) /\ <<n>> \in Seq(Names)
          BY DEF TypeOK
        <4> QED BY <2>1, <4>1, ConcatProperties DEF Define
      <3> QED BY <3>5, <3>6 DEF TypeOK, E
    <2>2. CASE UNCHANGED vars
      BY <2>2 DEF vars, TypeOK
    <2> QED BY <2>1, <2>2 DEF Next
  <1> QED BY <1>1, <1>2, TableAlways, PTL DEF Spec

-----------------------------------------------------------------------------
(* The array, read name by name, is PolicyMap.                              *)

\* What the array says of a name.
ValueOf(n) == IF OldEntry(n) = 0 THEN <<>> ELSE table[OldEntry(n)].value

\* Where there is an entry of a name, its value is the one read.
LEMMA ValueIsEntry ==
  ASSUME TableInv, NEW n
  PROVE  /\ \A i \in DOMAIN table : table[i].name = n => ValueOf(n) = table[i].value
         /\ (\A i \in DOMAIN table : table[i].name # n) => ValueOf(n) = <<>>
  <1>1. DOMAIN table = 1 .. Len(table) /\ Len(table) \in Nat
    BY TableGrows DEF TableInv
  <1>2. CASE OldEntry(n) = 0 /\ \A i \in DOMAIN table : table[i].name # n
    BY <1>2 DEF ValueOf
  <1>3. CASE OldEntry(n) \in DOMAIN table /\ table[OldEntry(n)].name = n
    <2>1. \A i \in DOMAIN table : table[i].name = n => i = OldEntry(n)
      BY <1>3 DEF TableInv, OneEntryPerName
    <2>2. OldEntry(n) # 0
      BY <1>1, <1>3
    <2> QED BY <1>3, <2>1, <2>2 DEF ValueOf
  <1> QED BY <1>2, <1>3, OldEntryFinds DEF TableInv

\* The same for every name: what a step needs to know of the array before it and
\* after it.
ReadsByName ==
    \A n \in Names :
        /\ \A i \in DOMAIN table : table[i].name = n => ValueOf(n) = table[i].value
        /\ (\A i \in DOMAIN table : table[i].name # n) => ValueOf(n) = <<>>

\* A definition changes the value of its name and of no other.
LEMMA OneValueChanges ==
  ASSUME TypeOK, TableInv, ReadsByName, ReadsByName',
         NEW n \in Names, NEW text \in Texts, Define(n, text)
  PROVE  /\ ValueOf(n)' = NEWDIRLIB(n, text)
         /\ \A m \in Names : m # n => ValueOf(m)' = ValueOf(m)
  <1> DEFINE new == [name |-> n, value |-> NEWDIRLIB(n, text)]
             k == OldEntry(n)
  <1>1. new.name = n /\ new.value = NEWDIRLIB(n, text)
    OBVIOUS
  <1>2. table' = IF k = 0 THEN table \o <<new>> ELSE [table EXCEPT ![k] = new]
    BY <1>1 DEF Define, FREEOLDDEF
  <1> HIDE DEF new, k
  <1>3. DOMAIN table = 1 .. Len(table) /\ Len(table) \in Nat
    BY TableGrows DEF TableInv
  <1>4. CASE k = 0
    <2>1. \A i \in DOMAIN table : table[i].name # n
      BY <1>3, <1>4, OldEntryFinds DEF TableInv, k
    <2>2. table' = table \o <<new>>
      BY <1>2, <1>4
    <2>3. /\ DOMAIN table' = 1 .. Len(table) + 1
          /\ \A i \in 1 .. Len(table) : table'[i] = table[i]
          /\ table'[Len(table) + 1] = new
      BY <2>2, TableGrows DEF TableInv
    <2>4. ValueOf(n)' = NEWDIRLIB(n, text)
      <3>1. Len(table) + 1 \in DOMAIN table'
        BY <1>3, <2>3
      <3> QED BY <1>1, <2>3, <3>1 DEF ReadsByName
    <2>5. ASSUME NEW m \in Names, m # n PROVE ValueOf(m)' = ValueOf(m)
      <3>1. ASSUME NEW i \in DOMAIN table, table[i].name = m
            PROVE  ValueOf(m)' = ValueOf(m)
        <4>1. i \in DOMAIN table' /\ table'[i] = table[i]
          BY <1>3, <2>3
        <4> QED BY <3>1, <4>1 DEF ReadsByName
      <3>2. ASSUME \A i \in DOMAIN table : table[i].name # m
            PROVE  ValueOf(m)' = ValueOf(m)
        <4>1. \A i \in DOMAIN table' : i \in DOMAIN table \/ i = Len(table) + 1
          BY <1>3, <2>3
        <4>2. \A i \in DOMAIN table' : table'[i].name # m
          BY <1>1, <1>3, <2>3, <2>5, <3>2, <4>1
        <4> QED BY <3>2, <4>2 DEF ReadsByName
      <3> QED BY <3>1, <3>2
    <2> QED BY <2>4, <2>5
  <1>5. CASE k # 0
    <2>1. k \in DOMAIN table /\ table[k].name = n
      BY <1>5, OldEntryFinds DEF TableInv, k
    <2>2. table' = [table EXCEPT ![k] = new]
      BY <1>2, <1>5
    <2>3. /\ DOMAIN table' = DOMAIN table
          /\ table'[k] = new
          /\ \A i \in DOMAIN table : i # k => table'[i] = table[i]
      BY <2>1, <2>2, TableChanges DEF TableInv
    <2>4. ValueOf(n)' = NEWDIRLIB(n, text)
      BY <1>1, <2>1, <2>3 DEF ReadsByName
    <2>5. ASSUME NEW m \in Names, m # n PROVE ValueOf(m)' = ValueOf(m)
      <3>1. ASSUME NEW i \in DOMAIN table, table[i].name = m
            PROVE  ValueOf(m)' = ValueOf(m)
        <4>1. i \in DOMAIN table' /\ table'[i] = table[i]
          BY <2>1, <2>3, <2>5, <3>1
        <4> QED BY <3>1, <4>1 DEF ReadsByName
      <3>2. ASSUME \A i \in DOMAIN table : table[i].name # m
            PROVE  ValueOf(m)' = ValueOf(m)
        <4>1. \A i \in DOMAIN table' : table'[i].name # m
          BY <1>1, <2>1, <2>3, <2>5, <3>2
        <4> QED BY <3>2, <4>1 DEF ReadsByName
      <3> QED BY <3>1, <3>2
    <2> QED BY <2>4, <2>5
  <1> QED BY <1>4, <1>5

\* What <append> stands for is what PolicyMap says it does: a name that has a
\* value has one that is not empty.
LEMMA AppendsPrevious ==
  ASSUME TypeOK, TableInv, NEW n \in Names, NEW text \in Texts
  PROVE  NEWDIRLIB(n, text) = Map!Expanded(text, ValueOf(n))
  <1>1. GETAPPEND(n) = Map!Previous(ValueOf(n))
    <2>1. CASE OldEntry(n) = 0
      BY <2>1 DEF GETAPPEND, ValueOf, Map!Previous, Map!Undefined
    <2>2. CASE OldEntry(n) # 0
      <3>1. GETAPPEND(n) # <<>>
        BY AppendedIsValue DEF Value
      <3> QED BY <2>2, <3>1 DEF GETAPPEND, ValueOf, Map!Previous, Map!Undefined
    <2> QED BY <2>1, <2>2
  <1> QED BY <1>1 DEF NEWDIRLIB, Map!Expanded, FlattenSeq, Map!FlattenSeq

\* However the definitions of a dms.pth are spread over its files, repeated and
\* appended to, the array of any number of them says of each name what the last
\* definition of it says, <append> being the value before: the array's places,
\* and the entries that are dropped, are not seen by who reads it name by name.
THEOREM RefinesPolicyMap == Spec => ImplementsPolicyMap
  <1> DEFINE Policy == [n \in Names |-> ValueOf(n)]
  <1>1. TableInv => ReadsByName
    BY ValueIsEntry DEF ReadsByName
  <1>2. TableInv' => ReadsByName'
    BY <1>1, PTL
  <1>3. Init /\ TableInv => Map!Init
    <2> SUFFICES ASSUME Init, TableInv PROVE Map!Init
      OBVIOUS
    <2> DEFINE e == [name |-> Default, value |-> DefaultValue]
    <2>1. table = <<e>> /\ DOMAIN table = {1} /\ table[1] = e
      BY DEF Init
    <2>2. ASSUME NEW n \in Names
          PROVE  ValueOf(n) = IF n = Default THEN DefaultValue ELSE <<>>
      BY <1>1, <2>1 DEF ReadsByName
    <2> QED BY <2>2 DEF Map!Init, Map!Undefined, ValueOf
  <1>4. TypeOK /\ TableInv /\ TableInv' /\ [Next]_vars => [Map!Next]_Policy
    <2> SUFFICES ASSUME TypeOK, TableInv, TableInv', [Next]_vars
                 PROVE  [Map!Next]_Policy
      OBVIOUS
    <2>1. ASSUME NEW n \in Names, NEW text \in Texts, Define(n, text)
          PROVE  Map!Define(n, text)
      <3>1. /\ ValueOf(n)' = Map!Expanded(text, ValueOf(n))
            /\ \A m \in Names : m # n => ValueOf(m)' = ValueOf(m)
        BY <1>1, <1>2, <2>1, OneValueChanges, AppendsPrevious
      <3>2. Policy' = [Policy EXCEPT ![n] = Map!Expanded(text, ValueOf(n))]
        BY <3>1
      <3> QED BY <3>2 DEF Map!Define, ValueOf
    <2>2. CASE UNCHANGED vars
      <3>1. \A n \in Names : ValueOf(n)' = ValueOf(n)
        BY <2>2 DEF vars, ValueOf, OldEntry, SelectLastInSeq
      <3> QED BY <3>1
    <2> QED BY <2>1, <2>2 DEF Next, Map!Next
  <1> QED BY <1>3, <1>4, TypeCorrect, TableAlways, PTL
          DEF Spec, ImplementsPolicyMap, Map!Spec, ValueOf
=============================================================================
