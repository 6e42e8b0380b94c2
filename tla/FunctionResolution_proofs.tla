---------------------- MODULE FunctionResolution_proofs ----------------------
(***************************************************************************)
(* Proofs about FunctionResolution.                                        *)
(***************************************************************************)
EXTENDS FunctionResolution, SequenceLemmas

-----------------------------------------------------------------------------
(* The levels of a value.                                                  *)

LEMMA ChildrenAre ==
    ASSUME NEW v, NEW x
    PROVE  x \in Children(v) <=>
                \/ Has(v, "list") /\ x \in Range(v.list)
                \/ Has(v, "dict") /\ x \in Range(v.dict)
                \/ Has(v, "parts") /\ x \in Range(v.parts)
                \/ Has(v, "hot") /\ x \in Range(v.args)
<1> DEFINE fields == {"list", "dict", "parts"}
           inside == UNION {Range(v[field]) : field \in DOMAIN v \cap fields}
           rest == IF Has(v, "hot") THEN Range(v.args) ELSE {}
<1>1. Children(v) = inside \cup rest
  BY DEF Children
<1>2. x \in rest <=> Has(v, "hot") /\ x \in Range(v.args)
  OBVIOUS
<1>3. x \in inside <=> \E field \in fields : Has(v, field) /\ x \in Range(v[field])
  BY DEF Has
<1>4. (\E field \in fields : Has(v, field) /\ x \in Range(v[field])) <=>
            \/ Has(v, "list") /\ x \in Range(v["list"])
            \/ Has(v, "dict") /\ x \in Range(v["dict"])
            \/ Has(v, "parts") /\ x \in Range(v["parts"])
  <2>1. \A field : field \in fields <=> field = "list" \/ field = "dict" \/ field = "parts"
    OBVIOUS
  <2> HIDE DEF fields
  <2> QED
    BY <2>1, Zenon
<1> HIDE DEF inside, rest
<1> QED
  BY <1>1, <1>2, <1>3, <1>4

LevelStep(v, f, d) == IF d = 0 THEN {v} ELSE UNION {Children(w) : w \in f[d - 1]}

LevelUpTo(v, n, f) == f = [d \in 0..n |-> LevelStep(v, f, d)]

\* The recursive function of Level exists up to every level.
LEMMA LevelsExist ==
    ASSUME NEW v, NEW n \in Nat
    PROVE  \E f : LevelUpTo(v, n, f)
<1> DEFINE P == {k \in Nat : \E f : LevelUpTo(v, k, f)}
<1>1. 0 \in P
  <2> DEFINE f == [d \in 0..0 |-> {v}]
  <2>1. f = [d \in 0..0 |-> LevelStep(v, f, d)]
    BY DEF LevelStep
  <2> HIDE DEF f
  <2> QED
    BY <2>1 DEF LevelUpTo
<1>2. ASSUME NEW k \in 0..(n - 1), k \in P PROVE k + 1 \in P
  <2>1. PICK f : LevelUpTo(v, k, f)
    BY <1>2
  <2> DEFINE next == UNION {Children(w) : w \in f[k]}
             g == [d \in 0..(k + 1) |-> IF d <= k THEN f[d] ELSE next]
  <2>2. k \in Nat /\ f = [d \in 0..k |-> LevelStep(v, f, d)]
    BY <2>1 DEF LevelUpTo
  <2>3. \A d \in 0..k : g[d] = f[d]
    BY <2>2
  <2>4. g[k + 1] = next
    BY <2>2
  <2>5. g = [d \in 0..(k + 1) |-> g[d]]
    OBVIOUS
  <2> HIDE DEF g
  <2>6. ASSUME NEW d \in 0..(k + 1) PROVE g[d] = LevelStep(v, g, d)
    <3>1. CASE d = k + 1
      <4>1. d # 0 /\ d - 1 = k /\ k \in 0..k
        BY <2>2, <3>1
      <4>2. g[d - 1] = f[k]
        BY <2>3, <4>1
      <4> QED
        BY <2>4, <3>1, <4>1, <4>2 DEF LevelStep
    <3>2. CASE d # k + 1
      <4>1. d \in 0..k /\ (d # 0 => d - 1 \in 0..k)
        BY <2>2, <3>2
      <4>2. g[d] = LevelStep(v, f, d)
        BY <2>2, <2>3, <4>1
      <4>3. d # 0 => g[d - 1] = f[d - 1]
        BY <2>3, <4>1
      <4> QED
        BY <4>2, <4>3 DEF LevelStep
    <3> QED
      BY <3>1, <3>2
  <2>7. g = [d \in 0..(k + 1) |-> LevelStep(v, g, d)]
    BY <2>5, <2>6
  <2> QED
    BY <2>2, <2>7 DEF LevelUpTo
<1>3. \A k \in 0..n : k \in P
  <2> HIDE DEF P
  <2> QED
    BY <1>1, <1>2, Reaches
<1> QED
  BY <1>3

\* Two of these agree on what both have.
LEMMA LevelsAgree ==
    ASSUME NEW v, NEW n \in Nat, NEW m \in Nat, m <= n, NEW f, NEW g,
           LevelUpTo(v, n, f), LevelUpTo(v, m, g)
    PROVE  \A d \in 0..m : f[d] = g[d]
<1> DEFINE P == {d \in 0..m : f[d] = g[d]}
<1>0. /\ \A d \in 0..m : f[d] = LevelStep(v, f, d) /\ g[d] = LevelStep(v, g, d)
  <2>1. \A d \in 0..m : d \in 0..n
    OBVIOUS
  <2> QED
    BY <2>1 DEF LevelUpTo
<1>1. 0 \in P
  <2>1. 0 \in 0..m
    OBVIOUS
  <2>2. f[0] = LevelStep(v, f, 0) /\ g[0] = LevelStep(v, g, 0)
    BY <1>0, <2>1
  <2> QED
    BY <2>1, <2>2 DEF LevelStep
<1>2. ASSUME NEW k \in 0..(m - 1), k \in P PROVE k + 1 \in P
  <2>1. k + 1 \in 0..m /\ k + 1 # 0 /\ (k + 1) - 1 = k
    OBVIOUS
  <2>2. f[k] = g[k]
    BY <1>2
  <2> QED
    BY <1>0, <2>1, <2>2 DEF LevelStep
<1>3. \A k \in 0..m : k \in P
  <2> HIDE DEF P
  <2> QED
    BY <1>1, <1>2, Reaches
<1> QED
  BY <1>3

\* Level, unfolded.
LEMMA LevelUnfold ==
    ASSUME NEW v
    PROVE  /\ Level(v)[0] = {v}
           /\ \A d \in Nat : Level(v)[d + 1] = UNION {Children(w) : w \in Level(v)[d]}
<1> DEFINE up(n) == CHOOSE f : LevelUpTo(v, n, f)
           h == [d \in Nat |-> up(d)[d]]
<1>1. \A n \in Nat : LevelUpTo(v, n, up(n))
  BY LevelsExist
<1> HIDE DEF up
<1>2. ASSUME NEW d \in Nat PROVE h[d] = LevelStep(v, h, d)
  <2>1. up(d)[d] = LevelStep(v, up(d), d)
    <3>1. d \in 0..d
      OBVIOUS
    <3> QED
      BY <1>1, <3>1 DEF LevelUpTo
  <2>2. d # 0 => up(d)[d - 1] = h[d - 1]
    <3> SUFFICES ASSUME d # 0 PROVE up(d)[d - 1] = h[d - 1]
      OBVIOUS
    <3>1. d - 1 \in Nat /\ d - 1 <= d /\ d - 1 \in 0..(d - 1)
      OBVIOUS
    <3>2. up(d)[d - 1] = up(d - 1)[d - 1]
      BY <1>1, <3>1, LevelsAgree
    <3> QED
      BY <3>1, <3>2
  <2>3. h[d] = up(d)[d]
    OBVIOUS
  <2> HIDE DEF h
  <2> QED
    BY <2>1, <2>2, <2>3 DEF LevelStep
<1>3. h = [d \in Nat |-> h[d]]
  OBVIOUS
<1> HIDE DEF h
<1>4. h = [d \in Nat |-> LevelStep(v, h, d)]
  BY <1>2, <1>3
<1>5. Level(v) = CHOOSE f : f = [d \in Nat |-> LevelStep(v, f, d)]
  BY DEF Level, LevelStep
<1>6. Level(v) = [d \in Nat |-> LevelStep(v, Level(v), d)]
  BY <1>4, <1>5
<1>7. \A d \in Nat : Level(v)[d] = LevelStep(v, Level(v), d)
  BY <1>6
<1>8. Level(v)[0] = {v}
  BY <1>7 DEF LevelStep
<1>9. ASSUME NEW d \in Nat PROVE Level(v)[d + 1] = UNION {Children(w) : w \in Level(v)[d]}
  <2>1. d + 1 \in Nat /\ d + 1 # 0 /\ (d + 1) - 1 = d
    OBVIOUS
  <2> QED
    BY <1>7, <2>1 DEF LevelStep
<1> QED
  BY <1>8, <1>9

\* The d-th level of what v has just below it is in the next level of v.
LEMMA ChildLevels ==
    ASSUME NEW v, NEW c \in Children(v), NEW n \in Nat
    PROVE  Level(c)[n] \subseteq Level(v)[n + 1]
<1> DEFINE P == {d \in Nat : Level(c)[d] \subseteq Level(v)[d + 1]}
<1>1. 0 \in P
  <2>1. Level(v)[0 + 1] = UNION {Children(w) : w \in {v}}
    BY LevelUnfold
  <2>2. Level(c)[0] = {c}
    BY LevelUnfold
  <2> QED
    BY <2>1, <2>2
<1>2. ASSUME NEW d \in 0..(n - 1), d \in P PROVE d + 1 \in P
  <2>1. d \in Nat /\ d + 1 \in Nat
    OBVIOUS
  <2>2. Level(c)[d + 1] = UNION {Children(w) : w \in Level(c)[d]}
    BY <2>1, LevelUnfold
  <2>3. Level(v)[(d + 1) + 1] = UNION {Children(w) : w \in Level(v)[d + 1]}
    BY <2>1, LevelUnfold
  <2>4. Level(c)[d] \subseteq Level(v)[d + 1]
    BY <1>2
  <2>5. Level(c)[d + 1] \subseteq Level(v)[(d + 1) + 1]
    BY <2>2, <2>3, <2>4
  <2> QED
    BY <2>1, <2>5
<1>3. \A d \in 0..n : d \in P
  <2> HIDE DEF P
  <2> QED
    BY <1>1, <1>2, Reaches
<1> QED
  BY <1>3

\* A level below the first is of the levels of what v has just below it.
LEMMA LevelsOfChildren ==
    ASSUME NEW v, NEW n \in Nat
    PROVE  \A w \in Level(v)[n + 1] : \E c \in Children(v) : w \in Level(c)[n]
<1> DEFINE P == {d \in Nat : \A w \in Level(v)[d + 1] : \E c \in Children(v) : w \in Level(c)[d]}
<1>1. 0 \in P
  <2>1. Level(v)[0 + 1] = UNION {Children(w) : w \in {v}}
    BY LevelUnfold
  <2>2. \A c : Level(c)[0] = {c}
    BY LevelUnfold
  <2> QED
    BY <2>1, <2>2
<1>2. ASSUME NEW d \in 0..(n - 1), d \in P PROVE d + 1 \in P
  <2>1. d \in Nat /\ d + 1 \in Nat
    OBVIOUS
  <2>2. Level(v)[(d + 1) + 1] = UNION {Children(w) : w \in Level(v)[d + 1]}
    BY <2>1, LevelUnfold
  <2>3. ASSUME NEW w \in Level(v)[(d + 1) + 1]
        PROVE  \E c \in Children(v) : w \in Level(c)[d + 1]
    <3>1. PICK u \in Level(v)[d + 1] : w \in Children(u)
      BY <2>2
    <3>2. PICK c \in Children(v) : u \in Level(c)[d]
      BY <1>2
    <3>3. Level(c)[d + 1] = UNION {Children(x) : x \in Level(c)[d]}
      BY <2>1, LevelUnfold
    <3>4. w \in Level(c)[d + 1]
      BY <3>1, <3>2, <3>3
    <3> QED
      BY <3>4
  <2> QED
    BY <2>1, <2>3
<1>3. \A d \in 0..n : d \in P
  <2> HIDE DEF P
  <2> QED
    BY <1>1, <1>2, Reaches
<1> QED
  BY <1>3

-----------------------------------------------------------------------------
(* Values of the template, and values that declare what they read.         *)

\* A value of the template has its form at every level.
Formed(v) == \A d \in Nat : \A w \in Level(v)[d] : Form(w)

LEMMA TemplateFormed ==
    ASSUME NEW v, OfTemplate(v)
    PROVE  Formed(v)
<1> DEFINE top == MaxDepth + 1
<1>1. MaxDepth \in Nat
  BY NodesAssumption
<1>2. Level(v)[top] = {} /\ \A d \in 0..MaxDepth : \A w \in Level(v)[d] : Form(w)
  BY DEF OfTemplate, Within
<1>3. ASSUME NEW d \in Nat, d > MaxDepth PROVE Level(v)[d] = {}
  <2> DEFINE P == {k \in Nat : Level(v)[top + k] = {}}
  <2>1. 0 \in P
    BY <1>1, <1>2
  <2>2. ASSUME NEW k \in 0..((d - top) - 1), k \in P PROVE k + 1 \in P
    <3>1. top + k \in Nat /\ top + (k + 1) = (top + k) + 1 /\ k + 1 \in Nat
      BY <1>1
    <3>2. Level(v)[(top + k) + 1] = UNION {Children(w) : w \in Level(v)[top + k]}
      BY <3>1, LevelUnfold
    <3>3. Level(v)[top + k] = {}
      BY <2>2
    <3> QED
      BY <3>1, <3>2, <3>3
  <2>3. d - top \in Nat /\ top + (d - top) = d
    BY <1>1, <1>3
  <2>4. \A k \in 0..(d - top) : k \in P
    <3> HIDE DEF P
    <3> QED
      BY <2>1, <2>2, <2>3, Reaches
  <2>5. d - top \in P
    BY <2>3, <2>4
  <2> QED
    BY <2>3, <2>5
<1>4. ASSUME NEW d \in Nat, NEW w \in Level(v)[d] PROVE Form(w)
  <2>1. d \in 0..MaxDepth
    BY <1>1, <1>3, <1>4
  <2> QED
    BY <1>2, <2>1
<1> QED
  BY <1>4 DEF Formed

LEMMA FormedParts ==
    ASSUME NEW v, Formed(v)
    PROVE  Form(v) /\ \A c \in Children(v) : Formed(c)
<1>1. Form(v)
  BY LevelUnfold DEF Formed
<1>2. ASSUME NEW c \in Children(v), NEW d \in Nat, NEW w \in Level(c)[d] PROVE Form(w)
  <2>1. d + 1 \in Nat /\ w \in Level(v)[d + 1]
    BY ChildLevels
  <2> QED
    BY <2>1 DEF Formed
<1> QED
  BY <1>1, <1>2 DEF Formed

\* A list is one, and what an attribute of three parts reads is an output of a
\* config.
Declared(w, out) ==
    /\ Has(w, "list") => IsList(w.list)
    /\ Has(w, "hot") /\ w.hot = "get_attr" /\ Len(w.args) = 3 =>
            LET operation == <<w.args[1].text, w.args[2].text>>
            IN  operation \in Operations /\ w.args[3].text \in Range(out[operation])

Declares(v, out) == \A d \in Nat : \A w \in Level(v)[d] : Declared(w, out)

LEMMA DeclaresParts ==
    ASSUME NEW v, NEW out
    PROVE  Declares(v, out) <=> Declared(v, out) /\ \A c \in Children(v) : Declares(c, out)
<1>1. ASSUME Declares(v, out) PROVE Declared(v, out)
  BY <1>1, LevelUnfold DEF Declares
<1>2. ASSUME Declares(v, out), NEW c \in Children(v), NEW d \in Nat, NEW w \in Level(c)[d]
      PROVE  Declared(w, out)
  <2>1. d + 1 \in Nat /\ w \in Level(v)[d + 1]
    BY ChildLevels
  <2> QED
    BY <1>2, <2>1 DEF Declares
<1>3. ASSUME Declared(v, out), \A c \in Children(v) : Declares(c, out), NEW d \in Nat, NEW w \in Level(v)[d]
      PROVE  Declared(w, out)
  <2>1. CASE d = 0
    <3>1. w = v
      BY <2>1, LevelUnfold
    <3> QED
      BY <1>3, <3>1
  <2>2. CASE d # 0
    <3>1. d - 1 \in Nat /\ (d - 1) + 1 = d
      BY <2>2
    <3>2. PICK c \in Children(v) : w \in Level(c)[d - 1]
      BY <3>1, LevelsOfChildren
    <3> QED
      BY <1>3, <3>1, <3>2 DEF Declares
  <2> QED
    BY <2>1, <2>2
<1> QED
  BY <1>1, <1>2, <1>3 DEF Declares

\* The template reads no attribute of HOT.
LEMMA FormedDeclares ==
    ASSUME NEW v, NEW out, Formed(v)
    PROVE  Declares(v, out)
BY DEF Formed, Form, Declares, Declared, Has

-----------------------------------------------------------------------------
(* Lists.                                                                  *)

LEMMA ListOf ==
    ASSUME NEW S, NEW s \in Seq(S)
    PROVE  IsList(s)
<1>1. \A i \in 1..Len(s) : s[i] \in Range(s)
  BY DEF Range
<1> QED
  BY <1>1 DEF IsList

LEMMA ListFacts ==
    ASSUME NEW s, IsList(s)
    PROVE  Len(s) \in Nat /\ DOMAIN s = 1..Len(s) /\ \A i \in DOMAIN s : s[i] \in Range(s)
BY DEF IsList

LEMMA ListAppend ==
    ASSUME NEW s, IsList(s), NEW x
    PROVE  /\ IsList(Append(s, x)) /\ Len(Append(s, x)) = Len(s) + 1
           /\ \A i \in DOMAIN s : Append(s, x)[i] = s[i]
           /\ Append(s, x)[Len(s) + 1] = x
           /\ Last(Append(s, x)) = x
           /\ Range(Append(s, x)) = Range(s) \cup {x}
<1> DEFINE S == Range(s) \cup {x}
           t == Append(s, x)
<1>1. s \in Seq(S) /\ x \in S
  BY DEF IsList
<1>2. /\ t \in Seq(S) /\ Len(t) = Len(s) + 1
      /\ \A i \in 1..Len(s) : t[i] = s[i]
      /\ t[Len(s) + 1] = x
  <2> HIDE DEF S
  <2> QED
    BY <1>1
<1>3. DOMAIN s = 1..Len(s) /\ Len(s) \in Nat
  BY ListFacts
<1> HIDE DEF S, t
<1>4. IsList(t)
  BY <1>2, ListOf
<1>5. Last(t) = x
  BY <1>2 DEF Last
<1>6. DOMAIN t = 1..(Len(s) + 1)
  BY <1>2
<1>7. Range(t) = Range(s) \cup {x}
  <2>1. \A i \in 1..(Len(s) + 1) : i \in 1..Len(s) \/ i = Len(s) + 1
    BY <1>3
  <2>2. \A i \in 1..Len(s) : i \in 1..(Len(s) + 1)
    BY <1>3
  <2>3. Len(s) + 1 \in 1..(Len(s) + 1)
    BY <1>3
  <2>4. ASSUME NEW y \in Range(t) PROVE y \in Range(s) \cup {x}
    <3>1. PICK i \in 1..(Len(s) + 1) : y = t[i]
      BY <1>6 DEF Range
    <3> QED
      BY <1>2, <1>3, <2>1, <3>1 DEF Range
  <2>5. ASSUME NEW y \in Range(s) \cup {x} PROVE y \in Range(t)
    <3>1. CASE y \in Range(s)
      <4>1. PICK i \in 1..Len(s) : y = s[i]
        BY <1>3, <3>1 DEF Range
      <4> QED
        BY <1>2, <1>6, <2>2, <4>1 DEF Range
    <3>2. CASE y = x
      BY <1>2, <1>6, <2>3, <3>2 DEF Range
    <3> QED
      BY <2>5, <3>1, <3>2
  <2> QED
    BY <2>4, <2>5
<1> QED
  BY <1>2, <1>3, <1>4, <1>5, <1>7 DEF t

LEMMA NoList == IsList(<< >>) /\ Len(<< >>) = 0 /\ DOMAIN << >> = {} /\ Range(<< >>) = {}
<1>1. << >> \in Seq({}) /\ Len(<< >>) = 0 /\ DOMAIN << >> = {}
  OBVIOUS
<1>2. IsList(<< >>)
  BY <1>1, ListOf
<1> QED
  BY <1>1, <1>2 DEF Range

\* A call returns v to its caller.
Handed(c, v) == [c EXCEPT !.done = Append(c.done, v)]
Returned(s, n, v) == [Front(s) EXCEPT ![n - 1].done = Append(@, v)]

LEMMA ListReturn ==
    ASSUME NEW s, IsList(s), NEW n, n = Len(s), n > 1, NEW v
    PROVE  LET r == Returned(s, n, v)
           IN  /\ IsList(r) /\ Len(r) = n - 1 /\ DOMAIN r = 1..(n - 1)
               /\ \A i \in 1..(n - 1) : i # n - 1 => r[i] = s[i]
               /\ r[n - 1] = Handed(s[n - 1], v)
<1> DEFINE S == Range(s)
           f == Front(s)
           c == s[n - 1]
           x == [c EXCEPT !.done = Append(c.done, v)]
           t == [f EXCEPT ![n - 1] = x]
<1>1. n \in Nat /\ s \in Seq(S) /\ n - 1 \in 1..(n - 1)
  BY ListFacts DEF IsList
<1>2. f = [i \in 1..(n - 1) |-> s[i]] /\ Len(f) = n - 1 /\ DOMAIN f = 1..(n - 1)
  BY <1>1 DEF Front
<1> HIDE DEF S, f, x
<1>3. DOMAIN t = 1..(n - 1) /\ t[n - 1] = x /\ \A i \in 1..(n - 1) : i # n - 1 => t[i] = f[i]
  BY <1>1, <1>2
<1>4. \A i \in 1..(n - 1) : s[i] \in S /\ f[i] = s[i]
  BY <1>1, <1>2
<1>5. t \in [1..(n - 1) -> S \cup {x}]
  <2>1. t = [i \in 1..(n - 1) |-> t[i]]
    BY <1>2
  <2>2. \A i \in 1..(n - 1) : t[i] \in S \cup {x}
    BY <1>3, <1>4
  <2> HIDE DEF t
  <2> QED
    BY <2>1, <2>2
<1>6. n - 1 \in Nat
  BY <1>1
<1>7. t \in Seq(S \cup {x}) /\ Len(t) = n - 1
  <2> HIDE DEF t
  <2> QED
    BY <1>5, <1>6
<1>8. IsList(t)
  <2> HIDE DEF t
  <2> QED
    BY <1>7, ListOf
<1>9. f[n - 1] = c
  BY <1>1, <1>4
<1>10. t = Returned(s, n, v)
  BY <1>9 DEF f, x, Returned
<1> HIDE DEF t
<1> QED
  BY <1>3, <1>4, <1>7, <1>8, <1>10 DEF x, Handed

-----------------------------------------------------------------------------
(* Nodes.                                                                  *)

MaybeNode == DOMAIN Node \cup {None}

\* The first and the last of some positions of a list are among them.
LEMMA SomePosition ==
    ASSUME NEW s, IsList(s), NEW I \in SUBSET DOMAIN s, I # {}
    PROVE  Min(I) \in I /\ Max(I) \in I
<1>1. PICK m \in Nat : m = Len(s) /\ DOMAIN s = 1..m
  BY ListFacts
<1>2. I \in SUBSET Nat /\ I \in SUBSET (1..m)
  BY <1>1
<1>3. Min(I) \in I
  BY <1>2, MinProperty
<1>4. \E k \in I : \A n \in I : n <= k
  BY <1>2, GreatestElement
<1>5. \E k \in I : \A n \in I : k >= n
  BY <1>2, <1>4
<1>6. Max(I) \in I
  BY <1>5 DEF Max
<1> QED
  BY <1>3, <1>6

\* A requirement that is found leads to a node.
LEMMA RequiredNode ==
    ASSUME NEW n \in DOMAIN Node, NEW name, Required(n, name) # None
    PROVE  Required(n, name).to \in DOMAIN Node
<1> DEFINE s == Node[n].requirements
           I == {k \in DOMAIN s : s[k].name = name}
<1>1. IsList(s) /\ \A r \in Range(s) : r.to \in DOMAIN Node
  BY NodesAssumption
<1>2. I # {} /\ Required(n, name) = s[Min(I)]
  BY DEF Required
<1>3. I \in SUBSET DOMAIN s
  OBVIOUS
<1>4. Min(I) \in I
  <2> HIDE DEF I, s
  <2> QED
    BY <1>1, <1>2, <1>3, SomePosition
<1>5. Min(I) \in DOMAIN s
  BY <1>4
<1>6. s[Min(I)] \in Range(s)
  <2> HIDE DEF I, s
  <2> QED
    BY <1>5 DEF Range
<1> QED
  BY <1>1, <1>2, <1>6

LEMMA HostNode ==
    ASSUME NEW n \in DOMAIN Node
    PROVE  HostOf(n) \in MaybeNode
<1> DEFINE s == Node[n].requirements
           I == {k \in DOMAIN s : s[k].name = "host"}
<1>1. IsList(s) /\ \A r \in Range(s) : r.to \in DOMAIN Node
  BY NodesAssumption
<1>2. HostOf(n) = IF I = {} \/ s[Max(I)].form = "full" THEN None ELSE s[Max(I)].to
  BY DEF HostOf
<1>3. CASE I = {}
  BY <1>2, <1>3 DEF MaybeNode
<1>4. CASE I # {}
  <2>1. I \in SUBSET DOMAIN s
    OBVIOUS
  <2>2. Max(I) \in DOMAIN s
    <3> HIDE DEF I, s
    <3> QED
      BY <1>1, <1>4, <2>1, SomePosition
  <2>3. s[Max(I)] \in Range(s)
    <3> HIDE DEF I, s
    <3> QED
      BY <2>2 DEF Range
  <2> QED
    BY <1>1, <1>2, <2>3 DEF MaybeNode
<1> QED
  BY <1>3, <1>4

LEMMA FoundNode ==
    ASSUME NEW self \in MaybeNode, NEW name
    PROVE  FindNode(name, self) \in MaybeNode
<1>1. CASE name = "SELF" /\ self # None
  BY <1>1 DEF FindNode
<1>2. CASE name = "HOST" /\ self # None
  BY <1>2, HostNode DEF FindNode, MaybeNode
<1>3. CASE ~ (name = "SELF" /\ self # None) /\ ~ (name = "HOST" /\ self # None)
  BY <1>3 DEF FindNode, MaybeNode
<1> QED
  BY <1>1, <1>2, <1>3

\* A target is of a node and, if it has a capability, of one of this node.
OfNode(target) ==
    /\ target.node \in MaybeNode
    /\ target.capability # None =>
            target.node # None /\ target.capability \in DOMAIN Node[target.node].capabilities

LEMMA DecipherTarget ==
    ASSUME NEW self \in MaybeNode, NEW args
    PROVE  OfNode(Decipher(args, self).target)
<1> DEFINE n == FindNode(args[1], self)
           r == Required(n, args[2])
<1>1. n \in MaybeNode
  BY FoundNode
<1>2. CASE n = None \/ Len(args) = 2
  BY <1>1, <1>2 DEF Decipher, OfNode, Target
<1>3. CASE ~ (n = None \/ Len(args) = 2)
  <2>1. n \in DOMAIN Node /\ n # None
    BY <1>1, <1>3 DEF MaybeNode
  <2>2. CASE args[2] \in DOMAIN Node[n].capabilities
    BY <1>1, <1>3, <2>1, <2>2 DEF Decipher, OfNode, Target
  <2>3. CASE args[2] \notin DOMAIN Node[n].capabilities /\ (r = None \/ r.form = "full")
    BY <1>1, <1>3, <2>1, <2>3 DEF Decipher, OfNode, Target
  <2>4. CASE args[2] \notin DOMAIN Node[n].capabilities /\ r # None /\ r.form # "full"
    <3>1. r.to \in DOMAIN Node /\ r.to # None
      BY <2>1, <2>4, RequiredNode, NodesAssumption
    <3> QED
      BY <1>3, <2>1, <2>4, <3>1 DEF Decipher, OfNode, Target, MaybeNode
  <2> QED
    BY <2>2, <2>3, <2>4
<1> QED
  BY <1>2, <1>3

\* The values that a node gives have their form.
LEMMA PropertyFormed ==
    ASSUME NEW target, OfNode(target), NEW name, PropertyOf(target, name) # Nothing
    PROVE  Formed(PropertyOf(target, name))
<1>1. target.node # None
  BY DEF PropertyOf
<1>2. target.node \in DOMAIN Node
  BY <1>1 DEF OfNode, MaybeNode
<1> DEFINE n == target.node
           all == {Node[n].properties} \cup Range(Node[n].capabilities)
<1>3. \A values \in all : \A v \in Range(values) : OfTemplate(v)
  BY <1>2, NodesAssumption
<1>4. PICK values \in all : name \in DOMAIN values /\ PropertyOf(target, name) = values[name]
  <2>1. CASE target.capability = None
    <3>1. PropertyOf(target, name) = IF name \in DOMAIN Node[n].properties
                                     THEN Node[n].properties[name] ELSE Nothing
      BY <1>1, <2>1 DEF PropertyOf
    <3> QED
      BY <3>1
  <2>2. CASE target.capability # None
    <3> DEFINE c == target.capability
    <3>1. PropertyOf(target, name) = IF name \in DOMAIN Node[n].capabilities[c]
                                     THEN Node[n].capabilities[c][name] ELSE Nothing
      BY <1>1, <2>2 DEF PropertyOf
    <3>2. Node[n].capabilities[c] \in all
      BY <2>2 DEF OfNode, Range
    <3> QED
      BY <3>1, <3>2
  <2> QED
    BY <2>1, <2>2
<1>5. values[name] \in Range(values)
  BY <1>4 DEF Range
<1> QED
  BY <1>3, <1>4, <1>5, TemplateFormed

-----------------------------------------------------------------------------
(* What is returned declares what it reads.                                *)

LEMMA TextDeclares ==
    ASSUME NEW t, NEW out
    PROVE  Declares(Text(t), out) /\ Declares(Nothing, out) /\ Declares([dict |-> << >>], out)
<1>1. Children(Text(t)) = {} /\ Declared(Text(t), out)
  BY DEF Children, Text, Has, Declared
<1>2. Children(Nothing) = {} /\ Declared(Nothing, out)
  BY DEF Children, Nothing, Has, Declared
<1>3. Children([dict |-> << >>]) = {} /\ Declared([dict |-> << >>], out)
  <2>1. PICK v : v = [dict |-> << >>]
    OBVIOUS
  <2>2. DOMAIN v = {"dict"} /\ v.dict = << >>
    BY <2>1
  <2>3. Range(v.dict) = {}
    BY <2>2, NoList
  <2>4. DOMAIN v \cap {"list", "dict", "parts"} = {"dict"} /\ ~ Has(v, "hot") /\ ~ Has(v, "list")
    BY <2>2 DEF Has
  <2>5. Children(v) = {}
    BY <2>3, <2>4 DEF Children
  <2> QED
    BY <2>1, <2>4, <2>5 DEF Declared
<1> QED
  BY <1>1, <1>2, <1>3, DeclaresParts

LEMMA HotDeclares ==
    ASSUME NEW f, NEW out, NEW args, \A i \in DOMAIN args : Declares(args[i], out),
           Declared(Hot(f, args), out)
    PROVE  Declares(Hot(f, args), out)
<1>1. PICK v : v = Hot(f, args)
  OBVIOUS
<1>2. DOMAIN v = {"hot", "args"} /\ v.args = args
  BY <1>1 DEF Hot
<1>3. ~ Has(v, "list") /\ ~ Has(v, "dict") /\ ~ Has(v, "parts")
  BY <1>2 DEF Has
<1>4. \A c \in Children(v) : c \in Range(args)
  BY <1>2, <1>3, ChildrenAre
<1>5. \A c \in Children(v) : Declares(c, out)
  BY <1>4 DEF Range
<1> QED
  BY <1>1, <1>5, DeclaresParts

\* An attribute of three parts is declared if its output is.
LEMMA OutputDeclares ==
    ASSUME NEW n, NEW out, NEW operation, NEW output, <<n, operation>> \in Operations,
           output \in Range(out[<<n, operation>>])
    PROVE  Declares(Hot("get_attr", <<Text(n), Text(operation), Text(output)>>), out)
<1> DEFINE args == <<Text(n), Text(operation), Text(output)>>
           v == Hot("get_attr", args)
<1>1. \A i \in DOMAIN args : Declares(args[i], out)
  <2>1. \A i \in DOMAIN args : i = 1 \/ i = 2 \/ i = 3
    OBVIOUS
  <2>2. args[1] = Text(n) /\ args[2] = Text(operation) /\ args[3] = Text(output)
    OBVIOUS
  <2> HIDE DEF args
  <2> QED
    BY <2>1, <2>2, TextDeclares
<1>2. args[1].text = n /\ args[2].text = operation /\ args[3].text = output
  BY DEF Text
<1>3. ~ Has(v, "list") /\ v.args = args
  BY DEF Has, Hot
<1>4. Declared(v, out)
  <2> HIDE DEF args, v
  <2> QED
    BY <1>2, <1>3 DEF Declared
<1> HIDE DEF args
<1>5. Declares(Hot("get_attr", args), out)
  BY <1>1, <1>4, HotDeclares
<1> QED
  BY <1>5 DEF args

\* The attributes of a server and of a volume have another number of parts.
LEMMA AttributeDeclares ==
    ASSUME NEW n, NEW out, NEW name
    PROVE  Declares(HotAttribute(n, name), out)
<1>1. CASE Node[n].kind = "server" /\ name \in {"private_address", "public_address"}
  <2> DEFINE args == <<Text(n), Text("networks"), Text("private"), Text("0")>>
  <2>1. HotAttribute(n, name) = Hot("get_attr", args)
    BY <1>1 DEF HotAttribute
  <2>2. \A i \in DOMAIN args : Declares(args[i], out)
    <3>1. \A i \in DOMAIN args : i = 1 \/ i = 2 \/ i = 3 \/ i = 4
      OBVIOUS
    <3>2. /\ args[1] = Text(n) /\ args[2] = Text("networks")
          /\ args[3] = Text("private") /\ args[4] = Text("0")
      OBVIOUS
    <3> HIDE DEF args
    <3> QED
      BY <3>1, <3>2, TextDeclares
  <2>3. Declared(Hot("get_attr", args), out)
    BY DEF Declared, Hot, Has
  <2> HIDE DEF args
  <2> QED
    BY <2>1, <2>2, <2>3, HotDeclares
<1>2. CASE Node[n].kind = "volume" /\ name = "volume_id"
  <2> DEFINE args == <<Text(n)>>
  <2>1. HotAttribute(n, name) = Hot("get_resource", args)
    BY <1>2 DEF HotAttribute
  <2>2. \A i \in DOMAIN args : Declares(args[i], out)
    BY TextDeclares
  <2>3. Declared(Hot("get_resource", args), out)
    BY DEF Declared, Hot, Has
  <2> HIDE DEF args
  <2> QED
    BY <2>1, <2>2, <2>3, HotDeclares
<1>3. CASE /\ ~ (Node[n].kind = "server" /\ name \in {"private_address", "public_address"})
           /\ ~ (Node[n].kind = "volume" /\ name = "volume_id")
  <2>1. HotAttribute(n, name) = [dict |-> << >>]
    BY <1>3 DEF HotAttribute
  <2> QED
    BY <2>1, TextDeclares
<1> QED
  BY <1>1, <1>2, <1>3

\* An entry or an element of a value declares what the value does.
LEMMA UnfoldDeclares ==
    ASSUME NEW v, NEW out, Declares(v, out), NEW arg, ~ OutOfRange(v, arg)
    PROVE  Declares(Unfold(v, arg), out)
<1>1. Declared(v, out) /\ \A c \in Children(v) : Declares(c, out)
  BY DeclaresParts
<1>2. CASE Unfold(v, arg) = v
  BY <1>2
<1>3. CASE arg # None /\ Has(v, "dict") /\ arg \in DOMAIN v.dict
  <2>1. v.dict[arg] \in Range(v.dict)
    BY <1>3 DEF Range
  <2>2. Unfold(v, arg) = v.dict[arg]
    BY <1>3 DEF Unfold
  <2> QED
    BY <1>1, <1>3, <2>1, <2>2, ChildrenAre
<1>4. CASE /\ arg # None /\ ~ (Has(v, "dict") /\ arg \in DOMAIN v.dict)
           /\ Has(v, "list") /\ Number(arg) # None
  <2>1. Number(arg) \in 0..2
    BY <1>4 DEF Number
  <2>2. Len(v.list) \in Nat /\ DOMAIN v.list = 1..Len(v.list)
    BY <1>1, <1>4, ListFacts DEF Declared
  <2>3. ~ (Number(arg) >= Len(v.list))
    BY <1>4 DEF OutOfRange
  <2>4. Number(arg) + 1 \in DOMAIN v.list
    BY <2>1, <2>2, <2>3
  <2>5. v.list[Number(arg) + 1] \in Range(v.list)
    BY <2>4 DEF Range
  <2>6. Unfold(v, arg) = v.list[Number(arg) + 1]
    BY <1>4 DEF Unfold
  <2> QED
    BY <1>1, <1>4, <2>5, <2>6, ChildrenAre
<1> QED
  BY <1>2, <1>3, <1>4 DEF Unfold


-----------------------------------------------------------------------------
(* What was translated declares what it reads.                             *)

\* Call, for a resource.
CallFor(v, self) ==
    [value |-> v,
     at    |-> IF \E f \in {"get_property", "get_attribute", "get_artifact"} : IsFun(v, f)
               THEN Decipher(v.args, self) ELSE None,
     done  |-> << >>]

\* A running call: of a value of the template, with what its calls returned.
Frame(c, self, out) ==
    /\ c = [CallFor(c.value, self) EXCEPT !.done = c.done]
    /\ Formed(c.value)
    /\ IsList(c.done) /\ \A k \in DOMAIN c.done : Declares(c.done[k], out)

Shape ==
    /\ uses \in Uses /\ pos \in 1..(Len(uses) + 1)
    /\ IsList(calls) /\ (calls # << >> => pos <= Len(uses))
    /\ IsList(results) /\ Len(results) = pos - 1
    /\ outputs = [o \in Operations |-> outputs[o]]
    /\ \A o \in Operations : IsList(outputs[o])

DInv ==
    /\ Shape
    /\ \A i \in DOMAIN calls : Frame(calls[i], Self, outputs)
    /\ \A k \in DOMAIN results : Declares(results[k], outputs)

LEMMA UseFacts ==
    ASSUME Shape, pos <= Len(uses)
    PROVE  /\ pos \in DOMAIN uses
           /\ Self \in MaybeNode /\ Formed(uses[pos].value)
<1>1. IsList(uses) /\ \A use \in Range(uses) : use.owner \in MaybeNode /\ OfTemplate(use.value)
  BY UsesAssumption DEF Shape, MaybeNode
<1>2. Len(uses) \in Nat /\ DOMAIN uses = 1..Len(uses)
  BY <1>1, ListFacts
<1>3. pos \in DOMAIN uses
  BY <1>2 DEF Shape
<1>4. uses[pos] \in Range(uses)
  BY <1>3 DEF Range
<1> QED
  BY <1>1, <1>3, <1>4, TemplateFormed DEF Self

LEMMA CallFields ==
    ASSUME NEW v, NEW self
    PROVE  /\ CallFor(v, self).value = v /\ CallFor(v, self).done = << >>
           /\ DOMAIN CallFor(v, self) = {"value", "at", "done"}
           /\ (\E f \in {"get_property", "get_attribute", "get_artifact"} : IsFun(v, f))
                    => CallFor(v, self).at = Decipher(v.args, self)
BY DEF CallFor

LEMMA CallFrame ==
    ASSUME NEW v, NEW self, NEW out, Formed(v)
    PROVE  Frame(CallFor(v, self), self, out)
<1>1. PICK c : c = CallFor(v, self)
  OBVIOUS
<1>2. c.value = v /\ c.done = << >> /\ c = [CallFor(v, self) EXCEPT !.done = << >>]
  <2>1. c = [value |-> v, at |-> c.at, done |-> << >>]
    BY <1>1 DEF CallFor
  <2> QED
    BY <1>1, <2>1
<1> QED
  BY <1>1, <1>2, NoList DEF Frame

LEMMA FrameFields ==
    ASSUME NEW c, NEW self, NEW out, Frame(c, self, out)
    PROVE  /\ DOMAIN c = {"value", "at", "done"}
           /\ (\E f \in {"get_property", "get_attribute", "get_artifact"} : IsFun(c.value, f))
                    => c.at = Decipher(c.value.args, self)
<1>1. PICK d : d = CallFor(c.value, self)
  OBVIOUS
<1>2. c = [d EXCEPT !.done = c.done]
  BY <1>1 DEF Frame
<1>3. DOMAIN d = {"value", "at", "done"}
  BY <1>1, CallFields
<1>4. c.at = d.at /\ DOMAIN c = DOMAIN d
  <2>1. \A y : DOMAIN [d EXCEPT !.done = y] = DOMAIN d /\ [d EXCEPT !.done = y].at = d.at
    BY <1>3
  <2> QED
    BY <1>2, <2>1
<1> QED
  BY <1>1, <1>3, <1>4, CallFields

LEMMA FrameMore ==
    ASSUME NEW c, NEW self, NEW out, Frame(c, self, out), NEW v, Declares(v, out)
    PROVE  LET e == Handed(c, v)
           IN  Frame(e, self, out) /\ e.value = c.value /\ e.done = Append(c.done, v)
<1> DEFINE done == Append(c.done, v)
           e == [c EXCEPT !.done = done]
<1>1. DOMAIN c = {"value", "at", "done"}
  BY FrameFields
<1>2. e.value = c.value /\ e.done = done
  BY <1>1
<1>3. e = [CallFor(c.value, self) EXCEPT !.done = done]
  <2>1. PICK d : d = CallFor(c.value, self)
    OBVIOUS
  <2>2. c = [d EXCEPT !.done = c.done]
    BY <2>1 DEF Frame
  <2>3. \A x, y : [[d EXCEPT !.done = x] EXCEPT !.done = y] = [d EXCEPT !.done = y]
    OBVIOUS
  <2>4. e = [[d EXCEPT !.done = c.done] EXCEPT !.done = done]
    BY <2>2
  <2> HIDE DEF e, done
  <2> QED
    BY <2>1, <2>3, <2>4
<1>4. IsList(c.done) /\ \A k \in DOMAIN c.done : Declares(c.done[k], out)
  BY DEF Frame
<1>5. IsList(done) /\ \A k \in DOMAIN done : Declares(done[k], out)
  <2>1. /\ IsList(done) /\ Len(done) = Len(c.done) + 1
        /\ \A i \in DOMAIN c.done : done[i] = c.done[i]
        /\ done[Len(c.done) + 1] = v
    BY <1>4, ListAppend
  <2>2. Len(c.done) \in Nat /\ DOMAIN c.done = 1..Len(c.done) /\ DOMAIN done = 1..Len(done)
    BY <1>4, <2>1, ListFacts
  <2>3. \A k \in DOMAIN done : k \in DOMAIN c.done \/ k = Len(c.done) + 1
    BY <2>1, <2>2
  <2> HIDE DEF done
  <2> QED
    BY <1>4, <2>1, <2>3
<1>6. e = Handed(c, v)
  BY DEF Handed
<1> HIDE DEF e, done
<1>7. Frame(e, self, out)
  BY <1>2, <1>3, <1>5 DEF Frame
<1> QED
  BY <1>2, <1>6, <1>7 DEF done

\* What a call has others translate is of the template.
LEMMA PartsFormed ==
    ASSUME Shape, calls # << >>, Frame(Top, Self, outputs)
    PROVE  IsList(Parts) /\ \A p \in Range(Parts) : Formed(p)
<1>1. Form(Value) /\ \A c \in Children(Value) : Formed(c)
  BY FormedParts DEF Frame, Value
<1>2. CASE IsFun(Value, "get_property")
  <2>1. Top.at = Decipher(Value.args, Self)
    BY <1>2, FrameFields DEF Value
  <2>2. OfNode(Top.at.target)
    BY <2>1, UseFacts, DecipherTarget DEF Shape
  <2>3. Parts = IF Given = Nothing THEN << >> ELSE <<Given>>
    BY <1>1, <1>2 DEF Parts, IsFun, Has, Form
  <2>4. CASE Given = Nothing
    BY <2>3, <2>4, NoList
  <2>5. CASE Given # Nothing
    <3>1. Formed(Given)
      BY <2>2, <2>5, PropertyFormed DEF Given
    <3>2. PICK g : g = Given
      OBVIOUS
    <3>3. <<g>> \in Seq({g}) /\ Range(<<g>>) = {g}
      BY DEF Range
    <3> QED
      BY <2>3, <2>5, <3>1, <3>2, <3>3, ListOf
  <2> QED
    BY <2>4, <2>5
<1>3. CASE IsFun(Value, "concat")
  <2>1. Parts = Value.parts
    BY <1>1, <1>3 DEF Parts, IsFun, Has, Form
  <2>2. Has(Value, "parts") /\ IsList(Value.parts)
    BY <1>1, <1>3 DEF IsFun, Has, Form
  <2> QED
    BY <1>1, <2>1, <2>2, ChildrenAre
<1>4. CASE Has(Value, "list")
  <2>1. Parts = Value.list
    BY <1>1, <1>4 DEF Parts, IsFun, Has, Form
  <2>2. IsList(Value.list)
    BY <1>1, <1>4 DEF IsFun, Has, Form
  <2> QED
    BY <1>1, <1>4, <2>1, <2>2, ChildrenAre
<1>5. CASE ~ IsFun(Value, "get_property") /\ ~ IsFun(Value, "concat") /\ ~ Has(Value, "list")
  <2>1. Parts = << >>
    BY <1>5 DEF Parts
  <2> QED
    BY <2>1, NoList
<1> QED
  BY <1>2, <1>3, <1>4, <1>5

LEMMA AsIsDeclares ==
    ASSUME Frame(Top, Self, outputs)
    PROVE  Declares(AsIs, outputs)
BY FormedDeclares, TextDeclares DEF AsIs, Frame, Value

\* What a call that changes nothing returns declares what it reads.
LEMMA TranslatedDeclares ==
    ASSUME Shape, calls # << >>, Frame(Top, Self, outputs), ~ Fails, Len(Top.done) = Len(Parts)
    PROVE  Declares(Translated, outputs)
<1>1. Form(Value) /\ Declares(Value, outputs)
  BY FormedParts, FormedDeclares DEF Frame, Value
<1>2. /\ IsList(Top.done) /\ \A k \in DOMAIN Top.done : Declares(Top.done[k], outputs)
      /\ Len(Top.done) \in Nat /\ DOMAIN Top.done = 1..Len(Top.done)
  <2>1. IsList(Top.done) /\ \A k \in DOMAIN Top.done : Declares(Top.done[k], outputs)
    BY DEF Frame
  <2> QED
    BY <2>1, ListFacts
<1>3. CASE IsFun(Value, "get_property")
  <2>1. Translated = IF Given = Nothing THEN AsIs ELSE Unfold(Top.done[1], Top.at.arg)
    BY <1>1, <1>3 DEF Translated, IsFun, Has, Form
  <2>2. CASE Given = Nothing
    BY <2>1, <2>2, AsIsDeclares
  <2>3. CASE Given # Nothing
    <3>1. Parts = <<Given>>
      BY <1>1, <1>3, <2>3 DEF Parts, IsFun, Has, Form
    <3>2. Len(Top.done) = 1 /\ Top.done # << >>
      <4>1. Len(<<Given>>) = 1
        OBVIOUS
      <4> QED
        BY <3>1, <4>1, NoList
    <3>3. Declares(Top.done[1], outputs)
      BY <1>2, <3>2
    <3>4. ~ OutOfRange(Top.done[1], Top.at.arg)
      BY <1>3, <3>2 DEF Fails
    <3> QED
      BY <2>1, <2>3, <3>3, <3>4, UnfoldDeclares
  <2> QED
    BY <2>2, <2>3
<1>4. CASE IsFun(Value, "get_attribute")
  <2>1. Translated = IF AttributeOfNode THEN HotAttribute(Top.at.target.node, Top.at.name) ELSE AsIs
    BY <1>1, <1>4 DEF Translated, IsFun, Has, Form
  <2> QED
    BY <2>1, AsIsDeclares, AttributeDeclares
<1>5. CASE IsFun(Value, "get_input")
  <2> DEFINE args == <<Text(Value.args[1])>>
  <2>1. Translated = Hot("get_param", args)
    BY <1>1, <1>5 DEF Translated, IsFun, Has, Form
  <2>2. \A i \in DOMAIN args : Declares(args[i], outputs)
    BY TextDeclares
  <2>3. Declared(Hot("get_param", args), outputs)
    BY DEF Declared, Hot, Has
  <2> HIDE DEF args
  <2> QED
    BY <2>1, <2>2, <2>3, HotDeclares
<1>6. CASE IsFun(Value, "concat")
  <2>1. Translated = Hot("str_replace", Top.done)
    BY <1>1, <1>6 DEF Translated, IsFun, Has, Form
  <2>2. Declared(Hot("str_replace", Top.done), outputs)
    BY DEF Declared, Hot, Has
  <2> QED
    BY <1>2, <2>1, <2>2, HotDeclares
<1>7. CASE Has(Value, "list")
  <2> DEFINE kept == Filter(Top.done, ToSet(Top.done) \ Falsy)
  <2>1. Translated = [list |-> kept]
    BY <1>1, <1>7 DEF Translated, IsFun, Has, Form
  <2>2. kept \in Seq(Range(Top.done)) /\ ToSet(kept) \subseteq ToSet(Top.done)
    <3>1. Top.done \in Seq(Range(Top.done))
      BY <1>2 DEF IsList
    <3> QED
      BY <3>1, FilterElements
  <2>3. IsList(kept) /\ \A x \in Range(kept) : \E k \in DOMAIN Top.done : x = Top.done[k]
    <3>1. IsList(kept)
      BY <2>2, ListOf
    <3>2. Range(kept) = ToSet(kept) /\ \A x \in ToSet(Top.done) : \E k \in DOMAIN Top.done : x = Top.done[k]
      BY DEF Range, ToSet
    <3> QED
      BY <2>2, <3>1, <3>2
  <2> HIDE DEF kept
  <2>4. PICK v : v = [list |-> kept]
    OBVIOUS
  <2>5. /\ Has(v, "list") /\ v.list = kept
        /\ ~ Has(v, "dict") /\ ~ Has(v, "parts") /\ ~ Has(v, "hot")
    BY <2>4 DEF Has
  <2>6. Declared(v, outputs)
    BY <2>3, <2>5 DEF Declared
  <2>7. \A c \in Children(v) : Declares(c, outputs)
    BY <1>2, <2>3, <2>5, ChildrenAre
  <2> QED
    BY <2>1, <2>4, <2>6, <2>7, DeclaresParts
<1>8. CASE /\ ~ IsFun(Value, "get_property") /\ ~ IsFun(Value, "get_attribute")
           /\ ~ IsFun(Value, "get_input") /\ ~ IsFun(Value, "concat") /\ ~ Has(Value, "list")
  <2>1. Translated = Value
    BY <1>8 DEF Translated
  <2> QED
    BY <1>1, <2>1
<1> QED
  BY <1>3, <1>4, <1>5, <1>6, <1>7, <1>8

-----------------------------------------------------------------------------
(* The steps.                                                              *)

\* What is declared stays declared when configs get more outputs.
OutputsGrow ==
    \A o \in Operations : IsList(outputs'[o]) /\ Range(outputs[o]) \subseteq Range(outputs'[o])

LEMMA DeclaresGrow ==
    ASSUME OutputsGrow, NEW v, Declares(v, outputs)
    PROVE  Declares(v, outputs')
<1>1. \A w : Declared(w, outputs) => Declared(w, outputs')
  BY DEF Declared, OutputsGrow
<1> QED
  BY <1>1 DEF Declares

LEMMA FrameGrow ==
    ASSUME OutputsGrow, NEW self, NEW c, Frame(c, self, outputs)
    PROVE  Frame(c, self, outputs')
<1>1. \A k \in DOMAIN c.done : Declares(c.done[k], outputs')
  BY DeclaresGrow DEF Frame
<1> QED
  BY <1>1 DEF Frame

\* A call returns what declares what it reads.
LEMMA ReturnDInv ==
    ASSUME DInv, calls # << >>, NEW v, Return(v), Declares(v, outputs'), OutputsGrow, uses' = uses,
           outputs' = [o \in Operations |-> outputs'[o]]
    PROVE  DInv'
<1>1. PICK n \in Nat : n = Len(calls) /\ n > 0 /\ DOMAIN calls = 1..n
  BY ListFacts DEF DInv, Shape
<1>2. pos \in DOMAIN uses /\ pos <= Len(uses) /\ pos \in Nat /\ Len(uses) \in Nat
  <2>1. pos <= Len(uses) /\ Shape
    BY DEF DInv, Shape
  <2>2. IsList(uses)
    BY <2>1, UsesAssumption DEF Shape
  <2> QED
    BY <2>1, <2>2, UseFacts, ListFacts DEF Shape
<1>3. /\ \A i \in DOMAIN calls : Frame(calls[i], Self, outputs)
      /\ \A k \in DOMAIN results : Declares(results[k], outputs')
      /\ IsList(calls) /\ IsList(results) /\ Len(results) = pos - 1
  BY DeclaresGrow DEF DInv, Shape
<1>4. \A o \in Operations : IsList(outputs'[o])
  BY DEF OutputsGrow
<1>5. CASE n = 1
  <2>1. results' = Append(results, v) /\ pos' = pos + 1 /\ calls' = << >>
    BY <1>1, <1>5 DEF Return
  <2>2. /\ IsList(results') /\ Len(results') = Len(results) + 1
        /\ \A i \in DOMAIN results : results'[i] = results[i]
        /\ results'[Len(results) + 1] = v
    BY <1>3, <2>1, ListAppend
  <2>3. Len(results) \in Nat /\ DOMAIN results = 1..Len(results) /\ DOMAIN results' = 1..Len(results')
    BY <1>3, <2>2, ListFacts
  <2>4. \A k \in DOMAIN results' : Declares(results'[k], outputs')
    <3> SUFFICES ASSUME NEW k \in DOMAIN results' PROVE Declares(results'[k], outputs')
      OBVIOUS
    <3>1. CASE k = Len(results) + 1
      BY <2>2, <3>1
    <3>2. CASE k # Len(results) + 1
      <4>1. k \in DOMAIN results
        BY <2>2, <2>3, <3>2
      <4>2. Declares(results[k], outputs')
        BY <1>3, <4>1
      <4>3. results'[k] = results[k]
        BY <2>2, <4>1
      <4> QED
        BY <4>2, <4>3
    <3> QED
      BY <3>1, <3>2
  <2>5. Shape'
    BY <1>2, <1>3, <1>4, <2>1, <2>2, NoList DEF DInv, Shape
  <2>6. \A i \in DOMAIN calls' : FALSE
    BY <2>1, NoList
  <2> QED
    BY <2>4, <2>5, <2>6 DEF DInv
<1>6. CASE n # 1
  <2>1. /\ calls' = [Front(calls) EXCEPT ![n - 1].done = Append(@, v)]
        /\ UNCHANGED <<results, pos>>
    BY <1>1, <1>6 DEF Return
  <2>2. n > 1 /\ n - 1 \in DOMAIN calls
    BY <1>1, <1>6
  <2> DEFINE c == calls[n - 1]
             e == Handed(c, v)
  <2>3. /\ IsList(calls') /\ Len(calls') = n - 1 /\ DOMAIN calls' = 1..(n - 1)
        /\ \A i \in 1..(n - 1) : i # n - 1 => calls'[i] = calls[i]
        /\ calls'[n - 1] = e
    <3>1. n = Len(calls) /\ n > 1 /\ IsList(calls)
      BY <1>1, <1>3, <2>2
    <3>2. calls' = Returned(calls, n, v)
      BY <2>1 DEF Returned
    <3> QED
      BY <3>1, <3>2, ListReturn
  <2>4. Self' = Self
    BY <2>1 DEF Self
  <2>5. Frame(c, Self, outputs')
    BY <1>3, <2>2, FrameGrow
  <2>6. Frame(e, Self, outputs')
    <3> HIDE DEF c
    <3> QED
      BY <2>5, FrameMore
  <2>7. \A i \in DOMAIN calls' : Frame(calls'[i], Self', outputs')
    <3> SUFFICES ASSUME NEW i \in 1..(n - 1) PROVE Frame(calls'[i], Self', outputs')
      BY <2>3
    <3>1. CASE i = n - 1
      BY <2>3, <2>4, <2>6, <3>1
    <3>2. CASE i # n - 1
      <4>1. i \in DOMAIN calls
        BY <1>1
      <4>2. Frame(calls[i], Self, outputs')
        BY <1>3, <4>1, FrameGrow
      <4>3. calls'[i] = calls[i]
        BY <2>3, <3>2
      <4> QED
        BY <2>4, <4>2, <4>3
    <3> QED
      BY <3>1, <3>2
  <2>8. Shape'
    BY <1>2, <1>3, <1>4, <2>1, <2>3 DEF DInv, Shape
  <2> QED
    BY <1>3, <2>1, <2>7, <2>8 DEF DInv
<1> QED
  BY <1>5, <1>6

LEMMA CallsOne == ASSUME NEW c PROVE LET s == <<c>> IN IsList(s) /\ DOMAIN s = {1} /\ s[1] = c /\ Len(s) = 1
<1> DEFINE s == <<c>>
<1>1. s \in Seq({c}) /\ Len(s) = 1 /\ s[1] = c /\ DOMAIN s = {1}
  BY DEF s
<1> QED
  BY <1>1, ListOf

LEMMA CallIs == ASSUME NEW v PROVE Call(v) = CallFor(v, Self)
BY DEF Call, CallFor

\* The innermost call.
LEMMA TopFrame ==
    ASSUME DInv, calls # << >>
    PROVE  /\ Shape /\ Len(calls) \in Nat /\ Len(calls) > 0 /\ Len(calls) \in DOMAIN calls
           /\ Top = calls[Len(calls)] /\ Frame(Top, Self, outputs)
<1>1. Shape /\ IsList(calls) /\ calls \in Seq(Range(calls))
  BY DEF DInv, Shape, IsList
<1>2. Len(calls) \in Nat /\ Len(calls) > 0 /\ DOMAIN calls = 1..Len(calls)
  BY <1>1
<1>3. Top = calls[Len(calls)]
  BY DEF Top, Last
<1> QED
  BY <1>1, <1>2, <1>3 DEF DInv

LEMMA InitDInv == ASSUME Init PROVE DInv
<1>1. IsList(uses)
  BY UsesAssumption DEF Init
<1>2. Len(uses) \in Nat
  BY <1>1, ListFacts
<1>3. \A o \in Operations : IsList(outputs[o])
  BY NoList DEF Init
<1>4. calls = << >> /\ results = << >> /\ pos = 1 /\ uses \in Uses
  BY DEF Init
<1>5. outputs = [o \in Operations |-> outputs[o]]
  BY DEF Init
<1>6. IsList(calls) /\ IsList(results) /\ Len(results) = 0 /\ DOMAIN calls = {} /\ DOMAIN results = {}
  BY <1>4, NoList
<1>7. pos \in 1..(Len(uses) + 1) /\ Len(results) = pos - 1
  BY <1>2, <1>4, <1>6
<1>8. Shape
  BY <1>3, <1>4, <1>5, <1>6, <1>7 DEF Shape
<1> QED
  BY <1>6, <1>8 DEF DInv

LEMMA BeginUseDInv == ASSUME DInv, BeginUse PROVE DInv'
<1> DEFINE c == Call(uses[pos].value)
<1>1. /\ pos <= Len(uses) /\ calls' = <<c>>
      /\ UNCHANGED <<uses, pos, results, outputs>>
  BY DEF BeginUse
<1>2. Shape /\ \A k \in DOMAIN results : Declares(results[k], outputs)
  BY DEF DInv
<1>3. Self' = Self
  BY <1>1 DEF Self
<1>4. Frame(c, Self, outputs)
  BY <1>1, <1>2, UseFacts, CallIs, CallFrame
<1> HIDE DEF c
<1>5. IsList(calls') /\ DOMAIN calls' = {1} /\ calls'[1] = c
  BY <1>1, CallsOne
<1>6. Shape'
  BY <1>1, <1>2, <1>5 DEF Shape
<1>7. \A i \in DOMAIN calls' : Frame(calls'[i], Self', outputs')
  BY <1>1, <1>3, <1>4, <1>5
<1> QED
  BY <1>1, <1>2, <1>6, <1>7 DEF DInv

LEMMA TranslatePartDInv == ASSUME DInv, TranslatePart PROVE DInv'
<1> DEFINE part == Parts[Len(Top.done) + 1]
           c == Call(part)
<1>1. /\ calls # << >> /\ Len(Top.done) < Len(Parts) /\ calls' = Append(calls, c)
      /\ UNCHANGED <<uses, pos, results, outputs>>
  BY DEF TranslatePart, InCall
<1>2. /\ Shape /\ \A k \in DOMAIN results : Declares(results[k], outputs)
      /\ \A i \in DOMAIN calls : Frame(calls[i], Self, outputs)
  BY DEF DInv
<1>3. Self' = Self
  BY <1>1 DEF Self
<1>4. Frame(Top, Self, outputs)
  BY <1>1, TopFrame
<1>5. Formed(part)
  <2>1. IsList(Parts) /\ \A p \in Range(Parts) : Formed(p)
    BY <1>1, <1>2, <1>4, PartsFormed
  <2>2. Len(Top.done) \in Nat
    BY <1>4, ListFacts DEF Frame
  <2>3. Len(Parts) \in Nat /\ DOMAIN Parts = 1..Len(Parts)
    BY <2>1, ListFacts
  <2>4. Len(Top.done) + 1 \in DOMAIN Parts
    BY <1>1, <2>2, <2>3
  <2> QED
    BY <2>1, <2>4 DEF Range
<1> HIDE DEF part
<1>6. Frame(c, Self, outputs)
  BY <1>5, CallIs, CallFrame
<1> HIDE DEF c
<1>7. IsList(calls)
  BY <1>2 DEF Shape
<1>8. /\ IsList(calls') /\ Len(calls') = Len(calls) + 1
      /\ \A i \in DOMAIN calls : calls'[i] = calls[i]
      /\ calls'[Len(calls) + 1] = c
  BY <1>1, <1>7, ListAppend
<1>9. Len(calls) \in Nat /\ DOMAIN calls = 1..Len(calls) /\ DOMAIN calls' = 1..(Len(calls) + 1)
  BY <1>7, <1>8, ListFacts
<1>10. Shape'
  BY <1>1, <1>2, <1>8 DEF Shape
<1>11. \A i \in DOMAIN calls' : Frame(calls'[i], Self', outputs')
  <2> SUFFICES ASSUME NEW i \in DOMAIN calls' PROVE Frame(calls'[i], Self', outputs')
    OBVIOUS
  <2>1. CASE i = Len(calls) + 1
    BY <1>1, <1>3, <1>6, <1>8, <2>1
  <2>2. CASE i # Len(calls) + 1
    <3>1. i \in DOMAIN calls
      BY <1>9, <2>2
    <3>2. calls'[i] = calls[i] /\ Frame(calls[i], Self, outputs)
      BY <1>2, <1>8, <3>1
    <3> QED
      BY <1>1, <1>3, <3>2
  <2> QED
    BY <2>1, <2>2
<1> QED
  BY <1>1, <1>2, <1>10, <1>11 DEF DInv

LEMMA SameGrows == ASSUME Shape, UNCHANGED outputs PROVE OutputsGrow /\ outputs' = [o \in Operations |-> outputs'[o]]
BY DEF Shape, OutputsGrow

LEMMA ReturnValueDInv == ASSUME DInv, ReturnValue PROVE DInv'
<1>1. /\ calls # << >> /\ Len(Top.done) = Len(Parts) /\ ~ Fails /\ Return(Translated)
      /\ uses' = uses /\ outputs' = outputs
  BY DEF ReturnValue, InCall
<1>2. Shape /\ Frame(Top, Self, outputs)
  BY <1>1, TopFrame
<1>3. Declares(Translated, outputs)
  BY <1>1, <1>2, TranslatedDeclares
<1>4. OutputsGrow /\ outputs' = [o \in Operations |-> outputs'[o]]
  BY <1>1, <1>2, SameGrows
<1>5. Declares(Translated, outputs')
  BY <1>3, <1>4, DeclaresGrow
<1> QED
  BY <1>1, <1>4, <1>5, ReturnDInv

LEMMA ReturnArtifactDInv == ASSUME DInv, ReturnArtifact PROVE DInv'
<1> DEFINE file == Hot("get_file", <<Text(Top.at.name)>>)
<1>1. /\ calls # << >> /\ (Return(file) \/ Return(AsIs))
      /\ uses' = uses /\ outputs' = outputs
  BY DEF ReturnArtifact, InCall
<1>2. Shape /\ Frame(Top, Self, outputs)
  BY <1>1, TopFrame
<1>3. OutputsGrow /\ outputs' = [o \in Operations |-> outputs'[o]]
  BY <1>1, <1>2, SameGrows
<1>4. Declares(file, outputs')
  <2> DEFINE args == <<Text(Top.at.name)>>
  <2>1. \A i \in DOMAIN args : Declares(args[i], outputs')
    <3>1. \A i \in DOMAIN args : args[i] = Text(Top.at.name)
      OBVIOUS
    <3> HIDE DEF args
    <3> QED
      BY <3>1, TextDeclares
  <2>2. Declared(Hot("get_file", args), outputs')
    BY DEF Declared, Hot, Has
  <2>3. Declares(Hot("get_file", args), outputs')
    <3> HIDE DEF args
    <3> QED
      BY <2>1, <2>2, HotDeclares
  <2> QED
    BY <2>3
<1>5. Declares(AsIs, outputs')
  BY <1>2, <1>3, AsIsDeclares, DeclaresGrow
<1> HIDE DEF file
<1> QED
  BY <1>1, <1>3, <1>4, <1>5, ReturnDInv

LEMMA ReturnOutputDInv == ASSUME DInv, ReturnOutput PROVE DInv'
<1> DEFINE n == FindNode(Value.args[1], Self)
           operation == Value.args[3]
           output == Value.args[4]
           o == <<n, operation>>
           read == Hot("get_attr", <<Text(n), Text(operation), Text(output)>>)
<1>1. /\ calls # << >> /\ uses' = uses
      /\ IF n # None /\ operation \in Node[n].operations
         THEN Return(read) /\ outputs' = WithOutput(o, output)
         ELSE Return(AsIs) /\ outputs' = outputs
  BY DEF ReturnOutput, InCall
<1>2. Shape /\ Frame(Top, Self, outputs)
  BY <1>1, TopFrame
<1>3. CASE n # None /\ operation \in Node[n].operations
  <2>1. n \in DOMAIN Node
    BY <1>1, <1>2, <1>3, UseFacts, FoundNode DEF Shape, MaybeNode
  <2>2. o \in Operations
    BY <1>3, <2>1 DEF Operations
  <2>3. outputs' = [outputs EXCEPT ![o] = Append(@, output)] /\ Return(read)
    BY <1>1, <1>3 DEF WithOutput
  <2> HIDE DEF n, operation, output, o
  <2>4. outputs = [p \in Operations |-> outputs[p]] /\ \A p \in Operations : IsList(outputs[p])
    BY <1>2 DEF Shape
  <2>5. /\ outputs' = [p \in Operations |-> outputs'[p]]
        /\ \A p \in Operations : p # o => outputs'[p] = outputs[p]
        /\ outputs'[o] = Append(outputs[o], output)
    BY <2>2, <2>3, <2>4
  <2>6. IsList(outputs'[o]) /\ Range(outputs'[o]) = Range(outputs[o]) \cup {output}
    BY <2>2, <2>4, <2>5, ListAppend
  <2>7. OutputsGrow
    <3> SUFFICES ASSUME NEW p \in Operations
                 PROVE  IsList(outputs'[p]) /\ Range(outputs[p]) \subseteq Range(outputs'[p])
      BY DEF OutputsGrow
    <3>1. CASE p = o
      BY <2>6, <3>1
    <3>2. CASE p # o
      BY <2>4, <2>5, <3>2
    <3> QED
      BY <3>1, <3>2
  <2>8. output \in Range(outputs'[o])
    BY <2>6
  <2>9. Declares(read, outputs')
    BY <2>2, <2>8, OutputDeclares DEF o
  <2> HIDE DEF read
  <2> QED
    BY <1>1, <2>3, <2>5, <2>7, <2>9, ReturnDInv
<1>4. CASE ~ (n # None /\ operation \in Node[n].operations)
  <2>1. Return(AsIs) /\ outputs' = outputs
    BY <1>1, <1>4
  <2>2. OutputsGrow /\ outputs' = [p \in Operations |-> outputs'[p]]
    BY <1>2, <2>1, SameGrows
  <2>3. Declares(AsIs, outputs')
    BY <1>2, <2>2, AsIsDeclares, DeclaresGrow
  <2> QED
    BY <1>1, <2>1, <2>2, <2>3, ReturnDInv
<1> QED
  BY <1>3, <1>4

LEMMA SameDInv == ASSUME DInv, UNCHANGED <<uses, pos, calls, results, outputs>> PROVE DInv'
BY DEF DInv, Shape, Self

LEMMA NextDInv == ASSUME DInv, [Next]_vars PROVE DInv'
<1>1. CASE BeginUse
  BY <1>1, BeginUseDInv
<1>2. CASE TranslatePart
  BY <1>2, TranslatePartDInv
<1>3. CASE ReturnValue
  BY <1>3, ReturnValueDInv
<1>4. CASE ReturnArtifact
  BY <1>4, ReturnArtifactDInv
<1>5. CASE ReturnOutput
  BY <1>5, ReturnOutputDInv
<1>6. CASE Raise
  BY <1>6, SameDInv DEF Raise
<1>7. CASE UNCHANGED vars
  BY <1>7, SameDInv DEF vars
<1> QED
  BY <1>1, <1>2, <1>3, <1>4, <1>5, <1>6, <1>7 DEF Next

LEMMA DInvDeclared == ASSUME DInv PROVE OutputsDeclared
<1> SUFFICES ASSUME NEW k \in DOMAIN results, NEW a \in Attributes(results[k]), Len(a) = 3
             PROVE  a[3].text \in Range(outputs[<<a[1].text, a[2].text>>])
  BY DEF OutputsDeclared
<1>1. PICK w \in Within(results[k]) : Has(w, "hot") /\ w.hot = "get_attr" /\ a = w.args
  BY DEF Attributes
<1>2. PICK d \in 0..MaxDepth : w \in Level(results[k])[d]
  BY DEF Within
<1>3. d \in Nat
  BY NodesAssumption
<1>4. Declared(w, outputs)
  BY <1>2, <1>3 DEF DInv, Declares
<1> QED
  BY <1>1, <1>4 DEF Declared

\* Every output of an operation that a returned value reads is an output of the
\* config of the operation, however many values read it, for any template: as
\* the runs check it, and at any depth within the value.
THEOREM EveryOutputIsDeclared ==
    Spec => [](OutputsDeclared /\ \A k \in DOMAIN results : Declares(results[k], outputs))
<1>1. Init => DInv
  BY InitDInv
<1>2. DInv /\ [Next]_vars => DInv'
  BY NextDInv
<1>3. DInv => OutputsDeclared /\ \A k \in DOMAIN results : Declares(results[k], outputs)
  BY DInvDeclared DEF DInv
<1> QED
  BY <1>1, <1>2, <1>3, PTL DEF Spec


-----------------------------------------------------------------------------
(* What a use asks for, and what it means.                                 *)

AskedStep(use, f, d) ==
    IF d = 0 THEN {<<use.value, use.owner>>} ELSE UNION {Range(Asks(p[1], p[2])) : p \in f[d - 1]}

AskedUpTo(use, n, f) == f = [d \in 0..n |-> AskedStep(use, f, d)]

\* The recursive function of Asked exists up to every step.
LEMMA AskedExist ==
    ASSUME NEW use, NEW n \in Nat
    PROVE  \E f : AskedUpTo(use, n, f)
<1> DEFINE P == {k \in Nat : \E f : AskedUpTo(use, k, f)}
<1>1. 0 \in P
  <2> DEFINE f == [d \in 0..0 |-> {<<use.value, use.owner>>}]
  <2>1. f = [d \in 0..0 |-> AskedStep(use, f, d)]
    BY DEF AskedStep
  <2> HIDE DEF f
  <2> QED
    BY <2>1 DEF AskedUpTo
<1>2. ASSUME NEW k \in 0..(n - 1), k \in P PROVE k + 1 \in P
  <2>1. PICK f : AskedUpTo(use, k, f)
    BY <1>2
  <2> DEFINE next == UNION {Range(Asks(p[1], p[2])) : p \in f[k]}
             g == [d \in 0..(k + 1) |-> IF d <= k THEN f[d] ELSE next]
  <2>2. k \in Nat /\ f = [d \in 0..k |-> AskedStep(use, f, d)]
    BY <2>1 DEF AskedUpTo
  <2>3. \A d \in 0..k : g[d] = f[d]
    BY <2>2
  <2>4. g[k + 1] = next
    BY <2>2
  <2>5. g = [d \in 0..(k + 1) |-> g[d]]
    OBVIOUS
  <2> HIDE DEF g
  <2>6. ASSUME NEW d \in 0..(k + 1) PROVE g[d] = AskedStep(use, g, d)
    <3>1. CASE d = k + 1
      <4>1. d # 0 /\ d - 1 = k /\ k \in 0..k
        BY <2>2, <3>1
      <4>2. g[d - 1] = f[k]
        BY <2>3, <4>1
      <4> QED
        BY <2>4, <3>1, <4>1, <4>2 DEF AskedStep
    <3>2. CASE d # k + 1
      <4>1. d \in 0..k /\ (d # 0 => d - 1 \in 0..k)
        BY <2>2, <3>2
      <4>2. g[d] = AskedStep(use, f, d)
        BY <2>2, <2>3, <4>1
      <4>3. d # 0 => g[d - 1] = f[d - 1]
        BY <2>3, <4>1
      <4> QED
        BY <4>2, <4>3 DEF AskedStep
    <3> QED
      BY <3>1, <3>2
  <2>7. g = [d \in 0..(k + 1) |-> AskedStep(use, g, d)]
    BY <2>5, <2>6
  <2> QED
    BY <2>2, <2>7 DEF AskedUpTo
<1>3. \A k \in 0..n : k \in P
  <2> HIDE DEF P
  <2> QED
    BY <1>1, <1>2, Reaches
<1> QED
  BY <1>3

\* Two of these agree on what both have.
LEMMA AskedAgree ==
    ASSUME NEW use, NEW n \in Nat, NEW m \in Nat, m <= n, NEW f, NEW g,
           AskedUpTo(use, n, f), AskedUpTo(use, m, g)
    PROVE  \A d \in 0..m : f[d] = g[d]
<1> DEFINE P == {d \in 0..m : f[d] = g[d]}
<1>0. /\ \A d \in 0..m : f[d] = AskedStep(use, f, d) /\ g[d] = AskedStep(use, g, d)
  <2>1. \A d \in 0..m : d \in 0..n
    OBVIOUS
  <2> QED
    BY <2>1 DEF AskedUpTo
<1>1. 0 \in P
  <2>1. 0 \in 0..m
    OBVIOUS
  <2>2. f[0] = AskedStep(use, f, 0) /\ g[0] = AskedStep(use, g, 0)
    BY <1>0, <2>1
  <2> QED
    BY <2>1, <2>2 DEF AskedStep
<1>2. ASSUME NEW k \in 0..(m - 1), k \in P PROVE k + 1 \in P
  <2>1. k + 1 \in 0..m /\ k + 1 # 0 /\ (k + 1) - 1 = k
    OBVIOUS
  <2>2. f[k] = g[k]
    BY <1>2
  <2> QED
    BY <1>0, <2>1, <2>2 DEF AskedStep
<1>3. \A k \in 0..m : k \in P
  <2> HIDE DEF P
  <2> QED
    BY <1>1, <1>2, Reaches
<1> QED
  BY <1>3

\* Asked, unfolded.
LEMMA AskedUnfold ==
    ASSUME NEW use
    PROVE  /\ Asked(use)[0] = {<<use.value, use.owner>>}
           /\ \A d \in Nat : Asked(use)[d + 1] = UNION {Range(Asks(p[1], p[2])) : p \in Asked(use)[d]}
<1> DEFINE up(n) == CHOOSE f : AskedUpTo(use, n, f)
           h == [d \in Nat |-> up(d)[d]]
<1>1. \A n \in Nat : AskedUpTo(use, n, up(n))
  BY AskedExist
<1> HIDE DEF up
<1>2. ASSUME NEW d \in Nat PROVE h[d] = AskedStep(use, h, d)
  <2>1. up(d)[d] = AskedStep(use, up(d), d)
    <3>1. d \in 0..d
      OBVIOUS
    <3> QED
      BY <1>1, <3>1 DEF AskedUpTo
  <2>2. d # 0 => up(d)[d - 1] = h[d - 1]
    <3> SUFFICES ASSUME d # 0 PROVE up(d)[d - 1] = h[d - 1]
      OBVIOUS
    <3>1. d - 1 \in Nat /\ d - 1 <= d /\ d - 1 \in 0..(d - 1)
      OBVIOUS
    <3>2. up(d)[d - 1] = up(d - 1)[d - 1]
      BY <1>1, <3>1, AskedAgree
    <3> QED
      BY <3>1, <3>2
  <2>3. h[d] = up(d)[d]
    OBVIOUS
  <2> HIDE DEF h
  <2> QED
    BY <2>1, <2>2, <2>3 DEF AskedStep
<1>3. h = [d \in Nat |-> h[d]]
  OBVIOUS
<1> HIDE DEF h
<1>4. h = [d \in Nat |-> AskedStep(use, h, d)]
  BY <1>2, <1>3
<1>5. Asked(use) = CHOOSE f : f = [d \in Nat |-> AskedStep(use, f, d)]
  BY DEF Asked, AskedStep
<1>6. Asked(use) = [d \in Nat |-> AskedStep(use, Asked(use), d)]
  BY <1>4, <1>5
<1>7. \A d \in Nat : Asked(use)[d] = AskedStep(use, Asked(use), d)
  BY <1>6
<1>8. Asked(use)[0] = {<<use.value, use.owner>>}
  BY <1>7 DEF AskedStep
<1>9. ASSUME NEW d \in Nat PROVE Asked(use)[d + 1] = UNION {Range(Asks(p[1], p[2])) : p \in Asked(use)[d]}
  <2>1. d + 1 \in Nat /\ d + 1 # 0 /\ (d + 1) - 1 = d
    OBVIOUS
  <2> QED
    BY <1>7, <2>1 DEF AskedStep
<1> QED
  BY <1>8, <1>9

AllAsked(use) == UNION {Asked(use)[d] : d \in 0..MaxDepth}

MeaningsFrom(use, actual) == [p \in AllAsked(use) |-> Meaning(p[1], p[2], actual)]

MeaningsStep(use, f, d) ==
    IF d = 0 THEN [p \in AllAsked(use) |-> Nothing] ELSE MeaningsFrom(use, f[d - 1])

MeaningsUpTo(use, n, f) == f = [d \in 0..n |-> MeaningsStep(use, f, d)]

\* The recursive function of Meanings exists up to every step.
LEMMA MeaningsExist ==
    ASSUME NEW use, NEW n \in Nat
    PROVE  \E f : MeaningsUpTo(use, n, f)
<1> DEFINE P == {k \in Nat : \E f : MeaningsUpTo(use, k, f)}
<1>1. 0 \in P
  <2> DEFINE f == [d \in 0..0 |-> [p \in AllAsked(use) |-> Nothing]]
  <2>1. f = [d \in 0..0 |-> MeaningsStep(use, f, d)]
    BY DEF MeaningsStep
  <2> HIDE DEF f
  <2> QED
    BY <2>1 DEF MeaningsUpTo
<1>2. ASSUME NEW k \in 0..(n - 1), k \in P PROVE k + 1 \in P
  <2>1. PICK f : MeaningsUpTo(use, k, f)
    BY <1>2
  <2> DEFINE next == MeaningsFrom(use, f[k])
             g == [d \in 0..(k + 1) |-> IF d <= k THEN f[d] ELSE next]
  <2>2. k \in Nat /\ f = [d \in 0..k |-> MeaningsStep(use, f, d)]
    BY <2>1 DEF MeaningsUpTo
  <2>3. \A d \in 0..k : g[d] = f[d]
    BY <2>2
  <2>4. g[k + 1] = next
    BY <2>2
  <2>5. g = [d \in 0..(k + 1) |-> g[d]]
    OBVIOUS
  <2> HIDE DEF g
  <2>6. ASSUME NEW d \in 0..(k + 1) PROVE g[d] = MeaningsStep(use, g, d)
    <3>1. CASE d = k + 1
      <4>1. d # 0 /\ d - 1 = k /\ k \in 0..k
        BY <2>2, <3>1
      <4>2. g[d - 1] = f[k]
        BY <2>3, <4>1
      <4> QED
        BY <2>4, <3>1, <4>1, <4>2 DEF MeaningsStep
    <3>2. CASE d # k + 1
      <4>1. d \in 0..k /\ (d # 0 => d - 1 \in 0..k)
        BY <2>2, <3>2
      <4>2. g[d] = MeaningsStep(use, f, d)
        BY <2>2, <2>3, <4>1
      <4>3. d # 0 => g[d - 1] = f[d - 1]
        BY <2>3, <4>1
      <4> QED
        BY <4>2, <4>3 DEF MeaningsStep
    <3> QED
      BY <3>1, <3>2
  <2>7. g = [d \in 0..(k + 1) |-> MeaningsStep(use, g, d)]
    BY <2>5, <2>6
  <2> QED
    BY <2>2, <2>7 DEF MeaningsUpTo
<1>3. \A k \in 0..n : k \in P
  <2> HIDE DEF P
  <2> QED
    BY <1>1, <1>2, Reaches
<1> QED
  BY <1>3

\* Two of these agree on what both have.
LEMMA MeaningsAgree ==
    ASSUME NEW use, NEW n \in Nat, NEW m \in Nat, m <= n, NEW f, NEW g,
           MeaningsUpTo(use, n, f), MeaningsUpTo(use, m, g)
    PROVE  \A d \in 0..m : f[d] = g[d]
<1> DEFINE P == {d \in 0..m : f[d] = g[d]}
<1>0. /\ \A d \in 0..m : f[d] = MeaningsStep(use, f, d) /\ g[d] = MeaningsStep(use, g, d)
  <2>1. \A d \in 0..m : d \in 0..n
    OBVIOUS
  <2> QED
    BY <2>1 DEF MeaningsUpTo
<1>1. 0 \in P
  <2>1. 0 \in 0..m
    OBVIOUS
  <2>2. f[0] = MeaningsStep(use, f, 0) /\ g[0] = MeaningsStep(use, g, 0)
    BY <1>0, <2>1
  <2> QED
    BY <2>1, <2>2 DEF MeaningsStep
<1>2. ASSUME NEW k \in 0..(m - 1), k \in P PROVE k + 1 \in P
  <2>1. k + 1 \in 0..m /\ k + 1 # 0 /\ (k + 1) - 1 = k
    OBVIOUS
  <2>2. f[k] = g[k]
    BY <1>2
  <2> QED
    BY <1>0, <2>1, <2>2 DEF MeaningsStep
<1>3. \A k \in 0..m : k \in P
  <2> HIDE DEF P
  <2> QED
    BY <1>1, <1>2, Reaches
<1> QED
  BY <1>3

\* Meanings, unfolded.
LEMMA MeaningsUnfold ==
    ASSUME NEW use
    PROVE  /\ Meanings(use)[0] = [p \in AllAsked(use) |-> Nothing]
           /\ \A d \in Nat : Meanings(use)[d + 1] = MeaningsFrom(use, Meanings(use)[d])
<1> DEFINE up(n) == CHOOSE f : MeaningsUpTo(use, n, f)
           h == [d \in Nat |-> up(d)[d]]
<1>1. \A n \in Nat : MeaningsUpTo(use, n, up(n))
  BY MeaningsExist
<1> HIDE DEF up
<1>2. ASSUME NEW d \in Nat PROVE h[d] = MeaningsStep(use, h, d)
  <2>1. up(d)[d] = MeaningsStep(use, up(d), d)
    <3>1. d \in 0..d
      OBVIOUS
    <3> QED
      BY <1>1, <3>1 DEF MeaningsUpTo
  <2>2. d # 0 => up(d)[d - 1] = h[d - 1]
    <3> SUFFICES ASSUME d # 0 PROVE up(d)[d - 1] = h[d - 1]
      OBVIOUS
    <3>1. d - 1 \in Nat /\ d - 1 <= d /\ d - 1 \in 0..(d - 1)
      OBVIOUS
    <3>2. up(d)[d - 1] = up(d - 1)[d - 1]
      BY <1>1, <3>1, MeaningsAgree
    <3> QED
      BY <3>1, <3>2
  <2>3. h[d] = up(d)[d]
    OBVIOUS
  <2> HIDE DEF h
  <2> QED
    BY <2>1, <2>2, <2>3 DEF MeaningsStep
<1>3. h = [d \in Nat |-> h[d]]
  OBVIOUS
<1> HIDE DEF h
<1>4. h = [d \in Nat |-> MeaningsStep(use, h, d)]
  BY <1>2, <1>3
<1>5. Meanings(use) = CHOOSE f : f = [d \in Nat |-> MeaningsStep(use, f, d)]
  BY DEF AllAsked, Meanings, MeaningsFrom, MeaningsStep
<1>6. Meanings(use) = [d \in Nat |-> MeaningsStep(use, Meanings(use), d)]
  BY <1>4, <1>5
<1>7. \A d \in Nat : Meanings(use)[d] = MeaningsStep(use, Meanings(use), d)
  BY <1>6
<1>8. Meanings(use)[0] = [p \in AllAsked(use) |-> Nothing]
  BY <1>7 DEF MeaningsStep
<1>9. ASSUME NEW d \in Nat PROVE Meanings(use)[d + 1] = MeaningsFrom(use, Meanings(use)[d])
  <2>1. d + 1 \in Nat /\ d + 1 # 0 /\ (d + 1) - 1 = d
    OBVIOUS
  <2> QED
    BY <1>7, <2>1 DEF MeaningsStep
<1> QED
  BY <1>8, <1>9


-----------------------------------------------------------------------------
(* Where a function leads.                                                 *)

\* The node that the code finds is the node that is meant.
LEMMA MeantNode ==
    ASSUME NEW self \in MaybeNode, NEW owner, NEW name, Named(name, owner, self)
    PROVE  /\ FindNode(name, self) = Meant(name, owner)
           /\ Meant(name, owner) \in DOMAIN Node /\ Meant(name, owner) # None
<1>1. None \notin DOMAIN Node
  BY NodesAssumption
<1>2. CASE name = "SELF"
  BY <1>1, <1>2 DEF Named, FindNode, Meant, MaybeNode
<1>3. CASE name = "HOST"
  <2> DEFINE s == Node[self].requirements
             I == {k \in DOMAIN s : s[k].name = "host"}
  <2>1. owner = self /\ self # None /\ self \in DOMAIN Node
    BY <1>3 DEF Named, MaybeNode
  <2>2. PICK r \in I : I = {r} /\ s[r].form = "short"
    BY <1>3 DEF Named
  <2>3. IsList(s)
    BY <2>1, NodesAssumption
  <2>4. Min(I) = r /\ Max(I) = r
    <3>1. I \in SUBSET DOMAIN s /\ I # {}
      BY <2>2
    <3>2. Min(I) \in I /\ Max(I) \in I
      <4> HIDE DEF I, s
      <4> QED
        BY <2>3, <3>1, SomePosition
    <3> HIDE DEF I
    <3> QED
      BY <2>2, <3>2
  <2>5. HostOf(self) = s[r].to
    <3>1. HostOf(self) = IF I = {} \/ s[Max(I)].form = "full" THEN None ELSE s[Max(I)].to
      BY DEF HostOf
    <3> HIDE DEF I, s
    <3> QED
      BY <2>2, <2>4, <3>1
  <2>6. Required(owner, "host") = s[r]
    <3>1. Required(self, "host") = IF I = {} THEN None ELSE s[Min(I)]
      BY DEF Required
    <3> HIDE DEF I, s
    <3> QED
      BY <2>1, <2>2, <2>4, <3>1
  <2>7. s[r].to \in DOMAIN Node
    <3>1. s[r] \in Range(s)
      BY <2>2 DEF Range
    <3> QED
      BY <2>1, <3>1, NodesAssumption
  <2>8. FindNode(name, self) = HostOf(self) /\ Meant(name, owner) = Required(owner, "host").to
    BY <1>3, <2>1 DEF FindNode, Meant
  <2> HIDE DEF s, I
  <2> QED
    BY <1>1, <2>5, <2>6, <2>7, <2>8
<1>4. CASE name # "SELF" /\ name # "HOST"
  BY <1>1, <1>4 DEF Named, FindNode, Meant
<1> QED
  BY <1>2, <1>3, <1>4

\* decipher_get_operation of two arguments, or of three of which the second
\* names no capability and no requirement.
LEMMA DecipheredDirectly ==
    ASSUME NEW self \in MaybeNode, NEW owner, NEW args, Named(args[1], owner, self),
           Directly(args, Meant(args[1], owner))
    PROVE  LET d == Decipher(args, self)
           IN  /\ d.target = Target(Meant(args[1], owner), None) /\ d.name = args[2] /\ ~ d.fails
               /\ d.arg = IF Len(args) >= 3 THEN args[3] ELSE None
<1> DEFINE n == Meant(args[1], owner)
           d == Decipher(args, self)
<1>1. FindNode(args[1], self) = n /\ n # None
  BY MeantNode
<1>2. Len(args) = 2 \/ (args[2] \notin DOMAIN Node[n].capabilities /\ Required(n, args[2]) = None)
  BY DEF Directly
<1>3. d = [target |-> Target(n, None), name |-> args[2],
           arg |-> IF Len(args) >= 3 THEN args[3] ELSE None, fails |-> FALSE]
  <2>1. CASE Len(args) = 2
    BY <1>1, <2>1 DEF Decipher
  <2>2. CASE Len(args) # 2
    BY <1>1, <1>2, <2>2 DEF Decipher
  <2> QED
    BY <2>1, <2>2
<1>4. PICK e : e = Decipher(args, self)
  OBVIOUS
<1> HIDE DEF n
<1>5. /\ e.target = Target(n, None) /\ e.name = args[2] /\ ~ e.fails
      /\ e.arg = IF Len(args) >= 3 THEN args[3] ELSE None
  BY <1>3, <1>4
<1> QED
  BY <1>4, <1>5 DEF n

\* decipher_get_operation finds the property that is meant.
LEMMA DecipheredLeads ==
    ASSUME NEW self \in MaybeNode, NEW owner, NEW args, Named(args[1], owner, self),
           OneWay(args, Meant(args[1], owner))
    PROVE  LET d == Decipher(args, self)
               end == Leads(args, owner)
           IN  d.target = end.target /\ d.name = end.name /\ d.arg = end.arg /\ ~ d.fails
<1> DEFINE n == Meant(args[1], owner)
           d == Decipher(args, self)
           r == Required(n, args[2])
           end == Leads(args, owner)
<1>1. FindNode(args[1], self) = n /\ n # None
  BY MeantNode
<1>2. CASE Directly(args, n)
  <2>1. /\ d.target = Target(n, None) /\ d.name = args[2] /\ ~ d.fails
        /\ d.arg = IF Len(args) >= 3 THEN args[3] ELSE None
    BY <1>2, DecipheredDirectly
  <2>2. CASE Len(args) = 2
    <3>1. end = [target |-> Target(n, None), name |-> args[2], arg |-> None]
      BY <2>2 DEF Leads, LeadsFrom
    <3> QED
      BY <2>1, <2>2, <3>1
  <2>3. CASE Len(args) # 2
    <3>1. Len(args) = 3 /\ args[2] \notin DOMAIN Node[n].capabilities /\ r = None
      BY <1>2, <2>3 DEF Directly
    <3>2. end = [target |-> Target(n, None), name |-> args[2], arg |-> args[3]]
      BY <3>1 DEF Leads, LeadsFrom, Last
    <3> QED
      BY <2>1, <3>1, <3>2
  <2> QED
    BY <2>2, <2>3
<1>3. CASE /\ Len(args) \in {3, 4}
           /\ args[2] \in DOMAIN Node[n].capabilities /\ r = None
  <2> DEFINE t == Target(n, args[2])
             a == IF Len(args) >= 4 THEN args[4] ELSE None
  <2>1. end = [target |-> t, name |-> args[3], arg |-> a]
    BY <1>3 DEF Leads, LeadsFrom, Last
  <2>2. d = [target |-> t, name |-> args[3], arg |-> a, fails |-> FALSE]
    <3>1. n # None /\ ~ (n = None \/ Len(args) = 2)
      BY <1>1, <1>3
    <3> HIDE DEF n
    <3> QED
      BY <1>1, <1>3, <3>1 DEF Decipher
  <2> HIDE DEF t, a, d, end
  <2> QED
    BY <2>1, <2>2 DEF d, end
<1>4. CASE /\ Len(args) \in {3, 4}
           /\ args[2] \notin DOMAIN Node[n].capabilities /\ r # None /\ r.form = "short"
  <2> DEFINE c == IF args[2] \in DOMAIN Node[r.to].capabilities THEN args[2] ELSE None
             t == Target(r.to, c)
             a == IF Len(args) >= 4 THEN args[4] ELSE None
  <2>1. end = [target |-> t, name |-> args[3], arg |-> a]
    <3>1. Len(args) >= 3 /\ r # None
      <4>1. CASE Len(args) = 3
        BY <1>4, <4>1
      <4>2. CASE Len(args) = 4
        BY <1>4, <4>2
      <4> QED
        BY <1>4, <4>1, <4>2
    <3>2. CASE args[2] \in DOMAIN Node[r.to].capabilities
      <4>1. CASE Len(args) = 3
        BY <3>1, <3>2, <4>1 DEF Leads, LeadsFrom, Last
      <4>2. CASE Len(args) = 4
        BY <3>1, <3>2, <4>2 DEF Leads, LeadsFrom, Last
      <4> QED
        BY <1>4, <4>1, <4>2
    <3>3. CASE args[2] \notin DOMAIN Node[r.to].capabilities
      <4>1. CASE Len(args) = 3
        BY <3>1, <3>3, <4>1 DEF Leads, LeadsFrom, Last
      <4>2. CASE Len(args) = 4
        BY <3>1, <3>3, <4>2 DEF Leads, LeadsFrom, Last
      <4> QED
        BY <1>4, <4>1, <4>2
    <3> QED
      BY <3>2, <3>3
  <2>2. d = [target |-> t, name |-> args[3], arg |-> a, fails |-> FALSE]
    <3>1. n # None /\ ~ (n = None \/ Len(args) = 2) /\ r.form # "full"
      BY <1>1, <1>4
    <3> HIDE DEF n
    <3> QED
      BY <1>1, <1>4, <3>1 DEF Decipher
  <2> HIDE DEF t, a, d, end
  <2> QED
    BY <2>1, <2>2 DEF d, end
<1> QED
  BY <1>2, <1>3, <1>4 DEF OneWay


-----------------------------------------------------------------------------
(* What a call asks for and what it returns.                               *)

LEMMA AnEntry ==
    ASSUME NEW v, NEW arg, Enters(v, arg)
    PROVE  Unfold(v, arg) = Element(v, arg)
<1>1. CASE arg = None
  BY <1>1 DEF Unfold, Element
<1>2. CASE arg # None
  <2>1. CASE Has(v, "dict") /\ ~ Has(v, "list") /\ arg \in DOMAIN v.dict
    BY <1>2, <2>1 DEF Unfold, Element
  <2>2. CASE Has(v, "list") /\ ~ Has(v, "dict") /\ Number(arg) # None
    BY <1>2, <2>2 DEF Unfold, Element
  <2> QED
    BY <1>2, <2>1, <2>2 DEF Enters
<1> QED
  BY <1>1, <1>2

\* The innermost call is of a value that is resolvable, as it is written in
\* the node o.
Resolves(o, m) ==
    /\ Shape /\ calls # << >> /\ Frame(Top, Self, outputs)
    /\ Agrees(Value, o, Self, m)

LEMMA ResolvesFacts ==
    ASSUME NEW o, NEW m, Resolves(o, m)
    PROVE  /\ Self \in MaybeNode /\ Form(Value) /\ IsList(Top.done)
           /\ Agrees(Value, o, Self, m)
           /\ (\E f \in {"get_property", "get_attribute", "get_artifact"} : IsFun(Value, f))
                    => Top.at = Decipher(Value.args, Self)
<1>1. Shape /\ Frame(Top, Self, outputs) /\ pos <= Len(uses)
  BY DEF Resolves, Shape
<1>2. Self \in MaybeNode
  BY <1>1, UseFacts
<1>3. Form(Value) /\ IsList(Top.done)
  BY <1>1, FormedParts DEF Frame, Value
<1>4. (\E f \in {"get_property", "get_attribute", "get_artifact"} : IsFun(Value, f))
            => Top.at = Decipher(Value.args, Self)
  BY <1>1, FrameFields DEF Value
<1> QED
  BY <1>2, <1>3, <1>4 DEF Resolves

LEMMA PropertyLeads ==
    ASSUME NEW o, NEW m, Resolves(o, m), IsFun(Value, "get_property")
    PROVE  LET end == Leads(Value.args, o)
           IN  /\ Given = PropertyOf(end.target, end.name) /\ Top.at.arg = end.arg
               /\ Asks(Value, o) = IF Given = Nothing THEN << >> ELSE <<<<Given, end.target.node>>>>
<1> DEFINE end == Leads(Value.args, o)
<1>1. /\ Form(Value) /\ Self \in MaybeNode /\ Top.at = Decipher(Value.args, Self)
      /\ Agrees(Value, o, Self, m)
  BY ResolvesFacts
<1>2. Named(Value.args[1], o, Self) /\ OneWay(Value.args, Meant(Value.args[1], o))
  BY <1>1 DEF Agrees
<1>3. Top.at.target = end.target /\ Top.at.name = end.name /\ Top.at.arg = end.arg
  BY <1>1, <1>2, DecipheredLeads
<1>4. Given = PropertyOf(end.target, end.name)
  BY <1>3 DEF Given
<1>5. Asks(Value, o) = LET p == PropertyOf(end.target, end.name)
                       IN  IF p = Nothing THEN << >> ELSE <<<<p, end.target.node>>>>
  BY <1>1 DEF Asks, IsFun, Has, Form
<1> QED
  BY <1>3, <1>4, <1>5

\* What a call has others translate is what its value asks for.
AsksFor(asked, parts) ==
    /\ Len(parts) \in Nat /\ DOMAIN asked = 1..Len(parts)
    /\ \A k \in 1..Len(parts) : asked[k] = <<parts[k], asked[k][2]>>

LEMMA PartsAsked ==
    ASSUME NEW o, NEW m, Resolves(o, m)
    PROVE  AsksFor(Asks(Value, o), Parts)
<1> SUFFICES ASSUME NEW asked, asked = Asks(Value, o) PROVE AsksFor(asked, Parts)
  OBVIOUS
<1>1. Form(Value)
  BY ResolvesFacts
<1>2. CASE IsFun(Value, "get_property")
  <2>1. Parts = IF Given = Nothing THEN << >> ELSE <<Given>>
    BY <1>1, <1>2 DEF Parts, IsFun, Has, Form
  <2>2. PICK n : asked = IF Given = Nothing THEN << >> ELSE <<<<Given, n>>>>
    BY <1>2, PropertyLeads
  <2>3. CASE Given = Nothing
    <3>1. Parts = << >> /\ asked = << >>
      BY <2>1, <2>2, <2>3 DEF AsksFor
    <3>2. Len(Parts) = 0 /\ DOMAIN asked = {}
      BY <3>1, NoList
    <3> QED
      BY <3>2 DEF AsksFor
  <2>4. CASE Given # Nothing
    <3>1. PICK g : g = Given
      OBVIOUS
    <3>2. Parts = <<g>> /\ asked = <<<<g, n>>>>
      BY <2>1, <2>2, <2>4, <3>1
    <3>3. Len(Parts) = 1 /\ DOMAIN asked = {1} /\ Parts[1] = g /\ asked[1] = <<g, n>>
      BY <3>2, CallsOne
    <3>4. \A k \in 1..1 : k = 1
      OBVIOUS
    <3> QED
      BY <3>3, <3>4 DEF AsksFor
  <2> QED
    BY <2>3, <2>4
<1>3. CASE IsFun(Value, "concat")
  <2>1. Parts = Value.parts /\ IsList(Value.parts)
    BY <1>1, <1>3 DEF Parts, IsFun, Has, Form
  <2>2. asked = [k \in DOMAIN Value.parts |-> <<Value.parts[k], o>>]
    BY <1>1, <1>3 DEF Asks, IsFun, Has, Form
  <2>3. Len(Parts) \in Nat /\ DOMAIN Value.parts = 1..Len(Parts)
    BY <2>1, ListFacts
  <2> QED
    BY <2>1, <2>2, <2>3 DEF AsksFor
<1>4. CASE Has(Value, "list")
  <2>1. Parts = Value.list /\ IsList(Value.list)
    BY <1>1, <1>4 DEF Parts, IsFun, Has, Form
  <2>2. asked = [k \in DOMAIN Value.list |-> <<Value.list[k], o>>]
    BY <1>1, <1>4 DEF Asks, IsFun, Has, Form
  <2>3. Len(Parts) \in Nat /\ DOMAIN Value.list = 1..Len(Parts)
    BY <2>1, ListFacts
  <2> QED
    BY <2>1, <2>2, <2>3 DEF AsksFor
<1>5. CASE ~ IsFun(Value, "get_property") /\ ~ IsFun(Value, "concat") /\ ~ Has(Value, "list")
  <2>1. Parts = << >> /\ asked = << >>
    BY <1>5 DEF Parts, Asks
  <2>2. Len(Parts) = 0 /\ DOMAIN asked = {}
    BY <2>1, NoList
  <2> QED
    BY <2>2 DEF AsksFor
<1> QED
  BY <1>2, <1>3, <1>4, <1>5

\* What the calls have returned is what they should.
Answered(asked, m) ==
    /\ Len(Top.done) = Len(Parts)
    /\ \A k \in DOMAIN asked : Top.done[k] = m[asked[k]]

LEMMA AnsweredIs ==
    ASSUME NEW o, NEW m, Resolves(o, m), Answered(Asks(Value, o), m)
    PROVE  LET asked == Asks(Value, o)
           IN  Top.done = [k \in DOMAIN asked |-> m[asked[k]]]
<1> DEFINE asked == Asks(Value, o)
<1>1. IsList(Top.done)
  BY ResolvesFacts
<1>2. PICK s : s = Top.done
  OBVIOUS
<1>3. s \in Seq(Range(s)) /\ DOMAIN s = 1..Len(s)
  BY <1>1, <1>2 DEF IsList
<1>4. s = [k \in 1..Len(s) |-> s[k]]
  BY <1>3
<1>5. DOMAIN asked = 1..Len(s) /\ \A k \in DOMAIN asked : s[k] = m[asked[k]]
  BY <1>2, PartsAsked DEF Answered, AsksFor
<1> HIDE DEF asked
<1>6. s = [k \in DOMAIN asked |-> m[asked[k]]]
  BY <1>4, <1>5
<1> QED
  BY <1>2, <1>6 DEF asked

\* A call that changes nothing returns the meaning of its value.
LEMMA TranslatedMeaning ==
    ASSUME NEW o, NEW m, Resolves(o, m), Answered(Asks(Value, o), m),
           ~ IsFun(Value, "get_artifact"), ~ IsFun(Value, "get_operation_output")
    PROVE  Translated = Meaning(Value, o, m)
<1> DEFINE asked == Asks(Value, o)
           n == Meant(Value.args[1], o)
<1>1. Form(Value) /\ Agrees(Value, o, Self, m) /\ Self \in MaybeNode
  BY ResolvesFacts
<1>2. Top.done = [k \in DOMAIN asked |-> m[asked[k]]]
  BY AnsweredIs
<1>3. CASE IsFun(Value, "get_property")
  <2> DEFINE end == Leads(Value.args, o)
  <2>1. Translated = IF Given = Nothing THEN AsIs ELSE Unfold(Top.done[1], Top.at.arg)
    BY <1>1, <1>3 DEF Translated, IsFun, Has, Form
  <2>2. Meaning(Value, o, m) = IF asked = << >> THEN Nothing ELSE Element(m[asked[1]], end.arg)
    BY <1>1, <1>3 DEF Meaning, IsFun, Has, Form
  <2>3. /\ Top.at.arg = end.arg
        /\ asked = IF Given = Nothing THEN << >> ELSE <<<<Given, end.target.node>>>>
    BY <1>3, PropertyLeads
  <2>4. IF asked = << >> THEN Value.parsed ELSE Enters(m[asked[1]], end.arg)
    BY <1>1, <1>3 DEF Agrees
  <2>5. CASE Given = Nothing
    <3>1. asked = << >>
      BY <2>3, <2>5
    <3>2. AsIs = Nothing
      BY <1>1, <1>3, <2>4, <3>1 DEF AsIs, IsFun
    <3> QED
      BY <2>1, <2>2, <2>5, <3>1, <3>2
  <2>6. CASE Given # Nothing
    <3>1. PICK q : asked = <<q>>
      BY <2>3, <2>6
    <3>2. DOMAIN asked = {1} /\ asked # << >>
      BY <3>1, CallsOne, NoList
    <3> HIDE DEF asked, end
    <3>3. Top.done[1] = m[asked[1]]
      BY <1>2, <3>2
    <3>4. Enters(m[asked[1]], end.arg)
      BY <2>4, <3>2
    <3>5. Unfold(Top.done[1], Top.at.arg) = Element(m[asked[1]], end.arg)
      BY <2>3, <3>3, <3>4, AnEntry
    <3> QED
      BY <2>1, <2>2, <2>6, <3>2, <3>5
  <2> QED
    BY <2>5, <2>6
<1>4. CASE IsFun(Value, "get_attribute")
  <2>1. Translated = IF AttributeOfNode THEN HotAttribute(Top.at.target.node, Top.at.name) ELSE AsIs
    BY <1>1, <1>4 DEF Translated, IsFun, Has, Form
  <2>2. Meaning(Value, o, m) = HotAttribute(n, Value.args[2])
    BY <1>1, <1>4 DEF Meaning, IsFun, Has, Form
  <2>3. Named(Value.args[1], o, Self) /\ Directly(Value.args, n)
    BY <1>1, <1>4 DEF Agrees
  <2>4. Top.at = Decipher(Value.args, Self)
    BY <1>4, ResolvesFacts
  <2>5. Top.at.target = Target(n, None) /\ Top.at.name = Value.args[2] /\ n # None
    BY <1>1, <2>3, <2>4, DecipheredDirectly, MeantNode
  <2> HIDE DEF n
  <2>6. Top.at.target.node = n /\ Top.at.target.capability = None
    BY <2>5 DEF Target
  <2> QED
    BY <2>1, <2>2, <2>5, <2>6 DEF AttributeOfNode
<1>5. CASE IsFun(Value, "get_input")
  <2>1. Translated = Hot("get_param", <<Text(Value.args[1])>>)
    BY <1>1, <1>5 DEF Translated, IsFun, Has, Form
  <2>2. Meaning(Value, o, m) = Hot("get_param", <<Text(Value.args[1])>>)
    BY <1>1, <1>5 DEF Meaning, IsFun, Has, Form
  <2> QED
    BY <2>1, <2>2
<1>6. CASE IsFun(Value, "concat")
  <2>1. Translated = Hot("str_replace", Top.done)
    BY <1>1, <1>6 DEF Translated, IsFun, Has, Form
  <2>2. Meaning(Value, o, m) = Hot("str_replace", [k \in DOMAIN asked |-> m[asked[k]]])
    BY <1>1, <1>6 DEF Meaning, IsFun, Has, Form
  <2> HIDE DEF asked
  <2> QED
    BY <1>2, <2>1, <2>2
<1>7. CASE Has(Value, "list")
  <2>1. Translated = [list |-> Filter(Top.done, ToSet(Top.done) \ Falsy)]
    BY <1>1, <1>7 DEF Translated, IsFun, Has, Form
  <2>2. Meaning(Value, o, m) = [list |-> [k \in DOMAIN asked |-> m[asked[k]]]]
    BY <1>1, <1>7 DEF Meaning, IsFun, Has, Form
  <2>3. \A k \in DOMAIN asked : m[asked[k]] \notin Falsy
    BY <1>1, <1>7 DEF Agrees
  <2> HIDE DEF asked
  <2>4. PICK s : s = Top.done
    OBVIOUS
  <2>5. DOMAIN s = DOMAIN asked /\ \A k \in DOMAIN s : s[k] \notin Falsy
    BY <1>2, <2>3, <2>4
  <2>6. s \in Seq(Range(s))
    BY <2>4, ResolvesFacts DEF IsList
  <2>7. \A k \in DOMAIN s : s[k] \in ToSet(s) \ Falsy
    BY <2>5 DEF ToSet
  <2>8. Filter(s, ToSet(s) \ Falsy) = s
    BY <2>6, <2>7, FilterAll
  <2> QED
    BY <1>2, <2>1, <2>2, <2>4, <2>8
<1>8. CASE /\ ~ IsFun(Value, "get_property") /\ ~ IsFun(Value, "get_attribute")
           /\ ~ IsFun(Value, "get_input") /\ ~ IsFun(Value, "concat") /\ ~ Has(Value, "list")
  BY <1>8 DEF Translated, Meaning
<1> QED
  BY <1>3, <1>4, <1>5, <1>6, <1>7, <1>8

\* A file of an artifact.
LEMMA ArtifactMeaning ==
    ASSUME NEW o, NEW m, Resolves(o, m), IsFun(Value, "get_artifact")
    PROVE  /\ Node[Top.at.target.node].artifacts[Top.at.name] = "File"
           /\ Hot("get_file", <<Text(Top.at.name)>>) = Meaning(Value, o, m)
<1> DEFINE n == Meant(Value.args[1], o)
<1>1. Form(Value) /\ Agrees(Value, o, Self, m) /\ Self \in MaybeNode
  BY ResolvesFacts
<1>2. Meaning(Value, o, m) = Hot("get_file", <<Text(Value.args[2])>>)
  BY <1>1 DEF Meaning, IsFun, Has, Form
<1>3. /\ Named(Value.args[1], o, Self) /\ Directly(Value.args, n)
      /\ Node[n].artifacts[Value.args[2]] = "File"
  BY <1>1 DEF Agrees
<1>4. Top.at = Decipher(Value.args, Self)
  BY ResolvesFacts
<1>5. Top.at.target = Target(n, None) /\ Top.at.name = Value.args[2]
  <2>1. PICK args : args = Value.args
    OBVIOUS
  <2>2. Named(args[1], o, Self) /\ Directly(args, Meant(args[1], o)) /\ n = Meant(args[1], o)
    BY <1>3, <2>1
  <2>3. PICK d : d = Decipher(args, Self)
    OBVIOUS
  <2>4. Self \in MaybeNode
    BY <1>1
  <2> HIDE DEF n
  <2>5. d.target = Target(n, None) /\ d.name = args[2]
    BY <2>2, <2>3, <2>4, DecipheredDirectly
  <2> QED
    BY <1>4, <2>1, <2>3, <2>5
<1> HIDE DEF n
<1>6. Top.at.target.node = n
  BY <1>5 DEF Target
<1> QED
  BY <1>2, <1>3, <1>5, <1>6

\* An output of an operation.
LEMMA OutputMeaning ==
    ASSUME NEW o, NEW m, Resolves(o, m), IsFun(Value, "get_operation_output")
    PROVE  LET n == FindNode(Value.args[1], Self)
           IN  /\ n # None /\ Value.args[3] \in Node[n].operations
               /\ Hot("get_attr", <<Text(n), Text(Value.args[3]), Text(Value.args[4])>>)
                        = Meaning(Value, o, m)
<1> DEFINE n == Meant(Value.args[1], o)
<1>1. Form(Value) /\ Agrees(Value, o, Self, m) /\ Self \in MaybeNode
  BY ResolvesFacts
<1>2. Meaning(Value, o, m) = Hot("get_attr", <<Text(n), Text(Value.args[3]), Text(Value.args[4])>>)
  BY <1>1 DEF Meaning, IsFun, Has, Form
<1>3. Named(Value.args[1], o, Self) /\ Value.args[3] \in Node[n].operations
  BY <1>1 DEF Agrees
<1>4. FindNode(Value.args[1], Self) = n /\ n # None
  BY <1>1, <1>3, MeantNode
<1> HIDE DEF n
<1> QED
  BY <1>2, <1>3, <1>4


-----------------------------------------------------------------------------
(* What the running calls stand for.                                       *)

\* The meaning of what is asked for, one step further.
LEMMA MeaningFound ==
    ASSUME NEW use, NEW d \in 0..MaxDepth, NEW p \in Asked(use)[d], NEW m \in Nat
    PROVE  Meanings(use)[m + 1][p] = Meaning(p[1], p[2], Meanings(use)[m])
<1>1. p \in AllAsked(use)
  BY DEF AllAsked
<1>2. PICK f : f = Meanings(use)[m]
  OBVIOUS
<1>3. Meanings(use)[m + 1] = MeaningsFrom(use, f)
  BY <1>2, MeaningsUnfold
<1>4. MeaningsFrom(use, f)[p] = Meaning(p[1], p[2], f)
  BY <1>1 DEF MeaningsFrom
<1> QED
  BY <1>2, <1>3, <1>4

\* The i-th call is of a value that is asked for i - 1 steps away, written in
\* the node o, and what its calls have returned is what its value asks for.
Met(use, i, c, o) ==
    /\ <<c.value, o>> \in Asked(use)[i - 1]
    /\ \A j \in DOMAIN c.done :
            /\ j \in DOMAIN Asks(c.value, o)
            /\ c.done[j] = Meanings(use)[(MaxDepth + 1) - i][Asks(c.value, o)[j]]

\* The call d is of the next value that the call c asks for.
Following(c, o, d, p) ==
    LET k == Len(c.done) + 1
    IN  k \in DOMAIN Asks(c.value, o) /\ Asks(c.value, o)[k] = <<d.value, p>>

Chain(use, owners) ==
    /\ Len(calls) <= MaxDepth + 1
    /\ \A i \in DOMAIN calls : Met(use, i, calls[i], owners[i])
    /\ \A i \in 1..(Len(calls) - 1) : Following(calls[i], owners[i], calls[i + 1], owners[i + 1])

RInv ==
    /\ DInv
    /\ ActualValues
    /\ calls # << >> /\ Resolvable(uses[pos]) => \E owners : Chain(uses[pos], owners)

\* The innermost call is of a value that is resolvable.
LEMMA TopMet ==
    ASSUME DInv, calls # << >>, Resolvable(uses[pos]), NEW owners, Chain(uses[pos], owners)
    PROVE  LET n == Len(calls)
               o == owners[n]
               m == Meanings(uses[pos])[(MaxDepth + 1) - n]
           IN  /\ Met(uses[pos], n, Top, o) /\ n - 1 \in 0..MaxDepth /\ n \in Nat
               /\ (MaxDepth + 1) - n \in Nat
               /\ Resolves(o, m)
               /\ Len(Top.done) = Len(Parts) => Answered(Asks(Value, o), m)
<1> DEFINE n == Len(calls)
           o == owners[n]
           k == (MaxDepth + 1) - n
           m == Meanings(uses[pos])[k]
<1>1. /\ Shape /\ n \in Nat /\ n > 0 /\ n \in DOMAIN calls
      /\ Top = calls[n] /\ Frame(Top, Self, outputs)
  BY TopFrame
<1>2. n - 1 \in 0..MaxDepth /\ k \in Nat /\ MaxDepth - (n - 1) = k
  BY <1>1, NodesAssumption DEF Chain
<1>3. Met(uses[pos], n, Top, o)
  BY <1>1 DEF Chain
<1>4. Resolves(o, m)
  <2>1. <<Value, o>> \in Asked(uses[pos])[n - 1]
    BY <1>3 DEF Met, Value
  <2> HIDE DEF n, o
  <2>2. PICK p : p = <<Value, o>>
    OBVIOUS
  <2>3. Agrees(p[1], p[2], uses[pos].owner, Meanings(uses[pos])[MaxDepth - (n - 1)])
    BY <1>2, <2>1, <2>2 DEF Resolvable
  <2>4. Agrees(Value, o, Self, m)
    BY <1>2, <2>2, <2>3 DEF Self
  <2> QED
    BY <1>1, <2>4 DEF Resolves
<1>5. ASSUME Len(Top.done) = Len(Parts) PROVE Answered(Asks(Value, o), m)
  <2> HIDE DEF n, o, k, m
  <2>1. AsksFor(Asks(Value, o), Parts)
    BY <1>4, PartsAsked
  <2>2. IsList(Top.done)
    BY <1>4, ResolvesFacts
  <2>3. DOMAIN Asks(Value, o) = DOMAIN Top.done
    BY <1>5, <2>1, <2>2, ListFacts DEF AsksFor
  <2>4. \A j \in DOMAIN Top.done : Top.done[j] = m[Asks(Value, o)[j]]
    BY <1>3 DEF Met, Value, m, k
  <2> QED
    BY <1>5, <2>3, <2>4 DEF Answered
<1> HIDE DEF n, o, k
<1>6. /\ Met(uses[pos], n, Top, o) /\ n - 1 \in 0..MaxDepth /\ n \in Nat /\ k \in Nat
      /\ Resolves(o, m)
      /\ Len(Top.done) = Len(Parts) => Answered(Asks(Value, o), m)
  BY <1>1, <1>2, <1>3, <1>4, <1>5
<1> QED
  BY <1>6 DEF n, o, k

\* A call returns what its value means.
LEMMA ReturnRInv ==
    ASSUME RInv, DInv', calls # << >>, uses' = uses, NEW v, Return(v),
           \A o, m : /\ Resolves(o, m)
                     /\ Len(Top.done) = Len(Parts) => Answered(Asks(Value, o), m)
                     => v = Meaning(Value, o, m)
    PROVE  RInv'
<1>0. PICK use : use = uses[pos]
  OBVIOUS
<1>1. PICK n \in Nat : n = Len(calls) /\ n > 0 /\ DOMAIN calls = 1..n /\ Top = calls[n]
  <2>1. IsList(calls)
    BY DEF RInv, DInv, Shape
  <2> QED
    BY <2>1, TopFrame, ListFacts DEF RInv
<1>2. MaxDepth \in Nat
  BY NodesAssumption
<1>3. ASSUME Resolvable(use), NEW owners, Chain(use, owners)
      PROVE  /\ <<Value, owners[n]>> \in Asked(use)[n - 1]
             /\ v = Meanings(use)[(MaxDepth + 2) - n][<<Value, owners[n]>>]
  <2> DEFINE o == owners[n]
             k == (MaxDepth + 1) - n
             m == Meanings(use)[k]
  <2>1. /\ Met(use, n, Top, o) /\ n - 1 \in 0..MaxDepth /\ k \in Nat
        /\ Resolves(o, m)
        /\ Len(Top.done) = Len(Parts) => Answered(Asks(Value, o), m)
    BY <1>0, <1>1, <1>3, TopMet DEF RInv
  <2>2. <<Value, o>> \in Asked(use)[n - 1]
    BY <2>1 DEF Met, Value
  <2>3. v = Meaning(Value, o, m)
    <3> HIDE DEF o, m
    <3> QED
      BY <2>1
  <2>4. k + 1 = (MaxDepth + 2) - n
    BY <1>1, <1>2
  <2> HIDE DEF o, k
  <2>5. PICK p : p = <<Value, o>>
    OBVIOUS
  <2>6. Meanings(use)[k + 1][p] = Meaning(p[1], p[2], Meanings(use)[k])
    BY <2>1, <2>2, <2>5, MeaningFound
  <2>7. p[1] = Value /\ p[2] = o
    BY <2>5
  <2>8. v = Meanings(use)[k + 1][p]
    BY <2>3, <2>6, <2>7
  <2> QED
    BY <2>2, <2>4, <2>5, <2>8 DEF o
<1>4. CASE n = 1
  <2>1. results' = Append(results, v) /\ pos' = pos + 1 /\ calls' = << >>
    BY <1>1, <1>4 DEF Return
  <2>2. IsList(results) /\ Len(results) = pos - 1 /\ pos \in Nat
    <3>1. IsList(uses)
      BY UsesAssumption DEF RInv, DInv, Shape
    <3> QED
      BY <3>1, ListFacts DEF RInv, DInv, Shape
  <2>3. /\ IsList(results') /\ Len(results') = Len(results) + 1
        /\ \A i \in DOMAIN results : results'[i] = results[i]
        /\ results'[Len(results) + 1] = v
    BY <2>1, <2>2, ListAppend
  <2>4. DOMAIN results = 1..Len(results) /\ DOMAIN results' = 1..Len(results')
    BY <2>2, <2>3, ListFacts
  <2>5. Resolvable(use) => v = Actual(use)
    <3> SUFFICES ASSUME Resolvable(use) PROVE v = Actual(use)
      OBVIOUS
    <3>1. PICK owners : Chain(use, owners)
      BY <1>0 DEF RInv
    <3>2. /\ <<Value, owners[n]>> \in Asked(use)[n - 1]
          /\ v = Meanings(use)[(MaxDepth + 2) - n][<<Value, owners[n]>>]
      BY <1>3, <3>1
    <3>3. n - 1 = 0 /\ (MaxDepth + 2) - n = MaxDepth + 1
      BY <1>2, <1>4
    <3>4. Asked(use)[0] = {<<use.value, use.owner>>}
      BY AskedUnfold
    <3>5. <<Value, owners[n]>> = <<use.value, use.owner>>
      BY <3>2, <3>3, <3>4
    <3> QED
      BY <3>2, <3>3, <3>5 DEF Actual
  <2>6. ActualValues'
    <3> SUFFICES ASSUME NEW k \in DOMAIN results', Resolvable(uses[k])
                 PROVE  results'[k] = Actual(uses[k])
      BY DEF ActualValues, Resolvable, Actual
    <3>1. CASE k = Len(results) + 1
      BY <1>0, <2>2, <2>3, <2>5, <3>1
    <3>2. CASE k # Len(results) + 1
      <4>1. k \in DOMAIN results
        BY <2>2, <2>3, <2>4, <3>2
      <4> QED
        BY <2>3, <4>1 DEF RInv, ActualValues
    <3> QED
      BY <3>1, <3>2
  <2> QED
    BY <2>1, <2>6 DEF RInv
<1>5. CASE n # 1
  <2>1. /\ calls' = Returned(calls, n, v)
        /\ UNCHANGED <<results, pos>>
    BY <1>1, <1>5 DEF Return, Returned
  <2>2. n > 1 /\ n - 1 \in DOMAIN calls /\ IsList(calls)
    BY <1>1, <1>5 DEF RInv, DInv, Shape
  <2> DEFINE c == calls[n - 1]
             e == Handed(c, v)
  <2>3. /\ IsList(calls') /\ Len(calls') = n - 1 /\ DOMAIN calls' = 1..(n - 1)
        /\ \A i \in 1..(n - 1) : i # n - 1 => calls'[i] = calls[i]
        /\ calls'[n - 1] = e
    BY <1>1, <2>1, <2>2, ListReturn
  <2>4. Frame(c, Self, outputs)
    BY <2>2 DEF RInv, DInv
  <2>5. e.value = c.value /\ e.done = Append(c.done, v)
    <3> HIDE DEF c
    <3> QED
      BY <2>4 DEF Handed, Frame, CallFor
  <2>6. IsList(c.done)
    BY <2>4 DEF Frame
  <2>7. ActualValues'
    BY <2>1 DEF RInv, ActualValues, Resolvable, Actual
  <2>8. ASSUME Resolvable(use) PROVE \E owners : Chain(use, owners)'
    <3>1. PICK owners : Chain(use, owners)
      BY <1>0, <2>8, <2>2, NoList DEF RInv
    <3>2. /\ <<Value, owners[n]>> \in Asked(use)[n - 1]
          /\ v = Meanings(use)[(MaxDepth + 2) - n][<<Value, owners[n]>>]
      BY <1>3, <2>8, <3>1
    <3> DEFINE o == owners[n - 1]
               asked == Asks(c.value, o)
               m == Meanings(use)[(MaxDepth + 1) - (n - 1)]
    <3>3. Met(use, n - 1, c, o)
      BY <2>2, <3>1 DEF Chain
    <3>4. Following(c, o, Top, owners[n])
      <4>1. n - 1 \in 1..(Len(calls) - 1) /\ (n - 1) + 1 = n
        BY <1>1, <2>2
      <4> QED
        BY <1>1, <3>1, <4>1 DEF Chain
    <3>5. Len(c.done) + 1 \in DOMAIN asked /\ asked[Len(c.done) + 1] = <<Value, owners[n]>>
      BY <3>4 DEF Following, Value
    <3>6. (MaxDepth + 1) - (n - 1) = (MaxDepth + 2) - n
      BY <1>1, <1>2
    <3>7. v = m[asked[Len(c.done) + 1]]
      BY <3>2, <3>5, <3>6
    <3> HIDE DEF asked, m
    <3>8. \A j \in DOMAIN c.done : j \in DOMAIN asked /\ c.done[j] = m[asked[j]]
      BY <3>3 DEF Met, asked, m
    <3>9. \A j \in DOMAIN e.done : j \in DOMAIN asked /\ e.done[j] = m[asked[j]]
      <4>1. PICK s, t : s = c.done /\ t = e.done
        OBVIOUS
      <4>2. /\ IsList(t) /\ Len(t) = Len(s) + 1 /\ t[Len(s) + 1] = v
            /\ \A i \in DOMAIN s : t[i] = s[i]
        BY <2>5, <2>6, <4>1, ListAppend
      <4>3. Len(s) \in Nat /\ DOMAIN s = 1..Len(s) /\ DOMAIN t = 1..Len(t)
        BY <2>6, <4>1, <4>2, ListFacts
      <4>4. \A j \in DOMAIN t : j \in DOMAIN s \/ j = Len(s) + 1
        BY <4>2, <4>3
      <4> HIDE DEF e, c
      <4> QED
        BY <3>5, <3>7, <3>8, <4>1, <4>2, <4>4
    <3>10. Met(use, n - 1, e, o)
      BY <2>5, <3>3, <3>9 DEF Met, asked, m
    <3>11. Chain(use, owners)'
      <4>1. (Len(calls) <= MaxDepth + 1)'
        BY <1>1, <1>2, <2>3, <3>1 DEF Chain
      <4>2. ASSUME NEW i \in 1..(n - 1) PROVE Met(use, i, calls'[i], owners[i])
        <5>1. CASE i = n - 1
          BY <2>3, <3>10, <5>1
        <5>2. CASE i # n - 1
          BY <1>1, <2>3, <3>1, <5>2 DEF Chain
        <5> QED
          BY <5>1, <5>2
      <4>3. ASSUME NEW i \in 1..((n - 1) - 1)
            PROVE  Following(calls'[i], owners[i], calls'[i + 1], owners[i + 1])
        <5>1. i \in 1..(n - 1) /\ i # n - 1 /\ i + 1 \in 1..(n - 1) /\ i \in 1..(n - 1)
          BY <1>1
        <5>2. Following(calls[i], owners[i], calls[i + 1], owners[i + 1]) /\ calls'[i] = calls[i]
          BY <1>1, <2>3, <3>1, <5>1 DEF Chain
        <5>3. calls'[i + 1].value = calls[i + 1].value
          <6>1. CASE i + 1 = n - 1
            BY <2>3, <2>5, <6>1
          <6>2. CASE i + 1 # n - 1
            BY <2>3, <5>1, <6>2
          <6> QED
            BY <6>1, <6>2
        <5> QED
          BY <5>2, <5>3 DEF Following
      <4> QED
        BY <2>3, <4>1, <4>2, <4>3 DEF Chain
    <3> QED
      BY <3>11
  <2>9. (Resolvable(uses[pos]) => \E owners : Chain(uses[pos], owners))'
    BY <1>0, <2>1, <2>8 DEF Resolvable
  <2> QED
    BY <2>7, <2>9 DEF RInv
<1> QED
  BY <1>4, <1>5


LEMMA InitRInv == ASSUME Init PROVE RInv
<1>1. calls = << >> /\ results = << >>
  BY DEF Init
<1>2. DOMAIN results = {}
  BY <1>1, NoList
<1> QED
  BY <1>1, <1>2, InitDInv DEF RInv, ActualValues

LEMMA BeginUseRInv == ASSUME RInv, BeginUse PROVE RInv'
<1>1. DInv'
  BY BeginUseDInv DEF RInv
<1>2. calls' = <<Call(uses[pos].value)>> /\ UNCHANGED <<uses, pos, results>>
  BY DEF BeginUse
<1>3. ActualValues'
  BY <1>2 DEF RInv, ActualValues, Resolvable, Actual
<1>4. PICK use : use = uses[pos]
  OBVIOUS
<1> DEFINE owners == [i \in {1} |-> use.owner]
<1>5. PICK c : c = Call(use.value)
  OBVIOUS
<1>6. c.value = use.value /\ c.done = << >>
  BY <1>5, CallIs, CallFields
<1>7. Len(calls') = 1 /\ DOMAIN calls' = {1} /\ calls'[1] = c
  BY <1>2, <1>4, <1>5, CallsOne
<1>8. Met(use, 1, c, owners[1])
  <2>1. <<use.value, use.owner>> \in Asked(use)[0]
    BY AskedUnfold
  <2>2. DOMAIN c.done = {}
    BY <1>6, NoList
  <2>3. owners[1] = use.owner
    OBVIOUS
  <2> HIDE DEF owners
  <2> QED
    BY <1>6, <2>1, <2>2, <2>3 DEF Met
<1> HIDE DEF owners
<1>9. Chain(use, owners)'
  <2>1. (Len(calls) <= MaxDepth + 1)'
    BY <1>7, NodesAssumption
  <2>2. \A i \in DOMAIN calls' : Met(use, i, calls'[i], owners[i])
    BY <1>7, <1>8
  <2>3. \A i \in 1..(1 - 1) : FALSE
    OBVIOUS
  <2> QED
    BY <1>7, <2>1, <2>2, <2>3 DEF Chain
<1>10. (\E own : Chain(uses[pos], own))'
  BY <1>2, <1>4, <1>9
<1> QED
  BY <1>1, <1>3, <1>10 DEF RInv

LEMMA TranslatePartRInv == ASSUME RInv, TranslatePart PROVE RInv'
<1> DEFINE part == Parts[Len(Top.done) + 1]
<1>1. DInv'
  BY TranslatePartDInv DEF RInv
<1>2. /\ calls # << >> /\ Len(Top.done) < Len(Parts) /\ calls' = Append(calls, Call(part))
      /\ UNCHANGED <<uses, pos, results>>
  BY DEF TranslatePart, InCall
<1>3. ActualValues'
  BY <1>2 DEF RInv, ActualValues, Resolvable, Actual
<1>4. PICK use : use = uses[pos]
  OBVIOUS
<1>5. ASSUME Resolvable(use) PROVE \E owners : Chain(use, owners)'
  <2>1. PICK owners : Chain(use, owners)
    BY <1>2, <1>4, <1>5 DEF RInv
  <2>2. PICK n \in Nat : n = Len(calls) /\ n > 0 /\ DOMAIN calls = 1..n /\ Top = calls[n]
    <3>1. IsList(calls)
      BY DEF RInv, DInv, Shape
    <3> QED
      BY <1>2, <3>1, TopFrame, ListFacts DEF RInv
  <2> DEFINE o == owners[n]
             m == Meanings(use)[(MaxDepth + 1) - n]
  <2>3. Met(use, n, Top, o) /\ n - 1 \in 0..MaxDepth /\ Resolves(o, m)
    BY <1>2, <1>4, <1>5, <2>1, <2>2, TopMet DEF RInv
  <2> HIDE DEF o, m
  <2>4. PICK asked : asked = Asks(Value, o)
    OBVIOUS
  <2>5. PICK k : k = Len(Top.done) + 1
    OBVIOUS
  <2>6. AsksFor(asked, Parts) /\ IsList(Top.done)
    BY <2>3, <2>4, PartsAsked, ResolvesFacts
  <2>7. k \in 1..Len(Parts)
    BY <1>2, <2>5, <2>6, ListFacts DEF AsksFor
  <2>8. PICK p : p = asked[k][2]
    OBVIOUS
  <2>9. k \in DOMAIN asked /\ asked[k] = <<part, p>>
    BY <2>5, <2>6, <2>7, <2>8 DEF AsksFor
  <2> HIDE DEF part
  <2>10. <<part, p>> \in Asked(use)[n]
    <3>1. <<Value, o>> \in Asked(use)[n - 1]
      BY <2>3 DEF Met, Value
    <3>2. Asked(use)[(n - 1) + 1] = UNION {Range(Asks(q[1], q[2])) : q \in Asked(use)[n - 1]}
      <4>1. n - 1 \in Nat
        BY <2>2
      <4> QED
        BY <4>1, AskedUnfold
    <3>3. <<part, p>> \in Range(Asks(Value, o))
      BY <2>4, <2>9 DEF Range
    <3>4. PICK q : q = <<Value, o>>
      OBVIOUS
    <3>5. q \in Asked(use)[n - 1] /\ <<part, p>> \in Range(Asks(q[1], q[2]))
      BY <3>1, <3>3, <3>4
    <3>6. (n - 1) + 1 = n
      BY <2>2
    <3> QED
      BY <3>2, <3>5, <3>6
  <2>11. n + 1 <= MaxDepth + 1
    <3>1. Asked(use)[MaxDepth + 1] = {}
      BY <1>5 DEF Resolvable
    <3>2. n # MaxDepth + 1
      BY <2>10, <3>1
    <3> QED
      BY <2>2, <2>3, <3>2, NodesAssumption
  <2>12. PICK c : c = Call(part)
    OBVIOUS
  <2>13. c.value = part /\ c.done = << >>
    BY <2>12, CallIs, CallFields
  <2>14. /\ Len(calls') = n + 1 /\ DOMAIN calls' = 1..(n + 1)
         /\ \A i \in 1..n : calls'[i] = calls[i]
         /\ calls'[n + 1] = c
    <3>1. IsList(calls)
      BY DEF RInv, DInv, Shape
    <3>2. calls' = Append(calls, c)
      BY <1>2, <2>12 DEF part
    <3> QED
      BY <2>2, <3>1, <3>2, ListAppend, ListFacts
  <2> DEFINE own == [i \in 1..(n + 1) |-> IF i = n + 1 THEN p ELSE owners[i]]
  <2>15. own[n + 1] = p /\ \A i \in 1..n : own[i] = owners[i]
    BY <2>2
  <2> HIDE DEF own
  <2>16. Met(use, n + 1, c, own[n + 1])
    <3>1. DOMAIN c.done = {}
      BY <2>13, NoList
    <3>2. (n + 1) - 1 = n
      BY <2>2
    <3> QED
      BY <2>10, <2>13, <2>15, <3>1, <3>2 DEF Met
  <2>17. Following(calls[n], own[n], c, own[n + 1])
    <3>1. own[n] = o
      BY <2>2, <2>15 DEF o
    <3>2. asked = Asks(calls[n].value, o) /\ k = Len(calls[n].done) + 1
      BY <2>2, <2>4, <2>5 DEF Value
    <3> QED
      BY <2>9, <2>13, <2>15, <3>1, <3>2 DEF Following
  <2>18. Chain(use, own)'
    <3>1. (Len(calls) <= MaxDepth + 1)'
      BY <2>11, <2>14
    <3>2. ASSUME NEW i \in 1..(n + 1) PROVE Met(use, i, calls'[i], own[i])
      <4>1. CASE i = n + 1
        BY <2>14, <2>16, <4>1
      <4>2. CASE i # n + 1
        <5>1. i \in 1..n
          BY <2>2, <4>2
        <5> QED
          BY <2>1, <2>2, <2>14, <2>15, <5>1 DEF Chain
      <4> QED
        BY <4>1, <4>2
    <3>3. ASSUME NEW i \in 1..((n + 1) - 1)
          PROVE  Following(calls'[i], own[i], calls'[i + 1], own[i + 1])
      <4>1. CASE i = n
        BY <2>2, <2>14, <2>17, <4>1
      <4>2. CASE i # n
        <5>1. i \in 1..(n - 1) /\ i \in 1..n /\ i + 1 \in 1..n
          BY <2>2, <4>2
        <5>2. Following(calls[i], owners[i], calls[i + 1], owners[i + 1])
          BY <2>1, <2>2, <5>1 DEF Chain
        <5> QED
          BY <2>14, <2>15, <5>1, <5>2
      <4> QED
        BY <4>1, <4>2
    <3> QED
      BY <2>14, <3>1, <3>2, <3>3 DEF Chain
  <2> QED
    BY <2>18
<1>6. (Resolvable(uses[pos]) => \E owners : Chain(uses[pos], owners))'
  BY <1>2, <1>4, <1>5 DEF Resolvable
<1> QED
  BY <1>1, <1>3, <1>6 DEF RInv

LEMMA ReturnValueRInv == ASSUME RInv, ReturnValue PROVE RInv'
<1>1. DInv'
  BY ReturnValueDInv DEF RInv
<1>2. /\ calls # << >> /\ uses' = uses /\ Return(Translated) /\ Len(Top.done) = Len(Parts)
      /\ ~ IsFun(Value, "get_artifact") /\ ~ IsFun(Value, "get_operation_output")
  BY DEF ReturnValue, InCall
<1>3. ASSUME NEW o, NEW m, Resolves(o, m),
             Len(Top.done) = Len(Parts) => Answered(Asks(Value, o), m)
      PROVE  Translated = Meaning(Value, o, m)
  BY <1>2, <1>3, TranslatedMeaning
<1> QED
  BY <1>1, <1>2, <1>3, ReturnRInv

LEMMA ReturnArtifactRInv == ASSUME RInv, ReturnArtifact PROVE RInv'
<1> DEFINE file == Hot("get_file", <<Text(Top.at.name)>>)
           is == Node[Top.at.target.node].artifacts[Top.at.name] = "File"
<1>1. DInv'
  BY ReturnArtifactDInv DEF RInv
<1>2. /\ calls # << >> /\ uses' = uses /\ IsFun(Value, "get_artifact")
      /\ IF is THEN Return(file) ELSE Return(AsIs)
  BY DEF ReturnArtifact, InCall
<1>3. ASSUME NEW o, NEW m, Resolves(o, m) PROVE is /\ file = Meaning(Value, o, m)
  BY <1>2, <1>3, ArtifactMeaning
<1> HIDE DEF file, is
<1>4. CASE is
  <2>1. Return(file)
    BY <1>2, <1>4
  <2> QED
    BY <1>1, <1>2, <1>3, <2>1, ReturnRInv
<1>5. CASE ~ is
  <2>1. Return(AsIs)
    BY <1>2, <1>5
  <2> QED
    BY <1>1, <1>2, <1>3, <1>5, <2>1, ReturnRInv
<1> QED
  BY <1>4, <1>5

LEMMA ReturnOutputRInv == ASSUME RInv, ReturnOutput PROVE RInv'
<1> DEFINE n == FindNode(Value.args[1], Self)
           read == Hot("get_attr", <<Text(n), Text(Value.args[3]), Text(Value.args[4])>>)
           is == n # None /\ Value.args[3] \in Node[n].operations
<1>1. DInv'
  BY ReturnOutputDInv DEF RInv
<1>2. /\ calls # << >> /\ uses' = uses /\ IsFun(Value, "get_operation_output")
      /\ IF is THEN Return(read) ELSE Return(AsIs)
  BY DEF ReturnOutput, InCall
<1>3. ASSUME NEW o, NEW m, Resolves(o, m) PROVE is /\ read = Meaning(Value, o, m)
  BY <1>2, <1>3, OutputMeaning
<1> HIDE DEF read, is
<1>4. CASE is
  <2>1. Return(read)
    BY <1>2, <1>4
  <2> QED
    BY <1>1, <1>2, <1>3, <2>1, ReturnRInv
<1>5. CASE ~ is
  <2>1. Return(AsIs)
    BY <1>2, <1>5
  <2> QED
    BY <1>1, <1>2, <1>3, <1>5, <2>1, ReturnRInv
<1> QED
  BY <1>4, <1>5

LEMMA SameRInv == ASSUME RInv, UNCHANGED <<uses, pos, calls, results, outputs>> PROVE RInv'
<1>1. DInv'
  BY SameDInv DEF RInv
<1>2. ActualValues'
  BY DEF RInv, ActualValues, Resolvable, Actual
<1>3. (calls # << >> /\ Resolvable(uses[pos]) => \E owners : Chain(uses[pos], owners))'
  BY DEF RInv, Resolvable, Chain, Met, Following
<1> QED
  BY <1>1, <1>2, <1>3 DEF RInv

LEMMA NextRInv == ASSUME RInv, [Next]_vars PROVE RInv'
<1>1. CASE BeginUse
  BY <1>1, BeginUseRInv
<1>2. CASE TranslatePart
  BY <1>2, TranslatePartRInv
<1>3. CASE ReturnValue
  BY <1>3, ReturnValueRInv
<1>4. CASE ReturnArtifact
  BY <1>4, ReturnArtifactRInv
<1>5. CASE ReturnOutput
  BY <1>5, ReturnOutputRInv
<1>6. CASE Raise
  BY <1>6, SameRInv DEF Raise
<1>7. CASE UNCHANGED vars
  BY <1>7, SameRInv DEF vars
<1> QED
  BY <1>1, <1>2, <1>3, <1>4, <1>5, <1>6, <1>7 DEF Next

\* What translate_param_value returns for a value that can be resolved is what
\* the value means, however many functions stand between, for any template.
THEOREM ValuesAreActual == Spec => []ActualValues
<1>1. Init => RInv
  BY InitRInv
<1>2. RInv /\ [Next]_vars => RInv'
  BY NextRInv
<1>3. RInv => ActualValues
  BY DEF RInv
<1> QED
  BY <1>1, <1>2, <1>3, PTL DEF Spec

=============================================================================
