-------------------------- MODULE Deployment_proofs --------------------------
(***************************************************************************)
(* Proofs of the properties of the command, for any inputs, servers and    *)
(* command lines.  First those of Parameters, a specification of its own;  *)
(* the command implements it, so they hold of the command.  Then the       *)
(* attachments it makes; and the file, which has the attachments and the   *)
(* parameters of the stack.                                                *)
(***************************************************************************)
EXTENDS Deployment, SequenceLemmas, FiniteSetTheorems

-----------------------------------------------------------------------------
(* Constraints: what the input admits, the parameter admits.                *)

\* Every bound that is compared is a number.
Comparable(c) ==
    c.op \in Ops /\ Len(c.at) >= 1 /\ c.at \in Seq(Nat \cup {Unbounded})
    /\ c.at[1] \in Nat /\ (c.op = "in_range" => Len(c.at) = 2 /\ c.at[2] \in Nat)

LEMMA ConstraintComparable ==
    ASSUME NEW c \in ConstraintRecord, NEW type, IsConstraint(c, type), ~ Incomparable(c)
    PROVE  Comparable(c)
  BY DEF ConstraintRecord, IsConstraint, Incomparable, Comparable

\* A constraint and its translation admit the same values if an open bound is
\* one of whole numbers: above a number is from the next one on
\* (translate_inputs.py:141).
LEMMA ConstraintTranslated ==
    ASSUME NEW c \in ConstraintRecord, NEW type, c.op \in Open => type \in WholeBounds,
           IsConstraint(c, type), ~ Incomparable(c),
           NEW v \in Nat, type \in WholeBounds => Even(v)
    PROVE  Admits(c, v) <=> HotAdmits(TranslateConstraint(c), v)
  <1> DEFINE h == TranslateConstraint(c)
  <1>1. Comparable(c)
    BY ConstraintComparable
  <1>2. h.attr = Attribute(c.op) /\ h.min = Lowest(c) /\ h.max = Highest(c)
        /\ (Attribute(c.op) \in Listing => h.values = Range(c.at))
    BY DEF TranslateConstraint
  <1> HIDE DEF h
  <1> SUFFICES Admits(c, v) <=> HotAdmits(h, v)
    BY DEF h
  <1>3. CASE c.op = "equal"
    <2>1. Range(c.at) = {c.at[1]}
      BY <1>1, <1>3 DEF IsConstraint, Comparable, Range
    <2> QED
      BY <2>1, <1>1, <1>2, <1>3, NoneAssumption
         DEF Comparable, Admits, HotAdmits, Attribute, Lowest, Highest, Listing
  <1>4. CASE c.op \in {"valid_values", "pattern"}
    <2>1. h.attr \in Listing /\ h.min = None /\ h.max = None /\ h.values = Range(c.at)
      BY <1>2, <1>4 DEF Attribute, Lowest, Highest, Listing
    <2> QED
      BY <2>1, <1>4 DEF Admits, HotAdmits
  <1>5. CASE c.op \in {"greater_than", "less_than"}
    <2>1. Even(v) /\ Even(c.at[1]) /\ c.at[1] \in Nat
      BY <1>1, <1>5, NoneAssumption DEF IsConstraint, Comparable, Open
    <2>2. CASE c.op = "greater_than"
      <3>1. h.attr = "range" /\ h.min = c.at[1] + Offset /\ h.max = None
        BY <1>2, <2>2 DEF Attribute, Lowest, Highest
      <3>2. Admits(c, v) <=> v > c.at[1]
        BY <2>2 DEF Admits
      <3>3. HotAdmits(h, v) <=> v >= c.at[1] + 2
        BY <2>1, <3>1, NoneAssumption DEF HotAdmits, Offset, Listing
      <3> QED BY <2>1, <3>2, <3>3 DEF Even
    <2>3. CASE c.op = "less_than"
      <3>1. h.attr = "range" /\ h.min = None /\ h.max = c.at[1] - Offset
        BY <1>2, <2>3 DEF Attribute, Lowest, Highest
      <3>2. Admits(c, v) <=> v < c.at[1]
        BY <2>3 DEF Admits
      <3>3. HotAdmits(h, v) <=> v <= c.at[1] - 2
        BY <2>1, <3>1, NoneAssumption DEF HotAdmits, Offset, Listing
      <3> QED BY <2>1, <3>2, <3>3 DEF Even
    <2> QED BY <1>5, <2>2, <2>3
  <1>6. CASE c.op \in {"greater_or_equal", "min_length"}
    <2>1. h.attr \notin Listing /\ h.min = c.at[1] /\ h.max = None
      BY <1>2, <1>6 DEF Attribute, Lowest, Highest, Listing
    <2>2. Admits(c, v) <=> v >= c.at[1]
      BY <1>6 DEF Admits
    <2>3. HotAdmits(h, v) <=> v >= c.at[1]
      BY <1>1, <2>1, NoneAssumption DEF HotAdmits, Comparable, Listing
    <2> QED BY <2>2, <2>3
  <1>8. CASE c.op \in {"less_or_equal", "max_length"}
    <2>1. h.attr \notin Listing /\ h.min = None /\ h.max = c.at[1]
      BY <1>2, <1>8 DEF Attribute, Lowest, Highest, Listing
    <2>2. Admits(c, v) <=> v <= c.at[1]
      BY <1>8 DEF Admits
    <2>3. HotAdmits(h, v) <=> v <= c.at[1]
      BY <1>1, <2>1, NoneAssumption DEF HotAdmits, Comparable, Listing
    <2> QED BY <2>2, <2>3
  <1>9. CASE c.op = "length"
    BY <1>1, <1>2, <1>9, NoneAssumption
       DEF Comparable, Admits, HotAdmits, Attribute, Lowest, Highest, Listing
  <1>7. CASE c.op = "in_range"
    <2>1. c.at[1] <= c.at[2] /\ c.at[2] # Unbounded
      BY <1>1, <1>7, NoneAssumption DEF IsConstraint, Comparable
    <2> QED
      BY <2>1, <1>1, <1>2, <1>7, NoneAssumption
         DEF Comparable, Admits, HotAdmits, Attribute, Lowest, Highest, Smaller, Greater, Listing
  <1> QED
    BY <1>1, <1>3, <1>4, <1>5, <1>6, <1>7, <1>8, <1>9 DEF Comparable, Ops

-----------------------------------------------------------------------------
(* The invariant: every section that is written is the one function of the  *)
(* inputs and of what is given, whatever was written before it.             *)

HasKey == "key_name" \in DOMAIN given

Declared == {inputs[k] : k \in 1 .. Len(inputs)}

Names == {i.name : i \in Declared}

\* What stands in a section under a name.
Entry(n) ==
    IF n = "key_name" /\ HasKey THEN Output(Parameter(KeyName))
                                ELSE Output(Parameter(CHOOSE i \in Declared : i.name = n))

Section == [n \in Names |-> Entry(n)]

\* Its bounds are not those that are moved by 1, or it is not a float.
FloatClosed(i) ==
    i.type = "float" => \A k \in DOMAIN i.constraints : i.constraints[k].op \notin Open

FloatsClosed == \A d \in Declarations : \A k \in 1 .. Len(d) : FloatClosed(d[k])

\* A name has one input, apart from the key_names that were appended.
OneInputEach ==
    \A i, j \in Declared : i.name = j.name => i = j \/ (i.name = "key_name" /\ HasKey)

InputsFine ==
    /\ inputs \in Seq(Declared)
    /\ \A i \in Declared : i.constraints \in Seq(ConstraintRecord)
    /\ \A n \in DOMAIN given : given[n] \in Nat
    /\ \A i \in Declared : IsInput(i) /\ (FloatsClosed => FloatClosed(i))
    /\ \A i \in Declared : i.name \in DOMAIN given => IsValue(given[i.name], i.type)
    /\ OneInputEach

\* From the first translation on key_name is among the inputs; while they are
\* translated it is the last of them.
KeyAppended ==
    HasKey => /\ written # << >> => KeyName \in Declared
              /\ stage \in {"inputs", "section"} =>
                    Len(inputs) >= 1 /\ inputs[Len(inputs)] = KeyName

InputDone(k) == params[k] = Parameter(inputs[k]) /\ ~ Rejected(inputs[k])

ParamsFollow ==
    /\ pos \in Nat \ {0}
    /\ params \in Seq({Parameter(i) : i \in Declared}) \/ stage = "idle"
    /\ stage = "inputs" => Len(params) = pos - 1 /\ pos <= Len(inputs) + 1
    /\ stage = "section" => Len(params) = Len(inputs) /\ pos <= Len(inputs) + 1
    /\ stage \in {"inputs", "section"} => \A k \in 1 .. Len(params) : InputDone(k)

SectionFollows ==
    stage = "section" =>
        /\ section = [n \in {inputs[k].name : k \in 1 .. pos - 1} |-> section[n]]
        /\ \A k \in 1 .. pos - 1 :
            ~ (inputs[k].name = "key_name" /\ HasKey)
                => section[inputs[k].name] = Output(Parameter(inputs[k]))
        /\ HasKey /\ pos = Len(inputs) + 1 => section["key_name"] = Output(Parameter(KeyName))

WrittenAlike ==
    /\ written \in Seq({Section})
    /\ written # << >> => \A i \in Declared : ~ Rejected(i)

PInv == InputsFine /\ KeyAppended /\ ParamsFollow /\ SectionFollows /\ WrittenAlike
        /\ stage \in {"idle", "inputs", "section", "failed"}

LEMMA InitPInv == Init => PInv
  <1> SUFFICES ASSUME Init PROVE PInv
    OBVIOUS
  <1>1. InputsFine
    <2>1. inputs \in Seq(Declared) /\ \A i \in Declared : i.constraints \in Seq(ConstraintRecord)
      <3>1. inputs \in Seq(InputRecord)
        BY InputsAssumption DEF Init
      <3>2. inputs \in Seq(Declared) /\ Declared \subseteq InputRecord
        BY <3>1 DEF Declared
      <3>3. \A i \in InputRecord : i.constraints \in Seq(ConstraintRecord)
        BY DEF InputRecord
      <3> QED BY <3>2, <3>3
    <2>2. \A n \in DOMAIN given : given[n] \in Nat
      BY CommandsAssumption, InputsAssumption DEF Init
    <2>3. \A i \in Declared : IsInput(i) /\ (FloatsClosed => FloatClosed(i))
      BY InputsAssumption DEF Init, Declared, FloatsClosed
    <2>4. \A i \in Declared : i.name \in DOMAIN given => IsValue(given[i.name], i.type)
      BY CommandsAssumption DEF Init, Declared
    <2>5. OneInputEach
      BY InputsAssumption DEF Init, Declared, OneInputEach
    <2> QED BY <2>1, <2>2, <2>3, <2>4, <2>5 DEF InputsFine
  <1>2. WrittenAlike /\ KeyAppended /\ ParamsFollow /\ SectionFollows
    BY DEF Init, WrittenAlike, KeyAppended, ParamsFollow, SectionFollows
  <1> QED BY <1>1, <1>2 DEF PInv, Init

\* The section depends on the set of inputs alone.
LEMMA SectionStable ==
    ASSUME Declared' = Declared, given' = given
    PROVE  Section' = Section
  <1>1. Names' = Names /\ (HasKey' <=> HasKey) /\ KeyName' = KeyName
    BY DEF Names, HasKey, KeyName
  <1>2. ASSUME NEW i PROVE Parameter(i)' = Parameter(i)
    BY DEF Parameter, Default, Starting
  <1>3. ASSUME NEW n PROVE Entry(n)' = Entry(n)
    BY <1>1, <1>2 DEF Entry, Output, Parameter, Default, Starting
  <1> QED BY <1>1, <1>3 DEF Section

LEMMA KeyAdded ==
    ASSUME PInv, HasKey, inputs' = Append(inputs, KeyName)
    PROVE  /\ inputs' \in Seq(Declared') /\ KeyName.constraints \in Seq(ConstraintRecord)
           /\ Declared' = Declared \cup {KeyName}
           /\ Len(inputs') = Len(inputs) + 1 /\ inputs'[Len(inputs')] = KeyName
           /\ IsInput(KeyName) /\ KeyName.name = "key_name" /\ KeyName.type = "string"
           /\ FloatClosed(KeyName) /\ IsValue(given["key_name"], "string")
  <1>1. inputs \in Seq(Declared) /\ given["key_name"] \in Nat
    BY DEF PInv, InputsFine, HasKey
  <1>2. Declared' = Declared \cup {KeyName}
    BY <1>1 DEF Declared
  <1>3. KeyName.constraints \in Seq(ConstraintRecord)
    BY DEF KeyName
  <1>4. IsInput(KeyName) /\ IsValue(given["key_name"], "string")
    BY <1>1 DEF KeyName, IsInput, IsValue
  <1>5. KeyName.name = "key_name" /\ KeyName.type = "string" /\ FloatClosed(KeyName)
    BY DEF KeyName, FloatClosed
  <1> QED BY <1>1, <1>2, <1>3, <1>4, <1>5

LEMMA BeginPInv == PInv /\ BeginTranslation => PInv'
  <1> SUFFICES ASSUME PInv, BeginTranslation PROVE PInv'
    OBVIOUS
  <1>0. given' = given /\ written' = written /\ params' = << >> /\ pos' = 1 /\ stage' = "inputs"
        /\ deploy' = deploy
    BY DEF BeginTranslation
  <1>1. CASE ~ HasKey
    <2>1. inputs' = inputs
      BY <1>1 DEF BeginTranslation, HasKey
    <2>2. Declared' = Declared /\ Section' = Section /\ (HasKey' <=> HasKey)
      BY <1>0, <2>1, SectionStable DEF Declared, HasKey
    <2>3. InputsFine' /\ KeyAppended'
      BY <1>0, <1>1, <2>1, <2>2 DEF PInv, InputsFine, KeyAppended, OneInputEach, HasKey, FloatsClosed
    <2>4. ParamsFollow' /\ SectionFollows'
      BY <1>0, <2>1 DEF PInv, InputsFine, ParamsFollow, SectionFollows
    <2>5. WrittenAlike'
      BY <1>0, <2>1, <2>2 DEF PInv, WrittenAlike, Rejected, Breaks, Starting, Default
    <2> QED BY <1>0, <2>3, <2>4, <2>5 DEF PInv
  <1>2. CASE HasKey
    <2>1. inputs' = Append(inputs, KeyName)
      BY <1>2 DEF BeginTranslation, HasKey
    <2>2. /\ inputs' \in Seq(Declared') /\ KeyName.constraints \in Seq(ConstraintRecord)
          /\ Declared' = Declared \cup {KeyName}
          /\ Len(inputs') = Len(inputs) + 1 /\ inputs'[Len(inputs')] = KeyName
          /\ IsInput(KeyName) /\ KeyName.name = "key_name" /\ KeyName.type = "string"
          /\ FloatClosed(KeyName) /\ IsValue(given["key_name"], "string")
      BY <1>2, <2>1, KeyAdded
    <2>3. InputsFine'
      BY <1>0, <1>2, <2>2 DEF PInv, InputsFine, OneInputEach, HasKey, FloatsClosed
    <2>4. KeyAppended'
      <3>1. KeyName' = KeyName
        BY <1>0 DEF KeyName
      <3> QED BY <1>0, <2>2, <3>1 DEF KeyAppended, PInv, InputsFine
    <2>5. ParamsFollow' /\ SectionFollows'
      BY <1>0, <2>2 DEF PInv, InputsFine, ParamsFollow, SectionFollows
    <2>6. WrittenAlike'
      <3>1. CASE written = << >>
        BY <1>0, <3>1 DEF WrittenAlike
      <3>2. CASE written # << >>
        <4>1. Declared' = Declared
          BY <1>2, <2>2, <3>2 DEF PInv, KeyAppended
        <4>2. Section' = Section
          BY <1>0, <4>1, SectionStable
        <4> QED BY <1>0, <4>1, <4>2 DEF PInv, WrittenAlike, Rejected, Breaks, Starting, Default
      <3> QED BY <3>1, <3>2
    <2> QED BY <1>0, <2>3, <2>4, <2>5, <2>6 DEF PInv
  <1> QED BY <1>1, <1>2

LEMMA UnmovedPInv ==
    ASSUME PInv, UNCHANGED <<inputs, given, deploy, written>>
    PROVE  /\ Declared' = Declared /\ Section' = Section /\ (HasKey' <=> HasKey)
           /\ KeyName' = KeyName /\ InputsFine' /\ WrittenAlike'
           /\ (stage' \in {"inputs", "section"} => stage \in {"inputs", "section"}) => KeyAppended'
  <1>1. Declared' = Declared /\ Section' = Section /\ (HasKey' <=> HasKey) /\ KeyName' = KeyName
    BY SectionStable DEF Declared, HasKey, KeyName
  <1>2. InputsFine'
    BY <1>1 DEF PInv, InputsFine, OneInputEach, FloatsClosed
  <1>3. WrittenAlike'
    BY <1>1 DEF PInv, WrittenAlike, Rejected, Breaks, Starting, Default
  <1>4. (stage' \in {"inputs", "section"} => stage \in {"inputs", "section"}) => KeyAppended'
    BY <1>1 DEF PInv, KeyAppended
  <1> QED BY <1>1, <1>2, <1>3, <1>4

LEMMA TranslatePInv == PInv /\ TranslateInput => PInv'
  <1> SUFFICES ASSUME PInv, TranslateInput PROVE PInv'
    OBVIOUS
  <1>1. UNCHANGED <<inputs, given, deploy, written, section, stage>> /\ stage = "inputs"
    BY DEF TranslateInput, AtInput
  <1>2. InputsFine' /\ WrittenAlike' /\ KeyAppended'
    BY <1>1, UnmovedPInv
  <1>3. SectionFollows'
    BY <1>1 DEF SectionFollows
  <1>4. ParamsFollow'
    <2>1. pos \in 1 .. Len(inputs) /\ ~ Rejected(inputs[pos]) /\ Len(params) = pos - 1
      BY DEF TranslateInput, AtInput, PInv, ParamsFollow, InputsFine
    <2>2. params' = Append(params, Parameter(inputs[pos])) /\ pos' = pos + 1
      BY DEF TranslateInput
    <2>3. params \in Seq({Parameter(i) : i \in Declared}) /\ inputs[pos] \in Declared
      BY <1>1, <2>1 DEF PInv, ParamsFollow, Declared
    <2>4. Declared' = Declared /\ \A i : Parameter(i)' = Parameter(i) /\ (Rejected(i)' <=> Rejected(i))
      BY <1>1 DEF Declared, Parameter, Default, Starting, Rejected, Breaks
    <2>5. params' \in Seq({Parameter(i) : i \in Declared}) /\ Len(params') = pos
      BY <2>1, <2>2, <2>3
    <2>6. \A k \in 1 .. pos : params'[k] = Parameter(inputs[k]) /\ ~ Rejected(inputs[k])
      BY <1>1, <2>1, <2>2, <2>3 DEF PInv, ParamsFollow, InputDone
    <2> HIDE DEF Parameter, Rejected
    <2> QED BY <1>1, <2>1, <2>2, <2>4, <2>5, <2>6 DEF ParamsFollow, InputDone, InputsFine
  <1> QED BY <1>1, <1>2, <1>3, <1>4 DEF PInv

LEMMA RejectPInv == PInv /\ Reject => PInv'
  <1> SUFFICES ASSUME PInv, Reject PROVE PInv'
    OBVIOUS
  <1>1. UNCHANGED <<inputs, given, deploy, written, pos, params>> /\ stage' = "failed"
    BY DEF Reject
  <1>2. InputsFine' /\ WrittenAlike' /\ KeyAppended' /\ Declared' = Declared
    BY <1>1, UnmovedPInv
  <1>3. \A i : Parameter(i)' = Parameter(i)
    BY <1>1 DEF Parameter, Default, Starting
  <1>4. ParamsFollow' /\ SectionFollows'
    BY <1>1, <1>2, <1>3 DEF PInv, ParamsFollow, SectionFollows, Reject, AtInput
  <1> QED BY <1>1, <1>2, <1>4 DEF PInv

LEMMA StutterPInv == PInv /\ UNCHANGED vars => PInv'
  <1> SUFFICES ASSUME PInv, UNCHANGED vars PROVE PInv'
    OBVIOUS
  <1>1. UNCHANGED <<inputs, given, deploy, written, pos, params, section, stage>>
    BY DEF vars
  <1>2. InputsFine' /\ WrittenAlike' /\ KeyAppended' /\ Declared' = Declared /\ (HasKey' <=> HasKey)
        /\ KeyName' = KeyName
    BY <1>1, UnmovedPInv
  <1>3. \A i : Parameter(i)' = Parameter(i) /\ (Rejected(i)' <=> Rejected(i))
    BY <1>1 DEF Parameter, Default, Starting, Rejected, Breaks
  <1>4. ParamsFollow'
    BY <1>1, <1>2, <1>3 DEF PInv, ParamsFollow, InputDone
  <1>5. SectionFollows'
    BY <1>1, <1>2, <1>3 DEF PInv, SectionFollows
  <1> QED BY <1>1, <1>2, <1>4, <1>5 DEF PInv

LEMMA FinishInputsPInv == PInv /\ FinishInputs => PInv'
  <1> SUFFICES ASSUME PInv, FinishInputs PROVE PInv'
    OBVIOUS
  <1>1. UNCHANGED <<inputs, given, deploy, written, params>> /\ stage = "inputs"
        /\ stage' = "section" /\ section' = << >> /\ pos' = 1 /\ pos > Len(inputs)
    BY DEF FinishInputs
  <1>2. InputsFine' /\ WrittenAlike' /\ KeyAppended' /\ Declared' = Declared
    BY <1>1, UnmovedPInv
  <1>3. \A i : Parameter(i)' = Parameter(i) /\ (Rejected(i)' <=> Rejected(i))
    BY <1>1 DEF Parameter, Default, Starting, Rejected, Breaks
  <1>4. Len(inputs) \in Nat /\ Len(params) = Len(inputs)
    BY <1>1 DEF PInv, ParamsFollow, InputsFine
  <1>5. ParamsFollow'
    BY <1>1, <1>2, <1>3, <1>4 DEF PInv, ParamsFollow, InputDone
  <1>6. SectionFollows'
    <2>1. KeyAppended
      BY DEF PInv
    <2> QED BY <1>1, <1>4, <2>1 DEF SectionFollows, KeyAppended, HasKey
  <1> QED BY <1>1, <1>2, <1>5, <1>6 DEF PInv

LEMMA WriteParameterPInv == PInv /\ WriteParameter => PInv'
  <1> SUFFICES ASSUME PInv, WriteParameter PROVE PInv'
    OBVIOUS
  <1> DEFINE i == inputs[pos]
             wrote == {inputs[k].name : k \in 1 .. pos - 1}
  <1>1. UNCHANGED <<inputs, given, deploy, written, params, stage>> /\ stage = "section"
        /\ pos' = pos + 1
    BY DEF WriteParameter
  <1>2. /\ InputsFine' /\ WrittenAlike' /\ KeyAppended' /\ Declared' = Declared
        /\ (HasKey' <=> HasKey) /\ KeyName' = KeyName
    BY <1>1, UnmovedPInv
  <1>3. \A d : Parameter(d)' = Parameter(d) /\ (Rejected(d)' <=> Rejected(d))
    BY <1>1 DEF Parameter, Default, Starting, Rejected, Breaks
  <1>4. pos \in 1 .. Len(inputs) /\ Len(params) = Len(inputs) /\ Len(inputs) \in Nat
        /\ params[pos] = Parameter(i) /\ params[pos].name = i.name
    <2>1. pos \in 1 .. Len(inputs) /\ Len(params) = Len(inputs) /\ Len(inputs) \in Nat
          /\ params[pos] = Parameter(i)
      BY <1>1 DEF WriteParameter, PInv, ParamsFollow, InputsFine, InputDone
    <2> QED BY <2>1 DEF Parameter
  <1>5. ParamsFollow'
    BY <1>1, <1>2, <1>3, <1>4 DEF PInv, ParamsFollow, InputDone
  <1>6. SectionFollows'
    <2> DEFINE after == [n \in wrote \cup {i.name} |->
                           IF n = i.name THEN Output(Parameter(i)) ELSE section[n]]
    <2>1. section' = after
      <3>1. DOMAIN section = wrote
        BY <1>1 DEF PInv, SectionFollows
      <3> QED BY <1>4, <3>1 DEF WriteParameter
    <2>2. wrote \cup {i.name} = {inputs[k].name : k \in 1 .. pos}
      BY <1>4
    <2>3. section' = [n \in {inputs'[k].name : k \in 1 .. pos' - 1} |-> section'[n]]
      BY <1>1, <1>4, <2>1, <2>2
    <2>4. ASSUME NEW k \in 1 .. pos, ~ (inputs[k].name = "key_name" /\ HasKey)
          PROVE  section'[inputs[k].name] = Output(Parameter(inputs[k]))
      <3>1. CASE inputs[k].name = i.name
        <4>1. inputs[k] = i
          BY <1>4, <2>4, <3>1 DEF PInv, InputsFine, OneInputEach, Declared
        <4> QED BY <2>1, <4>1
      <3>2. CASE inputs[k].name # i.name
        <4>1. k \in 1 .. pos - 1
          BY <1>4, <3>2
        <4>2. section[inputs[k].name] = Output(Parameter(inputs[k]))
          BY <1>1, <2>4, <4>1 DEF PInv, SectionFollows
        <4> QED BY <2>1, <3>2, <4>1, <4>2
      <3> QED BY <3>1, <3>2
    <2>5. ASSUME HasKey, pos = Len(inputs)
          PROVE  section'["key_name"] = Output(Parameter(KeyName))
      <3>1. i = KeyName
        BY <1>1, <2>5 DEF PInv, KeyAppended
      <3>2. i.name = "key_name"
        BY <3>1 DEF KeyName
      <3> QED BY <2>1, <3>1, <3>2
    <2>6. ASSUME NEW k \in 1 .. pos' - 1, ~ (inputs'[k].name = "key_name" /\ HasKey')
          PROVE  section'[inputs'[k].name] = Output(Parameter(inputs[k]))'
      <3>1. k \in 1 .. pos /\ inputs' = inputs /\ ~ (inputs[k].name = "key_name" /\ HasKey)
        BY <1>1, <1>2, <1>4, <2>6
      <3>2. section'[inputs[k].name] = Output(Parameter(inputs[k]))
        BY <2>4, <3>1
      <3>3. Output(Parameter(inputs[k]))' = Output(Parameter(inputs[k]))
        BY <1>1, <3>1 DEF Output, Parameter, Default, Starting
      <3> QED BY <3>1, <3>2, <3>3
    <2>7. ASSUME HasKey', pos' = Len(inputs') + 1
          PROVE  section'["key_name"] = Output(Parameter(KeyName))'
      <3>1. section'["key_name"] = Output(Parameter(KeyName))
        BY <1>1, <1>2, <1>4, <2>5, <2>7
      <3>2. Output(Parameter(KeyName))' = Output(Parameter(KeyName))
        BY <1>1, <1>2 DEF Output, Parameter, Default, Starting
      <3> QED BY <3>1, <3>2
    <2> HIDE DEF after
    <2> QED BY <2>3, <2>6, <2>7 DEF SectionFollows
  <1> QED BY <1>1, <1>2, <1>5, <1>6 DEF PInv

LEMMA SectionDone ==
    ASSUME PInv, stage = "section", pos > Len(params)
    PROVE  section = Section /\ \A i \in Declared : ~ Rejected(i)
  <1>1. pos = Len(inputs) + 1 /\ Len(params) = Len(inputs) /\ Len(inputs) \in Nat
    BY DEF PInv, ParamsFollow, InputsFine
  <1>2. {inputs[k].name : k \in 1 .. pos - 1} = Names
    BY <1>1 DEF Names, Declared
  <1>3. ASSUME NEW n \in Names PROVE section[n] = Entry(n)
    <2>1. CASE n = "key_name" /\ HasKey
      BY <1>1, <2>1 DEF PInv, SectionFollows, Entry
    <2>2. CASE ~ (n = "key_name" /\ HasKey)
      <3> DEFINE i == CHOOSE d \in Declared : d.name = n
      <3>1. i \in Declared /\ i.name = n
        BY DEF Names
      <3>2. PICK k \in 1 .. Len(inputs) : inputs[k] = i
        BY <3>1 DEF Declared
      <3> HIDE DEF i
      <3>3. section[n] = Output(Parameter(i))
        BY <1>1, <2>2, <3>1, <3>2 DEF PInv, SectionFollows
      <3> QED BY <2>2, <3>3 DEF Entry, i
    <2> QED BY <2>1, <2>2
  <1>4. section = Section
    BY <1>2, <1>3 DEF PInv, SectionFollows, Section
  <1>5. \A i \in Declared : ~ Rejected(i)
    BY <1>1 DEF PInv, ParamsFollow, InputDone, Declared
  <1> QED BY <1>4, <1>5

LEMMA FinishSectionPInv == PInv /\ FinishSection => PInv'
  <1> SUFFICES ASSUME PInv, FinishSection PROVE PInv'
    OBVIOUS
  <1>1. /\ UNCHANGED <<inputs, given, deploy, params, section>> /\ stage = "section"
        /\ stage' = "idle" /\ pos' = 1 /\ pos > Len(params) /\ written' = Append(written, section)
    BY DEF FinishSection
  <1>2. section = Section /\ \A i \in Declared : ~ Rejected(i)
    BY <1>1, SectionDone
  <1>3. Declared' = Declared /\ Section' = Section /\ (HasKey' <=> HasKey) /\ KeyName' = KeyName
    BY <1>1, SectionStable DEF Declared, HasKey, KeyName
  <1>4. InputsFine'
    BY <1>1, <1>3 DEF PInv, InputsFine, OneInputEach, FloatsClosed
  <1>5. WrittenAlike'
    BY <1>1, <1>2, <1>3 DEF PInv, WrittenAlike, Rejected, Breaks, Starting, Default
  <1>6. KeyAppended'
    <2>1. HasKey => KeyName \in Declared
      BY <1>1 DEF PInv, KeyAppended, Declared, InputsFine
    <2> QED BY <1>1, <1>3, <2>1 DEF KeyAppended
  <1>7. ParamsFollow' /\ SectionFollows'
    BY <1>1 DEF ParamsFollow, SectionFollows
  <1> QED BY <1>1, <1>4, <1>5, <1>6, <1>7 DEF PInv

LEMMA SpecPInv == Spec => []PInv
  <1>1. PInv /\ [Next]_vars => PInv'
    BY BeginPInv, TranslatePInv, RejectPInv, FinishInputsPInv, WriteParameterPInv,
       FinishSectionPInv, StutterPInv DEF Next
  <1> QED BY InitPInv, <1>1, PTL DEF Spec

-----------------------------------------------------------------------------
(* What the invariant says of the sections.                                 *)

\* The parameters of the file are those of the deployed stack, whatever the
\* inputs are and although key_name is appended to them once per translation
\* (shell.py:194-198, translate_inputs.py:76-81).
THEOREM ParametersTranslatedAlike == Spec => []TranslatedAlike
  <1>1. PInv => TranslatedAlike
    BY DEF PInv, WrittenAlike, TranslatedAlike
  <1> QED BY <1>1, SpecPInv, PTL

\* The entry of an input that key_name does not take the place of.
LEMMA EntryOfInput ==
    ASSUME PInv, NEW t \in DOMAIN written, NEW k \in Kept
    PROVE  /\ inputs[k] \in Declared /\ ~ Rejected(inputs[k])
           /\ inputs[k].name \in DOMAIN written[t]
           /\ written[t][inputs[k].name] = Output(Parameter(inputs[k]))
  <1> DEFINE n == inputs[k].name
             i == CHOOSE d \in Declared : d.name = n
  <1>1. written[t] = Section /\ \A d \in Declared : ~ Rejected(d)
    BY DEF PInv, WrittenAlike
  <1>2. k \in 1 .. Len(inputs) /\ ~ (n = "key_name" /\ HasKey)
    BY DEF PInv, InputsFine, Kept, HasKey
  <1>3. inputs[k] \in Declared /\ n \in Names
    BY <1>2 DEF Declared, Names
  <1>4. i \in Declared /\ i.name = n
    BY <1>3
  <1>5. i = inputs[k]
    BY <1>2, <1>3, <1>4 DEF PInv, InputsFine, OneInputEach
  <1>6. Section[n] = Output(Parameter(inputs[k]))
    BY <1>2, <1>3, <1>5 DEF Section, Entry
  <1> QED BY <1>1, <1>3, <1>6 DEF Section

\* An entry of a section is the parameter of some input that was not rejected.
LEMMA EntryOfName ==
    ASSUME PInv, NEW t \in DOMAIN written, NEW n \in DOMAIN written[t]
    PROVE  \E i \in Declared : /\ i.name = n /\ ~ Rejected(i)
                              /\ written[t][n] = Output(Parameter(i))
  <1>1. written[t] = Section /\ \A d \in Declared : ~ Rejected(d)
    BY DEF PInv, WrittenAlike
  <1>2. n \in Names /\ Section[n] = Entry(n)
    BY <1>1 DEF Section
  <1>3. CASE n = "key_name" /\ HasKey
    <2>1. KeyName \in Declared /\ KeyName.name = "key_name"
      BY <1>3 DEF PInv, KeyAppended, KeyName
    <2> QED BY <1>1, <1>2, <1>3, <2>1 DEF Entry
  <1>4. CASE ~ (n = "key_name" /\ HasKey)
    <2>1. (CHOOSE i \in Declared : i.name = n) \in Declared
          /\ (CHOOSE i \in Declared : i.name = n).name = n
      BY <1>2 DEF Names
    <2> QED BY <1>1, <1>2, <1>4, <2>1 DEF Entry
  <1> QED BY <1>3, <1>4

\* For the constraints of an input of a translation that went through.
LEMMA InputTranslated ==
    ASSUME PInv, FloatsClosed, NEW i \in Declared, ~ Rejected(i),
           NEW v \in Nat, i.type \in WholeBounds => Even(v)
    PROVE  \A k \in DOMAIN i.constraints :
                Admits(i.constraints[k], v) <=> HotAdmits(TranslateConstraint(i.constraints[k]), v)
  <1> SUFFICES ASSUME NEW k \in DOMAIN i.constraints
               PROVE  Admits(i.constraints[k], v)
                        <=> HotAdmits(TranslateConstraint(i.constraints[k]), v)
    OBVIOUS
  <1>1. FloatClosed(i) /\ i.constraints \in Seq(ConstraintRecord) /\ IsInput(i)
    BY DEF PInv, InputsFine
  <1>2. i.constraints[k] \in ConstraintRecord /\ IsConstraint(i.constraints[k], i.type)
    BY <1>1 DEF IsInput
  <1>3. ~ Incomparable(i.constraints[k]) /\ ~ Unmovable(i.constraints[k], i.type)
    BY DEF Rejected
  <1>4. i.constraints[k].op \in Open => i.type \in WholeBounds
    BY <1>1, <1>2, <1>3 DEF FloatClosed, IsConstraint, Unmovable, WholeBounds
  <1> QED BY <1>1, <1>2, <1>3, <1>4, ConstraintTranslated

\* If no float has an open bound, Heat admits for a parameter exactly the values
\* that the constraints of its input admit, sizes and timestamps left out
\* (translate_inputs.py:138-168).
THEOREM ConstraintsTranslated ==
    ASSUME FloatsClosed
    PROVE  Spec => []ConstraintsAgree
  <1>1. PInv => ConstraintsAgree
    <2> SUFFICES ASSUME PInv, NEW t \in DOMAIN written, NEW k \in Kept,
                        inputs[k].type \notin {"scalar-unit.size", "timestamp"},
                        NEW v \in Values(inputs[k].type)
                 PROVE  (\A c \in Range(inputs[k].constraints) : Admits(c, v))
                          <=> \A h \in Range(written[t][inputs[k].name].constraints) :
                                    HotAdmits(h, v)
      BY DEF ConstraintsAgree
    <2> DEFINE i == inputs[k]
               hot == written[t][inputs[k].name].constraints
    <2>1. i \in Declared /\ ~ Rejected(i) /\ written[t][i.name] = Output(Parameter(i))
      BY EntryOfInput
    <2>2. hot = [c \in DOMAIN i.constraints |-> TranslateConstraint(i.constraints[c])]
      BY <2>1 DEF Output, Parameter
    <2>3. v \in Nat /\ (i.type \in WholeBounds => Even(v))
      <3>1. CASE i.type \in WholeBounds
        <4>1. PICK w \in Tried : v = 2 * w
          BY <3>1 DEF Values
        <4> QED BY <4>1, TriedAssumption DEF Even
      <3>2. CASE i.type \notin WholeBounds
        BY <3>2, TriedAssumption DEF Values
      <3> QED BY <3>1, <3>2
    <2>4. \A c \in DOMAIN i.constraints :
             Admits(i.constraints[c], v) <=> HotAdmits(TranslateConstraint(i.constraints[c]), v)
      BY <2>1, <2>3, InputTranslated
    <2> HIDE DEF i, hot
    <2>5. (\A c \in Range(i.constraints) : Admits(c, v)) <=> \A h \in Range(hot) : HotAdmits(h, v)
      BY <2>2, <2>4 DEF Range
    <2> QED BY <2>5 DEF i, hot
  <1> QED BY <1>1, SpecPInv, PTL

LEMMA WholeGiBCovers ==
    ASSUME NEW m \in Nat \ {0}
    PROVE  /\ WholeGiB(m) \in Nat \ {0}
           /\ WholeGiB(m) * 1024 >= m /\ (WholeGiB(m) - 1) * 1024 < m
  BY DEF WholeGiB

\* If no float has an open bound, no template that is written has a default that
\* the constraints of its own parameter reject (translate_inputs.py:125, hot_parameter.py:45).
THEOREM DefaultsAreAdmitted ==
    ASSUME FloatsClosed
    PROVE  Spec => []DefaultsAdmitted
  <1>1. PInv => DefaultsAdmitted
    <2> SUFFICES ASSUME PInv, NEW t \in DOMAIN written, NEW n \in DOMAIN written[t],
                        written[t][n].default # None
                 PROVE  \A k \in DOMAIN written[t][n].constraints :
                            HotAdmits(written[t][n].constraints[k], written[t][n].default)
      BY DEF DefaultsAdmitted
    <2>1. PICK i \in Declared : /\ i.name = n /\ ~ Rejected(i)
                               /\ written[t][n] = Output(Parameter(i))
      BY EntryOfName
    <2>2. /\ written[t][n].default = Default(i) /\ Default(i) \notin {0, None}
          /\ written[t][n].constraints
                = [k \in DOMAIN i.constraints |-> TranslateConstraint(i.constraints[k])]
      BY <2>1 DEF Output, Parameter
    <2>3. Default(i) \in Nat /\ (i.type \in WholeBounds => Even(Default(i)))
      <3>1. Starting(i) \in Nat \cup {None} /\ (Starting(i) \in Nat => IsValue(Starting(i), i.type))
        BY <2>1, NoneAssumption DEF PInv, InputsFine, IsInput, IsValue, Starting
      <3>2. Starting(i) \in Nat \ {0}
        <4>1. CASE i.type \in {"scalar-unit.size", "version"}
          BY <2>1, <3>1, <4>1 DEF Rejected
        <4>2. CASE i.type \notin {"scalar-unit.size", "version"}
          BY <2>2, <3>1, <4>2 DEF Default
        <4> QED BY <4>1, <4>2
      <3>3. CASE i.type = "scalar-unit.size"
        <4>1. Default(i) = 2 * WholeGiB(Starting(i))
          BY <3>3 DEF Default
        <4> QED BY <3>2, <4>1, WholeGiBCovers DEF Even
      <3>4. CASE i.type = "version"
        <4>1. Default(i) = WithMinor(Starting(i))
          BY <3>4 DEF Default
        <4> QED BY <3>2, <3>4, <4>1 DEF WithMinor, WholeBounds
      <3>5. CASE i.type \notin {"scalar-unit.size", "version"}
        <4>1. Default(i) = Starting(i)
          BY <3>5 DEF Default
        <4> QED BY <3>1, <3>2, <3>5, <4>1 DEF IsValue, WholeBounds
      <3> QED BY <3>3, <3>4, <3>5
    <2>4. \A k \in DOMAIN i.constraints : Admits(i.constraints[k], Default(i))
      <3>1. Starting(i) \notin {None, 0}
        <4>1. CASE i.type \in {"scalar-unit.size", "version"}
          BY <2>1, <4>1 DEF Rejected
        <4>2. CASE i.type \notin {"scalar-unit.size", "version"}
          BY <2>2, <4>2 DEF Default
        <4> QED BY <4>1, <4>2
      <3> QED BY <2>1, <3>1 DEF Rejected, Breaks
    <2>5. \A k \in DOMAIN i.constraints : HotAdmits(TranslateConstraint(i.constraints[k]), Default(i))
      BY <2>1, <2>3, <2>4, InputTranslated
    <2> QED BY <2>2, <2>5
  <1> QED BY <1>1, SpecPInv, PTL

\* A volume holds what was asked for, rounded up by less than one GiB
\* (translate_inputs.py:101-118).
THEOREM SizesAreCovered == Spec => []SizesCoverRequest
  <1>1. PInv => SizesCoverRequest
    <2> SUFFICES ASSUME PInv, NEW t \in DOMAIN written, NEW k \in Kept,
                        inputs[k].type = "scalar-unit.size"
                 PROVE  /\ (written[t][inputs[k].name].default \div 2) * 1024 >= Starting(inputs[k])
                        /\ (written[t][inputs[k].name].default \div 2 - 1) * 1024
                                < Starting(inputs[k])
      BY DEF SizesCoverRequest, Starting
    <2> DEFINE i == inputs[k]
    <2>1. i \in Declared /\ ~ Rejected(i) /\ written[t][i.name] = Output(Parameter(i))
      BY EntryOfInput
    <2>2. Starting(i) \in Nat \ {0}
      BY <2>1 DEF Rejected, PInv, InputsFine, IsInput, IsValue, Starting
    <2>3. Default(i) = 2 * WholeGiB(Starting(i))
      BY DEF Default
    <2>4. WholeGiB(Starting(i)) \in Nat \ {0}
      BY <2>2, WholeGiBCovers
    <2>5. written[t][i.name].default = 2 * WholeGiB(Starting(i))
      BY <2>1, <2>3, <2>4 DEF Output, Parameter
    <2>6. written[t][i.name].default \div 2 = WholeGiB(Starting(i))
      BY <2>4, <2>5
    <2> QED BY <2>2, <2>6, WholeGiBCovers
  <1> QED BY <1>1, SpecPInv, PTL

\* What is given on the command line decides, of the inputs and of key_name
\* (translate_inputs.py:76-99).
THEOREM GivenIsDecisive == Spec => []GivenDecides
  <1>1. PInv => GivenDecides
    <2> SUFFICES ASSUME PInv, NEW t \in DOMAIN written,
                        NEW n \in DOMAIN given \cap DOMAIN written[t], given[n] # 0
                 PROVE  written[t][n].default
                            \in {given[n], 2 * WholeGiB(given[n]), WithMinor(given[n])}
      BY DEF GivenDecides
    <2>1. PICK i \in Declared : /\ i.name = n /\ ~ Rejected(i)
                               /\ written[t][n] = Output(Parameter(i))
      BY EntryOfName
    <2>2. given[n] \in Nat \ {0} /\ Starting(i) = given[n]
      BY <2>1 DEF PInv, InputsFine, Starting
    <2>3. Default(i) \in {given[n], 2 * WholeGiB(given[n]), WithMinor(given[n])}
      BY <2>2 DEF Default
    <2>4. Default(i) # 0
      BY <2>2, <2>3, WholeGiBCovers DEF WithMinor
    <2> QED BY <2>1, <2>3, <2>4 DEF Output, Parameter
  <1> QED BY <1>1, SpecPInv, PTL

\* In a deployment every parameter is given or has a default that is written,
\* unless the template has one that is false (translate_inputs.py:95-98,
\* hot_parameter.py:45).
THEOREM DeployedHaveValues == Spec => []DeployedWithValues
  <1>1. PInv => DeployedWithValues
    <2> SUFFICES ASSUME PInv, deploy, NEW t \in DOMAIN written, NEW k \in Kept,
                        inputs[k].name \notin DOMAIN given, inputs[k].default # 0
                 PROVE  written[t][inputs[k].name].default # None
      BY DEF DeployedWithValues
    <2> DEFINE i == inputs[k]
    <2>1. i \in Declared /\ ~ Rejected(i) /\ written[t][i.name] = Output(Parameter(i))
      BY EntryOfInput
    <2>2. Starting(i) = i.default /\ Starting(i) \notin {None, 0}
      BY <2>1 DEF Rejected, Starting
    <2>3. Starting(i) \in Nat \ {0}
      BY <2>1, <2>2 DEF PInv, InputsFine, IsInput, IsValue
    <2>4. Default(i) \in Nat \ {0}
      <3>1. Default(i) \in {Starting(i), 2 * WholeGiB(Starting(i)), WithMinor(Starting(i))}
        BY DEF Default
      <3> QED BY <2>3, <3>1, WholeGiBCovers DEF WithMinor
    <2>5. written[t][i.name].default = Default(i)
      BY <2>1, <2>4 DEF Output, Parameter
    <2> QED BY <2>4, <2>5, NoneAssumption
  <1> QED BY <1>1, SpecPInv, PTL

-----------------------------------------------------------------------------
(* Every step of the command is one of Parameters or leaves it alone.      *)

\* The translation of the inputs is a part of the command: what surrounds it,
\* the checks before and the nodes after, takes no step of its own in it
\* (shell.py:186-198, tosca_translator.py:67-93).
THEOREM CommandImplementsParameters == CommandSpec => Spec
  <1>1. CommandInit => Init
    BY DEF CommandInit
  <1>2. [CommandNext]_allVars => [Next]_vars
    <2> SUFFICES ASSUME [CommandNext]_allVars PROVE [Next]_vars
      OBVIOUS
    <2>1. CASE UNCHANGED inputVars
      BY <2>1 DEF inputVars, vars
    <2>2. CASE TranslateInputs
      BY <2>2 DEF TranslateInputs, Next
    <2>3. CASE WriteSection
      BY <2>3 DEF WriteSection, Next
    <2>4. CASE UNCHANGED allVars
      BY <2>1, <2>4 DEF allVars
    <2>5. CASE CommandNext /\ ~ TranslateInputs /\ ~ WriteSection
      <3>1. UNCHANGED inputVars
        BY <2>5 DEF CommandNext, ParseParameters, OpenSession, CheckDeploy, WithoutDeploy,
                    ResolveInputFails, BeginNodes, SearchAttachments, ResolveArtifact,
                    DeploymentFails, CreateStack, WriteOutput
      <3> QED BY <2>1, <3>1
    <2> QED BY <2>2, <2>3, <2>4, <2>5
  <1> QED BY <1>1, <1>2, PTL DEF CommandSpec, Spec

\* The stack and the file that is written have the same parameters, from a
\* command that translates twice (shell.py:194-198).
THEOREM CommandTranslatesAlike == CommandSpec => []TranslatedAlike
  BY CommandImplementsParameters, ParametersTranslatedAlike, PTL

\* Heat is sent a value for every parameter it has to have one for
\* (translate_inputs.py:95-98).
THEOREM CommandHasValues == CommandSpec => []DeployedWithValues
  BY CommandImplementsParameters, DeployedHaveValues, PTL

\* What constraints admit, and the sizes and values of parameters, are as
\* Parameters promises them, if no float has an open bound.
THEOREM CommandParameters ==
    ASSUME FloatsClosed
    PROVE  CommandSpec => []ParametersFaithful
<1>1. ConstraintsAgree /\ DefaultsAdmitted /\ SizesCoverRequest /\ GivenDecides /\ TranslatedAlike
        => ParametersFaithful
  BY DEF ParametersFaithful
<1>. QED
  BY <1>1, CommandImplementsParameters, ConstraintsTranslated, DefaultsAreAdmitted,
     SizesAreCovered, GivenIsDecisive, CommandTranslatesAlike, PTL

-----------------------------------------------------------------------------
(* The attachments.                                                        *)

Attachment == [server: Nat, volume: Volumes, from: Nat, suffix: Nat, name: STRING]

\* An attachment has the number the counter had when it was made; it is one
\* of a relationship, which a requirement keeps.
Numbered ==
    /\ attached \in Seq(Attachment) /\ suffix \in Nat
    /\ \A k \in 1 .. Len(attached) : attached[k].suffix <= suffix
    /\ \A j, k \in 1 .. Len(attached) : j < k => attached[j].suffix < attached[k].suffix

Placed ==
    /\ servers \in Seq(Seq(RequirementRecord))
    /\ at \in (Nat \ {0}) \X (Nat \ {0})

AInv == Placed /\ Numbered

\* What is compared has a first pair, and that is chosen.
LEMMA FirstIsChosen ==
    ASSUME NEW reqs \in Seq(RequirementRecord), NEW volume, Compared(reqs, volume) # {}
    PROVE  \E p \in Compared(reqs, volume) :
                /\ p = <<p[1], p[2]>> /\ Chosen(reqs, volume) = p[2]
                /\ p[1] \in RelationsFrom(reqs, volume)
                /\ p[1] \in 1 .. Len(reqs) /\ p[2] \in 1 .. Len(reqs)
                /\ \A q \in Compared(reqs, volume) : p[1] <= q[1]
  <1> DEFINE C == Compared(reqs, volume)
             J == {p[1] : p \in C}
             K == {p[2] : p \in {p \in C : p[1] = Min(J)}}
  <1>1. /\ C \subseteq (1 .. Len(reqs)) \X (1 .. Len(reqs))
        /\ C \subseteq RelationsFrom(reqs, volume) \X DOMAIN reqs
    BY DEF Compared, RelationsFrom
  <1>2. J \in SUBSET Nat /\ J # {}
    BY <1>1
  <1>3. Min(J) \in J /\ \A j \in J : Min(J) <= j
    BY <1>2, MinProperty
  <1>4. K \in SUBSET Nat /\ K # {}
    <2>1. PICK p \in C : p[1] = Min(J)
      BY <1>3
    <2>2. p[2] \in K
      BY <2>1
    <2>3. \A q \in C : q[2] \in Nat
      BY <1>1
    <2> QED BY <2>2, <2>3
  <1>5. Min(K) \in K /\ \A k \in K : Min(K) <= k
    BY <1>4, MinProperty
  <1>6. PICK least \in C : least[1] = Min(J) /\ least[2] = Min(K)
    BY <1>5
  <1>7. \A q \in C : Before(least, q)
    <2> SUFFICES ASSUME NEW q \in C PROVE Before(least, q)
      OBVIOUS
    <2>1. Min(J) <= q[1] /\ q[1] \in Nat /\ Min(J) \in Nat
      BY <1>1, <1>2, <1>3
    <2>2. q[1] = Min(J) => Min(K) <= q[2]
      BY <1>5
    <2> QED BY <1>6, <2>1, <2>2 DEF Before
  <1> DEFINE chosen == CHOOSE p \in C : \A q \in C : Before(p, q)
  <1>8. chosen \in C /\ \A q \in C : Before(chosen, q)
    BY <1>7
  <1>9. Chosen(reqs, volume) = chosen[2]
    BY DEF Chosen
  <1> HIDE DEF chosen
  <1>10. \A q \in C : chosen[1] <= q[1]
    BY <1>1, <1>8 DEF Before
  <1> QED BY <1>1, <1>8, <1>9, <1>10

\* A requirement that is compared is one of the server, and if it is in full
\* form it has a relationship.
LEMMA ChosenIsRequirement ==
    ASSUME Placed, Searching, NEW volume, Chosen(Requirements, volume) # 0
    PROVE  /\ Requirements \in Seq(RequirementRecord)
           /\ Chosen(Requirements, volume) \in 1 .. Len(Requirements)
           /\ volume \in Volumes
           /\ \E j \in RelationsFrom(Requirements, volume) :
                /\ <<j, Chosen(Requirements, volume)>> \in Compared(Requirements, volume)
                /\ \A q \in Compared(Requirements, volume) : j <= q[1]
  <1>1. Requirements \in Seq(RequirementRecord)
    BY DEF Placed, Searching, Requirements
  <1>2. Compared(Requirements, volume) # {}
    BY DEF Chosen
  <1>3. PICK p \in Compared(Requirements, volume) :
            /\ p = <<p[1], p[2]>> /\ Chosen(Requirements, volume) = p[2]
            /\ p[1] \in RelationsFrom(Requirements, volume) /\ p[2] \in 1 .. Len(Requirements)
            /\ \A q \in Compared(Requirements, volume) : p[1] <= q[1]
    BY <1>1, <1>2, FirstIsChosen
  <1>4. volume \in Volumes
    BY <1>3 DEF RelationsFrom
  <1> QED BY <1>1, <1>3, <1>4

\* Where a relationship is resolved the requirement stays one.
LEMMA RelationResolved ==
    ASSUME NEW r \in Relation
    PROVE  Resolved(r) \in Relation /\ AttachmentName(r) \in STRING
  <1>1. r.form = "name" => r.of \in DOMAIN TypeOf /\ TypeOf[r.of] \in STRING
    BY TopologiesAssumption DEF Relation
  <1>2. r.of \in STRING
    BY TopologiesAssumption DEF Relation
  <1>3. Resolved(r) \in Relation
    BY <1>1 DEF Resolved, Relation
  <1> QED BY <1>2, <1>3 DEF AttachmentName

LEMMA AttachAInv == AInv /\ Attach => AInv'
  <1> SUFFICES ASSUME AInv, Attach PROVE AInv'
    OBVIOUS
  <1> DEFINE volume == VolumeName(Requirement, nodeName)
             k == Chosen(Requirements, volume)
             new == [server |-> at[1], volume |-> volume, from |-> k, suffix |-> suffix + 1,
                     name |-> AttachmentName(Requirements[k].relation)]
  <1>1. /\ Searching /\ k # 0 /\ Requirements[k].form = "full"
        /\ attached' = Append(attached, new)
        /\ servers' = [servers EXCEPT ![at[1]][k].relation = Resolved(@)]
        /\ suffix' = suffix + 1 /\ at' = <<at[1], at[2] + 1>>
    BY DEF Attach, Step
  <1>2. /\ Placed /\ Numbered
        /\ Requirements \in Seq(RequirementRecord) /\ k \in 1 .. Len(Requirements)
        /\ volume \in Volumes /\ \E j : <<j, k>> \in Compared(Requirements, volume)
    BY <1>1, ChosenIsRequirement DEF AInv
  <1>3. Requirements[k].relation \in Relation
    <2>1. Requirements[k] \in RequirementRecord
      BY <1>2
    <2>2. Requirements[k].relation # NoNode
      BY <1>1, <1>2 DEF Compared
    <2> QED BY <2>1, <2>2 DEF RequirementRecord
  <1>4. at[1] \in 1 .. Len(servers) /\ servers[at[1]] = Requirements
    BY <1>1, <1>2 DEF Placed, Searching, Requirements
  <1> HIDE DEF k, volume
  <1>5. Placed'
    <2> DEFINE changed == [Requirements[k] EXCEPT !.relation = Resolved(@)]
               row == [Requirements EXCEPT ![k] = changed]
    <2>1. changed \in RequirementRecord
      <3>1. Requirements[k] \in RequirementRecord
        BY <1>2
      <3>2. Resolved(Requirements[k].relation) \in Relation
        BY <1>3, RelationResolved
      <3> QED BY <3>1, <3>2 DEF RequirementRecord
    <2>2. row \in Seq(RequirementRecord)
      BY <1>2, <2>1
    <2>3. servers' = [servers EXCEPT ![at[1]] = row]
      BY <1>1, <1>4
    <2>4. servers' \in Seq(Seq(RequirementRecord))
      BY <1>2, <1>4, <2>2, <2>3 DEF Placed
    <2> QED BY <1>1, <1>2, <2>4 DEF Placed
  <1>6. new \in Attachment
    BY <1>2, <1>3, <1>4, RelationResolved DEF Attachment, Placed, Numbered
  <1>7. Numbered'
    <2> HIDE DEF new
    <2>1. /\ attached' \in Seq(Attachment) /\ Len(attached') = Len(attached) + 1
          /\ attached'[Len(attached) + 1] = new
          /\ \A n \in 1 .. Len(attached) : attached'[n] = attached[n]
          /\ Len(attached) \in Nat
      BY <1>1, <1>2, <1>6 DEF Numbered
    <2>2. new.suffix = suffix + 1 /\ suffix \in Nat
      BY <1>2 DEF new, Numbered
    <2>3. \A n \in 1 .. Len(attached) : attached[n].suffix <= suffix /\ attached[n].suffix \in Nat
      <3>1. ASSUME NEW n \in 1 .. Len(attached)
            PROVE  attached[n].suffix <= suffix /\ attached[n] \in Attachment
        BY <1>2 DEF Numbered
      <3> QED BY <3>1 DEF Attachment
    <2>4. \A n \in 1 .. Len(attached') : attached'[n].suffix <= suffix'
      BY <1>1, <2>1, <2>2, <2>3
    <2>5. ASSUME NEW m \in 1 .. Len(attached'), NEW n \in 1 .. Len(attached'), m < n
          PROVE  attached'[m].suffix < attached'[n].suffix
      <3>1. CASE n = Len(attached) + 1
        BY <2>1, <2>2, <2>3, <2>5, <3>1
      <3>2. CASE n # Len(attached) + 1
        BY <1>2, <2>1, <2>5, <3>2 DEF Numbered
      <3> QED BY <3>1, <3>2
    <2> QED BY <1>1, <2>1, <2>2, <2>4, <2>5 DEF Numbered
  <1> QED BY <1>5, <1>7 DEF AInv

LEMMA AttachmentsAInv ==
    AInv /\ (Search \/ StartSearch \/ EndSearch \/ UNCHANGED attachmentVars) => AInv'
  <1> SUFFICES ASSUME AInv, Search \/ StartSearch \/ EndSearch \/ UNCHANGED attachmentVars
               PROVE  AInv'
    OBVIOUS
  <1>1. CASE Attach
    BY <1>1, AttachAInv
  <1>2. CASE Pass
    <2>1. /\ UNCHANGED <<servers, attached>> /\ at' = <<at[1], at[2] + 1>>
          /\ suffix' \in {suffix, suffix + 1}
      BY <1>2 DEF Pass, Step
    <2>2. \A k \in 1 .. Len(attached) : attached[k].suffix \in Nat
      <3>1. \A k \in 1 .. Len(attached) : attached[k] \in Attachment
        BY DEF AInv, Numbered
      <3> QED BY <3>1 DEF Attachment
    <2> QED BY <2>1, <2>2 DEF AInv, Placed, Numbered
  <1>3. CASE NextServer
    BY <1>3 DEF NextServer, AInv, Placed, Numbered
  <1>4. CASE StartSearch
    BY <1>4 DEF StartSearch, AInv, Placed, Numbered
  <1>5. CASE UNCHANGED <<servers, attached, at, suffix>>
    BY <1>5 DEF AInv, Placed, Numbered
  <1>6. Break \/ EndSearch \/ UNCHANGED attachmentVars => UNCHANGED <<servers, attached, at, suffix>>
    BY DEF Break, EndSearch, attachmentVars
  <1> QED BY <1>1, <1>2, <1>3, <1>4, <1>5, <1>6 DEF Search

LEMMA CommandStepAttachments ==
    [CommandNext]_allVars => Search \/ StartSearch \/ EndSearch \/ UNCHANGED attachmentVars
  BY DEF CommandNext, allVars, nodeVars, ParseParameters, OpenSession, CheckDeploy, WithoutDeploy,
         ResolveInputFails, TranslateInputs, BeginNodes, SearchAttachments, ResolveArtifact,
         WriteSection, DeploymentFails, CreateStack, WriteOutput

LEMMA SpecAInv == CommandSpec => []AInv
  <1>1. CommandInit => AInv
    BY TopologiesAssumption DEF CommandInit, AttachmentsInit, AInv, Placed, Numbered
  <1>2. AInv /\ [CommandNext]_allVars => AInv'
    BY CommandStepAttachments, AttachmentsAInv
  <1> QED BY <1>1, <1>2, PTL DEF CommandSpec

\* No two attachments of a template have the same name, whichever servers and
\* relationships they are of: the suffix goes on from server to server
\* (translate_node_templates.py:227, 263).
THEOREM AttachmentNamesDistinct == CommandSpec => []NamesDistinct
  <1>1. AInv => NamesDistinct
    <2> SUFFICES ASSUME AInv, NEW j \in DOMAIN attached, NEW k \in DOMAIN attached, j # k
                 PROVE  attached[j].suffix # attached[k].suffix
      BY DEF NamesDistinct
    <2>1. /\ attached \in Seq(Attachment) /\ j \in 1 .. Len(attached) /\ k \in 1 .. Len(attached)
          /\ j < k \/ k < j
      BY DEF AInv, Numbered
    <2>2. attached[j].suffix \in Nat /\ attached[k].suffix \in Nat
      <3>1. attached[j] \in Attachment /\ attached[k] \in Attachment
        BY <2>1
      <3> QED BY <3>1 DEF Attachment
    <2> QED BY <2>1, <2>2 DEF AInv, Numbered
  <1> QED BY <1>1, SpecAInv, PTL

Owned ==
    \A n \in 1 .. Len(attached) :
        /\ attached[n].server \in 1 .. Len(servers)
        /\ attached[n].from \in 1 .. Len(servers[attached[n].server])
        /\ servers[attached[n].server][attached[n].from].to = attached[n].volume

OInv == AInv /\ Related(servers) /\ Owned

\* The first relationship that is reached belongs to a requirement of the
\* volume itself, and what is compared with it is to the volume too.
LEMMA ChosenIsOwn ==
    ASSUME AInv, Related(servers), Searching, NEW volume, Chosen(Requirements, volume) # 0
    PROVE  Requirements[Chosen(Requirements, volume)].to = volume
  <1>1. /\ Requirements \in Seq(RequirementRecord) /\ volume \in Volumes
        /\ DOMAIN Requirements = 1 .. Len(Requirements) /\ Len(Requirements) \in Nat
    BY ChosenIsRequirement DEF AInv
  <1>2. PICK j \in RelationsFrom(Requirements, volume) :
            /\ <<j, Chosen(Requirements, volume)>> \in Compared(Requirements, volume)
            /\ \A q \in Compared(Requirements, volume) : j <= q[1]
    BY ChosenIsRequirement DEF AInv
  <1>3. PICK i \in 1 .. j : Requirements[i].to = volume
    BY <1>2 DEF RelationsFrom
  <1>4. j \in 1 .. Len(Requirements) /\ i \in 1 .. Len(Requirements)
    BY <1>1, <1>2, <1>3 DEF RelationsFrom
  <1>5. i \in RelationsFrom(Requirements, volume)
    BY <1>1, <1>3, <1>4 DEF RelationsFrom
  <1>6. Requirements[i].form = "full" => Requirements[i].relation # NoNode
    <2>1. at[1] \in 1 .. Len(servers) /\ servers[at[1]] = Requirements
      BY DEF AInv, Placed, Searching, Requirements
    <2> QED BY <1>1, <1>3, <1>4, <2>1 DEF Related
  <1>7. <<i, i>> \in Compared(Requirements, volume)
    BY <1>1, <1>4, <1>5, <1>6 DEF Compared
  <1>8. j <= <<i, i>>[1]
    BY <1>2, <1>7
  <1>9. i = j
    BY <1>3, <1>4, <1>8
  <1> QED BY <1>2, <1>3, <1>9 DEF Compared

\* The search changes no requirement but for its relationship, and takes none
\* away.
LEMMA AttachKeepsRequirements ==
    ASSUME AInv, Attach
    PROVE  /\ Len(servers') = Len(servers)
           /\ \A s \in 1 .. Len(servers) :
                /\ Len(servers'[s]) = Len(servers[s])
                /\ \A n \in 1 .. Len(servers[s]) :
                    /\ servers'[s][n].to = servers[s][n].to
                    /\ servers'[s][n].form = servers[s][n].form
                    /\ servers[s][n].relation # NoNode => servers'[s][n].relation # NoNode
  <1> DEFINE volume == VolumeName(Requirement, nodeName)
             k == Chosen(Requirements, volume)
  <1>1. /\ Searching /\ k # 0 /\ Requirements[k].form = "full"
        /\ servers' = [servers EXCEPT ![at[1]][k].relation = Resolved(@)]
    BY DEF Attach
  <1>2. /\ servers \in Seq(Seq(RequirementRecord))
        /\ k \in 1 .. Len(Requirements) /\ \E j : <<j, k>> \in Compared(Requirements, volume)
        /\ Requirements \in Seq(RequirementRecord)
    BY <1>1, ChosenIsRequirement DEF AInv, Placed
  <1>3. Requirements[k] \in RequirementRecord /\ Requirements[k].relation \in Relation
    <2>1. Requirements[k] \in RequirementRecord
      BY <1>2
    <2>2. Requirements[k].relation # NoNode
      BY <1>1, <1>2 DEF Compared
    <2> QED BY <2>1, <2>2 DEF RequirementRecord
  <1>4. at[1] \in 1 .. Len(servers) /\ servers[at[1]] = Requirements
    BY <1>1, <1>2 DEF AInv, Placed, Searching, Requirements
  <1>5. Resolved(Requirements[k].relation) # NoNode
    BY <1>3, RelationResolved, TopologiesAssumption
  <1> HIDE DEF k, volume
  <1> DEFINE changed == [Requirements[k] EXCEPT !.relation = Resolved(@)]
             row == [Requirements EXCEPT ![k] = changed]
  <1>6. servers' = [servers EXCEPT ![at[1]] = row]
    BY <1>1, <1>4
  <1>7. /\ changed.to = Requirements[k].to /\ changed.form = Requirements[k].form
        /\ changed.relation # NoNode
    BY <1>3, <1>5 DEF RequirementRecord
  <1> HIDE DEF changed
  <1>8. /\ Len(row) = Len(Requirements)
        /\ \A n \in 1 .. Len(Requirements) :
                /\ row[n].to = Requirements[n].to /\ row[n].form = Requirements[n].form
                /\ Requirements[n].relation # NoNode => row[n].relation # NoNode
    BY <1>2, <1>7
  <1> HIDE DEF row
  <1>9. Len(servers') = Len(servers)
        /\ \A s \in 1 .. Len(servers) : servers'[s] = IF s = at[1] THEN row ELSE servers[s]
    BY <1>2, <1>4, <1>6
  <1> QED BY <1>4, <1>8, <1>9

LEMMA AttachOInv == OInv /\ Attach => Related(servers)' /\ Owned'
  <1> SUFFICES ASSUME OInv, Attach PROVE Related(servers)' /\ Owned'
    OBVIOUS
  <1> DEFINE volume == VolumeName(Requirement, nodeName)
             k == Chosen(Requirements, volume)
             new == [server |-> at[1], volume |-> volume, from |-> k, suffix |-> suffix + 1,
                     name |-> AttachmentName(Requirements[k].relation)]
  <1>1. Searching /\ k # 0 /\ attached' = Append(attached, new)
    BY DEF Attach
  <1>2. /\ Related(servers) /\ Owned
        /\ k \in 1 .. Len(Requirements) /\ Requirements[k].to = volume
    BY <1>1, ChosenIsRequirement, ChosenIsOwn DEF OInv, AInv
  <1>3. at[1] \in 1 .. Len(servers) /\ servers[at[1]] = Requirements
    BY <1>1 DEF OInv, AInv, Placed, Searching, Requirements
  <1> HIDE DEF k, volume
  <1>4. /\ Len(servers') = Len(servers)
        /\ \A s \in 1 .. Len(servers) :
                /\ Len(servers'[s]) = Len(servers[s])
                /\ \A n \in 1 .. Len(servers[s]) :
                    /\ servers'[s][n].to = servers[s][n].to
                    /\ servers'[s][n].form = servers[s][n].form
                    /\ servers[s][n].relation # NoNode => servers'[s][n].relation # NoNode
    BY AttachKeepsRequirements DEF OInv
  <1>5. Related(servers)'
    BY <1>2, <1>4 DEF Related
  <1>6. Owned'
    <2> HIDE DEF new
    <2>1. /\ Len(attached') = Len(attached) + 1 /\ attached'[Len(attached) + 1] = new
          /\ \A n \in 1 .. Len(attached) : attached'[n] = attached[n]
          /\ Len(attached) \in Nat
      BY <1>1 DEF OInv, AInv, Numbered
    <2>2. new.server = at[1] /\ new.from = k /\ new.volume = volume
      BY DEF new
    <2>3. ASSUME NEW n \in 1 .. Len(attached')
          PROVE  /\ attached'[n].server \in 1 .. Len(servers)
                 /\ attached'[n].from \in 1 .. Len(servers[attached'[n].server])
                 /\ servers[attached'[n].server][attached'[n].from].to = attached'[n].volume
      <3>1. CASE n = Len(attached) + 1
        <4>1. attached'[n] = new
          BY <2>1, <3>1
        <4>2. servers[new.server] = Requirements
          BY <1>3, <2>2
        <4>3. new.server \in 1 .. Len(servers) /\ new.from \in 1 .. Len(servers[new.server])
          BY <1>2, <1>3, <2>2, <4>2
        <4>4. servers[new.server][new.from].to = new.volume
          BY <1>2, <2>2, <4>2
        <4> QED BY <4>1, <4>3, <4>4
      <3>2. CASE n # Len(attached) + 1
        <4>1. n \in 1 .. Len(attached) /\ attached'[n] = attached[n]
          BY <2>1, <3>2
        <4> QED BY <1>2, <4>1 DEF Owned
      <3> QED BY <3>1, <3>2
    <2>4. ASSUME NEW n \in 1 .. Len(attached')
          PROVE  /\ attached'[n].server \in 1 .. Len(servers')
                 /\ attached'[n].from \in 1 .. Len(servers'[attached'[n].server])
                 /\ servers'[attached'[n].server][attached'[n].from].to = attached'[n].volume
      BY <1>4, <2>3
    <2> QED BY <2>4 DEF Owned
  <1> QED BY <1>5, <1>6

LEMMA SpecOInv == ASSUME \A run \in Runs : Related(run.servers) PROVE CommandSpec => []OInv
  <1>1. CommandInit => OInv
    <2> SUFFICES ASSUME CommandInit PROVE OInv
      OBVIOUS
    <2>1. (\E run \in Runs : servers = run.servers) /\ attached = << >>
      BY DEF CommandInit, AttachmentsInit
    <2>2. AInv
      BY TopologiesAssumption DEF CommandInit, AttachmentsInit, AInv, Placed, Numbered
    <2> QED BY <2>1, <2>2 DEF OInv, Owned
  <1>2. OInv /\ [CommandNext]_allVars => OInv'
    <2> SUFFICES ASSUME OInv, [CommandNext]_allVars PROVE Related(servers)' /\ Owned' /\ AInv'
      BY DEF OInv
    <2>1. AInv'
      BY CommandStepAttachments, AttachmentsAInv DEF OInv
    <2>2. CASE Attach
      BY <2>1, <2>2, AttachOInv
    <2>3. CASE UNCHANGED <<servers, attached>>
      BY <2>1, <2>3 DEF OInv, Related, Owned
    <2>4. CASE StartSearch
      BY <2>1, <2>4 DEF OInv, Related, Owned, StartSearch
    <2>5. Attach \/ StartSearch \/ UNCHANGED <<servers, attached>>
      BY CommandStepAttachments DEF Search, Pass, Break, NextServer, EndSearch, attachmentVars
    <2> QED BY <2>2, <2>3, <2>4, <2>5
  <1> QED BY <1>1, <1>2, PTL DEF CommandSpec

\* Where requirements to volumes name relationships, an attachment is made
\* from a relationship of a requirement of its server to its own volume
\* (_get_attachment_node).
THEOREM AttachmentsOwnTheirRelationship ==
    ASSUME \A run \in Runs : Related(run.servers)
    PROVE  CommandSpec => []OwnRelationship
  <1>1. OInv => OwnRelationship
    <2>1. OInv => DOMAIN attached = 1 .. Len(attached)
      BY DEF OInv, AInv, Numbered
    <2> QED BY <2>1 DEF OInv, Owned, OwnRelationship
  <1> QED BY <1>1, SpecOInv, PTL

-----------------------------------------------------------------------------
(* Each requirement to a volume has one attachment.                        *)

AttachedFor(s, v) == {k \in DOMAIN attached : attached[k].server = s /\ attached[k].volume = v}

\* The requirements of server s to volume v that the search went past.
Passed(s, v) ==
    {k \in DOMAIN servers[s] :
        servers[s][k].to = v /\ (s < at[1] \/ (s = at[1] /\ k < at[2]))}

Counted ==
    \A s \in 1 .. Len(servers) : \A v \in Volumes :
        Cardinality(AttachedFor(s, v)) = Cardinality(Passed(s, v))

VInv == AInv /\ InFull(servers) /\ Counted

\* Two sets grow by one element each.
LEMMA OneMore ==
    ASSUME NEW A, NEW B, NEW a, NEW b, IsFiniteSet(A), IsFiniteSet(B),
           Cardinality(A) = Cardinality(B), a \notin A, b \notin B
    PROVE  Cardinality(A \cup {a}) = Cardinality(B \cup {b})
  BY FS_AddElement

\* The search reads only the shape of the requirements.
LEMMA SameShape ==
    ASSUME AInv, AInv', InFull(servers),
           /\ Len(servers') = Len(servers)
           /\ \A s \in 1 .. Len(servers) :
                /\ Len(servers'[s]) = Len(servers[s])
                /\ \A n \in 1 .. Len(servers[s]) :
                    /\ servers'[s][n].to = servers[s][n].to
                    /\ servers'[s][n].form = servers[s][n].form
                    /\ servers[s][n].relation # NoNode => servers'[s][n].relation # NoNode
    PROVE  /\ InFull(servers)'
           /\ \A s \in 1 .. Len(servers) :
                /\ DOMAIN servers'[s] = 1 .. Len(servers[s])
                /\ DOMAIN servers[s] = 1 .. Len(servers[s])
                /\ Len(servers[s]) \in Nat
  <1>1. ASSUME NEW s \in 1 .. Len(servers)
        PROVE  servers[s] \in Seq(RequirementRecord) /\ servers'[s] \in Seq(RequirementRecord)
    <2>1. /\ servers \in Seq(Seq(RequirementRecord)) /\ servers' \in Seq(Seq(RequirementRecord))
          /\ Len(servers') = Len(servers)
      BY DEF AInv, Placed
    <2> QED BY <2>1
  <1>2. \A s \in 1 .. Len(servers) :
            /\ DOMAIN servers'[s] = 1 .. Len(servers[s])
            /\ DOMAIN servers[s] = 1 .. Len(servers[s])
            /\ Len(servers[s]) \in Nat
    BY <1>1
  <1> QED BY <1>2 DEF InFull

\* A requirement to a volume is attached: its own relationship is compared.
LEMMA VolumeIsAttached ==
    ASSUME AInv, InFull(servers), Searching, Requirement.to \in Volumes
    PROVE  /\ VolumeName(Requirement, nodeName) = Requirement.to
           /\ Requirement.to # NoNode /\ Chosen(Requirements, Requirement.to) # 0
           /\ at[2] \in 1 .. Len(Requirements)
  <1>1. /\ at[1] \in 1 .. Len(servers) /\ servers[at[1]] = Requirements
        /\ at[2] \in 1 .. Len(Requirements) /\ Requirements \in Seq(RequirementRecord)
        /\ Requirements[at[2]] = Requirement
    BY DEF AInv, Placed, Searching, Requirements, Requirement
  <1>2. Requirement.form = "full" /\ Requirement.relation # NoNode
    BY <1>1 DEF InFull
  <1>3. VolumeName(Requirement, nodeName) = Requirement.to
    BY <1>2 DEF VolumeName, ToVolume
  <1>4. <<at[2], at[2]>> \in Compared(Requirements, Requirement.to)
    BY <1>1, <1>2 DEF Compared, RelationsFrom
  <1>5. Chosen(Requirements, Requirement.to) \in 1 .. Len(Requirements)
    BY <1>1, <1>4, FirstIsChosen
  <1> QED BY <1>1, <1>3, <1>5, TopologiesAssumption

\* A step of the search over a requirement that it attaches.
LEMMA AttachCounted == VInv /\ Attach => VInv'
  <1> SUFFICES ASSUME VInv, Attach PROVE VInv'
    OBVIOUS
  <1>1. AInv /\ AInv' /\ InFull(servers) /\ Counted
    BY AttachAInv DEF VInv
  <1>2. /\ Len(servers') = Len(servers)
        /\ \A s \in 1 .. Len(servers) :
            /\ Len(servers'[s]) = Len(servers[s])
            /\ \A n \in 1 .. Len(servers[s]) :
                /\ servers'[s][n].to = servers[s][n].to
                /\ servers'[s][n].form = servers[s][n].form
                /\ servers[s][n].relation # NoNode => servers'[s][n].relation # NoNode
    BY <1>1, AttachKeepsRequirements
  <1>3. /\ InFull(servers)'
        /\ \A s \in 1 .. Len(servers) :
            /\ DOMAIN servers'[s] = 1 .. Len(servers[s])
            /\ DOMAIN servers[s] = 1 .. Len(servers[s])
            /\ Len(servers[s]) \in Nat
    BY <1>1, <1>2, SameShape
  <1>4. /\ Searching /\ at' = <<at[1], at[2] + 1>>
        /\ VolumeName(Requirement, nodeName) # NoNode
        /\ \E new : /\ attached' = Append(attached, new)
                    /\ new.server = at[1] /\ new.volume = VolumeName(Requirement, nodeName)
    BY DEF Attach, Step
  <1>5. /\ at[1] \in 1 .. Len(servers) /\ servers[at[1]] = Requirements
        /\ at[2] \in 1 .. Len(Requirements) /\ Requirements \in Seq(RequirementRecord)
        /\ Requirement = servers[at[1]][at[2]]
        /\ at[1] \in Nat /\ at[2] \in Nat
    BY <1>1, <1>4 DEF AInv, Placed, Searching, Requirements, Requirement
  <1>6. Requirement.to \in Volumes /\ VolumeName(Requirement, nodeName) = Requirement.to
    <2>1. Requirement.to \in Volumes
      BY <1>4 DEF VolumeName, ToVolume
    <2> QED BY <1>1, <1>4, <2>1, VolumeIsAttached
  <1>7. PICK new : /\ attached' = Append(attached, new)
                   /\ new.server = at[1] /\ new.volume = Requirement.to
    BY <1>4, <1>6
  <1>8. /\ attached \in Seq(Attachment) /\ Len(attached) \in Nat
        /\ DOMAIN attached = 1 .. Len(attached)
        /\ DOMAIN attached' = 1 .. (Len(attached) + 1)
        /\ attached'[Len(attached) + 1] = new
        /\ \A n \in 1 .. Len(attached) : attached'[n] = attached[n]
    <2>1. attached \in Seq(Attachment)
      BY <1>1 DEF AInv, Numbered
    <2> QED BY <1>7, <2>1
  <1>9. ASSUME NEW s \in 1 .. Len(servers), NEW v \in Volumes
        PROVE  Cardinality(AttachedFor(s, v)') = Cardinality(Passed(s, v)')
    <2>0. Cardinality(AttachedFor(s, v)) = Cardinality(Passed(s, v))
      BY <1>1 DEF Counted
    <2>1. IsFiniteSet(AttachedFor(s, v)) /\ IsFiniteSet(Passed(s, v))
      <3>1. IsFiniteSet(1 .. Len(attached)) /\ IsFiniteSet(1 .. Len(servers[s]))
        <4>1. \A n \in Nat : IsFiniteSet(1 .. n)
          BY FS_Interval
        <4> QED BY <1>3, <1>8, <4>1
      <3>2. /\ AttachedFor(s, v) \subseteq 1 .. Len(attached)
            /\ Passed(s, v) \subseteq 1 .. Len(servers[s])
        BY <1>3, <1>8 DEF AttachedFor, Passed
      <3> QED BY <3>1, <3>2, FS_Subset
    <2>2. CASE s = at[1] /\ v = Requirement.to
      <3>1. AttachedFor(s, v)' = AttachedFor(s, v) \cup {Len(attached) + 1}
            /\ Len(attached) + 1 \notin AttachedFor(s, v)
        BY <1>7, <1>8, <2>2 DEF AttachedFor
      <3>2. Passed(s, v)' = Passed(s, v) \cup {at[2]} /\ at[2] \notin Passed(s, v)
        <4>1. \A k \in 1 .. Len(servers[s]) :
                servers'[s][k].to = servers[s][k].to
                /\ (k < at'[2] <=> k < at[2] \/ k = at[2]) /\ at'[1] = at[1]
          BY <1>2, <1>4, <1>5
        <4>2. servers[s][at[2]].to = v /\ at[2] \in 1 .. Len(servers[s])
          BY <1>5, <2>2
        <4> QED BY <1>3, <1>5, <2>2, <4>1, <4>2 DEF Passed
      <3> QED BY <2>0, <2>1, <3>1, <3>2, OneMore
    <2>3. CASE ~ (s = at[1] /\ v = Requirement.to)
      <3>1. AttachedFor(s, v)' = AttachedFor(s, v)
        BY <1>7, <1>8, <2>3 DEF AttachedFor
      <3>2. Passed(s, v)' = Passed(s, v)
        <4>1. \A k \in 1 .. Len(servers[s]) :
                servers'[s][k].to = servers[s][k].to
                /\ (k < at'[2] <=> k < at[2] \/ k = at[2]) /\ at'[1] = at[1]
          BY <1>2, <1>3, <1>4, <1>5
        <4>2. s = at[1] => servers[s][at[2]].to # v
          BY <1>5, <2>3
        <4> QED BY <1>3, <1>5, <4>1, <4>2 DEF Passed
      <3> QED BY <2>0, <3>1, <3>2
    <2> QED BY <2>2, <2>3
  <1>10. Counted'
    BY <1>2, <1>9 DEF Counted
  <1> QED BY <1>1, <1>3, <1>10 DEF VInv

\* A step over a requirement to no volume, or to the next server.
LEMMA PassCounted == VInv /\ (Pass \/ NextServer) => VInv'
  <1> SUFFICES ASSUME VInv, Pass \/ NextServer PROVE VInv'
    OBVIOUS
  <1>1. AInv /\ AInv' /\ InFull(servers) /\ Counted
    BY AttachmentsAInv DEF VInv, Search
  <1>2. UNCHANGED <<servers, attached>>
    BY DEF Pass, NextServer
  <1>3. \A s \in 1 .. Len(servers) : /\ DOMAIN servers[s] = 1 .. Len(servers[s])
                                     /\ Len(servers[s]) \in Nat
    <2>1. \A s \in 1 .. Len(servers) : servers[s] \in Seq(RequirementRecord)
      BY <1>1 DEF AInv, Placed
    <2> QED BY <2>1
  <1>4. ASSUME NEW s \in 1 .. Len(servers), NEW v \in Volumes
        PROVE  Passed(s, v)' = Passed(s, v)
    <2>1. CASE Pass
      <3>1. Searching /\ at' = <<at[1], at[2] + 1>>
        BY <2>1 DEF Pass, Step
      <3>2. at[1] \in Nat /\ at[2] \in Nat
        BY <1>1 DEF AInv, Placed
      <3>3. Requirement.to \notin Volumes
        BY <1>1, <2>1, <3>1, VolumeIsAttached DEF Pass
      <3>4. s = at[1] => servers[s][at[2]].to # v
        BY <3>3 DEF Requirement, Requirements
      <3>5. \A k \in 1 .. Len(servers[s]) :
                (k < at'[2] <=> k < at[2] \/ k = at[2]) /\ at'[1] = at[1]
        BY <1>3, <3>1, <3>2
      <3> QED BY <1>2, <1>3, <3>4, <3>5 DEF Passed
    <2>2. CASE NextServer
      <3>1. /\ at[1] \in Nat /\ at[2] \in Nat /\ at' = <<at[1] + 1, 1>>
            /\ at[2] > Len(Requirements)
        BY <1>1, <2>2 DEF AInv, Placed, NextServer
      <3>2. \A k \in 1 .. Len(servers[s]) :
                s < at'[1] \/ (s = at'[1] /\ k < at'[2])
                    <=> s < at[1] \/ (s = at[1] /\ k < at[2])
        BY <1>3, <3>1 DEF Requirements
      <3> QED BY <1>2, <1>3, <3>2 DEF Passed
    <2> QED BY <2>1, <2>2
  <1> QED BY <1>1, <1>2, <1>4 DEF VInv, InFull, Counted, AttachedFor

\* A translation begins with no attachment.
LEMMA StartCounted ==
    ASSUME AInv, attached = << >>, at = <<1, 1>>
    PROVE  Counted
  <1> SUFFICES ASSUME NEW s \in 1 .. Len(servers), NEW v \in Volumes
               PROVE  AttachedFor(s, v) = {} /\ Passed(s, v) = {}
    BY DEF Counted
  <1>1. servers[s] \in Seq(RequirementRecord) /\ s \in Nat /\ s >= 1
    BY DEF AInv, Placed
  <1> QED BY <1>1 DEF AttachedFor, Passed

\* Where requirements to volumes are dictionaries with a relationship, each of
\* them has one attachment of its volume to its server when the search is over
\* (translate_node_templates.py:242).
THEOREM VolumesAreAttached ==
    ASSUME \A run \in Runs : InFull(run.servers)
    PROVE  CommandSpec => []VolumesAttached
  <1>1. CommandInit => VInv
    <2> SUFFICES ASSUME CommandInit PROVE VInv
      OBVIOUS
    <2>1. (\E run \in Runs : servers = run.servers) /\ attached = << >> /\ at = <<1, 1>>
      BY DEF CommandInit, AttachmentsInit
    <2>2. AInv
      BY TopologiesAssumption DEF CommandInit, AttachmentsInit, AInv, Placed, Numbered
    <2> QED BY <2>1, <2>2, StartCounted DEF VInv
  <1>2. VInv /\ [CommandNext]_allVars => VInv'
    <2> SUFFICES ASSUME VInv, [CommandNext]_allVars PROVE VInv'
      OBVIOUS
    <2>1. AInv /\ AInv'
      BY CommandStepAttachments, AttachmentsAInv DEF VInv
    <2>2. CASE Attach \/ Pass \/ NextServer
      BY <2>2, AttachCounted, PassCounted
    <2>3. CASE UNCHANGED <<servers, attached, at>>
      BY <2>1, <2>3 DEF VInv, InFull, Counted, AttachedFor, Passed
    <2>4. CASE StartSearch
      <3>1. servers' = servers /\ attached' = << >> /\ at' = <<1, 1>>
        BY <2>4 DEF StartSearch
      <3>2. Counted'
        <4> SUFFICES ASSUME NEW s \in 1 .. Len(servers), NEW v \in Volumes
                     PROVE  AttachedFor(s, v)' = {} /\ Passed(s, v)' = {}
          BY <3>1 DEF Counted
        <4>1. servers[s] \in Seq(RequirementRecord) /\ s \in Nat /\ s >= 1
          BY <2>1 DEF AInv, Placed
        <4> QED BY <3>1, <4>1 DEF AttachedFor, Passed
      <3> QED BY <2>1, <3>1, <3>2 DEF VInv, InFull
    <2>5. Break \/ EndSearch \/ UNCHANGED attachmentVars => UNCHANGED <<servers, attached, at>>
      BY DEF Break, EndSearch, attachmentVars
    <2> QED BY <2>2, <2>3, <2>4, <2>5, CommandStepAttachments DEF Search
  <1>3. VInv => VolumesAttached
    <2> SUFFICES ASSUME VInv, Searched, NEW s \in DOMAIN servers, NEW v \in Volumes
                 PROVE  Cardinality(AttachedFor(s, v))
                            = Cardinality({k \in DOMAIN servers[s] : servers[s][k].to = v})
      BY DEF VolumesAttached, AttachedFor
    <2>1. s \in 1 .. Len(servers) /\ at[1] \in Nat /\ at[1] > Len(servers) /\ Len(servers) \in Nat
      BY DEF VInv, AInv, Placed, Searched
    <2>2. Passed(s, v) = {k \in DOMAIN servers[s] : servers[s][k].to = v}
      BY <2>1 DEF Passed
    <2> QED BY <2>1, <2>2 DEF VInv, Counted
  <1> QED BY <1>1, <1>2, <1>3, PTL DEF CommandSpec

-----------------------------------------------------------------------------
(* The stack and the file have the same attachments: without the name of a *)
(* template the search changes nothing, and it is deterministic.           *)

\* A search as a sequence of its states; After is the next one, of a search
\* that does not fail.
Beginning == [attached |-> << >>, at |-> <<1, 1>>, suffix |-> 0, nodeName |-> NoNode]

Now == [attached |-> attached, at |-> at, suffix |-> suffix, nodeName |-> nodeName]

Ended(x) == x.at[1] > Len(servers)

AfterRequirement(x) ==
    LET reqs   == servers[x.at[1]]
        r      == reqs[x.at[2]]
        volume == VolumeName(r, x.nodeName)
        k      == Chosen(reqs, volume)
    IN  [attached |-> IF volume # NoNode /\ k # 0
                      THEN Append(x.attached,
                            [server |-> x.at[1], volume |-> volume, from |-> k,
                             suffix |-> x.suffix + 1, name |-> AttachmentName(reqs[k].relation)])
                      ELSE x.attached,
         at       |-> <<x.at[1], x.at[2] + 1>>,
         suffix   |-> IF volume = NoNode THEN x.suffix ELSE x.suffix + 1,
         nodeName |-> IF r.form = "full" THEN LastValue(r) ELSE x.nodeName]

After(x) ==
    IF Ended(x) THEN x
    ELSE IF x.at[2] > Len(servers[x.at[1]]) THEN [x EXCEPT !.at = <<x.at[1] + 1, 1>>]
    ELSE AfterRequirement(x)

Leads(f, n) == f[0] = Beginning /\ \A i \in 0 .. (n - 1) : f[i + 1] = After(f[i])

Reached(x) == \E n \in Nat : \E f : Leads(f, n) /\ f[n] = x

\* A search goes on where it was.
LEMMA ReachedAfter == \A x : Reached(x) => Reached(After(x))
  <1> SUFFICES ASSUME NEW x, Reached(x) PROVE Reached(After(x))
    OBVIOUS
  <1>1. PICK n \in Nat : \E f : Leads(f, n) /\ f[n] = x
    BY DEF Reached
  <1>2. PICK f : Leads(f, n) /\ f[n] = x
    BY <1>1
  <1> DEFINE g == [i \in 0 .. n + 1 |-> IF i <= n THEN f[i] ELSE After(x)]
  <1>3. Leads(g, n + 1)
    <2>1. g[0] = Beginning
      BY <1>2 DEF Leads
    <2>2. ASSUME NEW i \in 0 .. ((n + 1) - 1) PROVE g[i + 1] = After(g[i])
      <3>1. CASE i = n
        BY <1>2, <3>1
      <3>2. CASE i # n
        <4>1. i \in 0 .. (n - 1) /\ g[i] = f[i] /\ g[i + 1] = f[i + 1]
          BY <3>2
        <4> QED BY <1>2, <4>1 DEF Leads
      <3> QED BY <3>1, <3>2
    <2> HIDE DEF g
    <2> QED BY <2>1, <2>2 DEF Leads
  <1>4. g[n + 1] = After(x) /\ n + 1 \in Nat
    OBVIOUS
  <1> HIDE DEF g
  <1> QED BY <1>3, <1>4 DEF Reached

LEMMA SameEnd ==
    ASSUME NEW n \in Nat, NEW m \in Nat, n <= m, NEW f, NEW g, Leads(f, n), Leads(g, m),
           Ended(f[n])
    PROVE  g[m] = f[n]
  <1>1. \A i \in 0 .. n : f[i] = g[i]
    <2> DEFINE D == {i \in 0 .. n : f[i] # g[i]}
    <2> SUFFICES ASSUME D # {} PROVE FALSE
      OBVIOUS
    <2>1. D \in SUBSET Nat
      OBVIOUS
    <2>2. Min(D) \in D /\ \A i \in D : Min(D) <= i
      BY <2>1, MinProperty
    <2>3. PICK i \in D : \A j \in D : i <= j
      BY <2>2
    <2>4. i # 0
      BY <2>3 DEF Leads
    <2>5. i - 1 \in 0 .. (n - 1) /\ i - 1 \in 0 .. (m - 1) /\ i - 1 \notin D /\ (i - 1) + 1 = i
      BY <2>3, <2>4
    <2>6. f[(i - 1) + 1] = After(f[i - 1]) /\ g[(i - 1) + 1] = After(g[i - 1])
      BY <2>5 DEF Leads
    <2> QED BY <2>3, <2>5, <2>6
  <1>2. \A i \in n .. m : g[i] = f[n]
    <2> DEFINE D == {i \in n .. m : g[i] # f[n]}
    <2> SUFFICES ASSUME D # {} PROVE FALSE
      OBVIOUS
    <2>1. D \in SUBSET Nat
      OBVIOUS
    <2>2. Min(D) \in D /\ \A i \in D : Min(D) <= i
      BY <2>1, MinProperty
    <2>3. PICK i \in D : \A j \in D : i <= j
      BY <2>2
    <2>4. i # n
      BY <1>1, <2>3
    <2>5. i - 1 \in n .. m /\ i - 1 \in 0 .. (m - 1) /\ i - 1 \notin D /\ (i - 1) + 1 = i
      BY <2>3, <2>4
    <2>6. g[(i - 1) + 1] = After(g[i - 1]) /\ g[i - 1] = f[n]
      BY <2>5 DEF Leads
    <2> QED BY <2>3, <2>5, <2>6 DEF After
  <1> QED BY <1>2

\* It has one end.
LEMMA OneEnd == \A x, y : Reached(x) /\ Reached(y) /\ Ended(x) /\ Ended(y) => x = y
  <1> SUFFICES ASSUME NEW x, NEW y, Reached(x), Reached(y), Ended(x), Ended(y)
               PROVE  x = y
    OBVIOUS
  <1>1. PICK n \in Nat : \E f : Leads(f, n) /\ f[n] = x
    BY DEF Reached
  <1>2. PICK f : Leads(f, n) /\ f[n] = x
    BY <1>1
  <1>3. PICK m \in Nat : \E g : Leads(g, m) /\ g[m] = y
    BY DEF Reached
  <1>4. PICK g : Leads(g, m) /\ g[m] = y
    BY <1>3
  <1>5. CASE n <= m
    BY <1>2, <1>4, <1>5, SameEnd
  <1>6. CASE m <= n
    BY <1>2, <1>4, <1>6, SameEnd
  <1> QED BY <1>5, <1>6

\* All this is of the requirements only.
LEMMA SearchesStay ==
    ASSUME UNCHANGED servers
    PROVE  \A x : (Reached(x)' <=> Reached(x)) /\ (Ended(x)' <=> Ended(x))
  <1>1. \A x : After(x)' = After(x) /\ (Ended(x)' <=> Ended(x))
    BY DEF After, AfterRequirement, Ended
  <1>2. Beginning' = Beginning
    BY DEF Beginning
  <1>3. \A f, n : Leads(f, n)' <=> Leads(f, n)
    BY <1>1, <1>2 DEF Leads
  <1> QED BY <1>1, <1>3 DEF Reached

\* What was kept of a finished translation, without the files.
IsOfSearch(kept) ==
    \E x : /\ Reached(x) /\ Ended(x) /\ kept.attached = x.attached
           /\ \E t \in DOMAIN written : kept.parameters = written[t]

DInv ==
    /\ AInv /\ NameFree(servers) /\ AllEntered(content.references)
    /\ search = "on" => (\E x : x = Now /\ Reached(x)) /\ (stage # "idle" \/ written # << >>)
    /\ \A kept \in {stack, output} : kept # None => IsOfSearch(kept)
    /\ stack # None => stack.files = {r.file : r \in content.references}

\* Without names an attachment changes no requirement.
LEMMA AttachFixed ==
    ASSUME AInv, NameFree(servers), Attach
    PROVE  servers' = servers
  <1> DEFINE volume == VolumeName(Requirement, nodeName)
             k == Chosen(Requirements, volume)
  <1>1. /\ Searching /\ k # 0
        /\ servers' = [servers EXCEPT ![at[1]][k].relation = Resolved(@)]
        /\ Requirements[k].form = "full"
    BY DEF Attach
  <1>2. /\ servers \in Seq(Seq(RequirementRecord))
        /\ k \in 1 .. Len(Requirements) /\ \E j : <<j, k>> \in Compared(Requirements, volume)
        /\ Requirements \in Seq(RequirementRecord)
    BY <1>1, ChosenIsRequirement DEF AInv, Placed
  <1>3. at[1] \in 1 .. Len(servers) /\ servers[at[1]] = Requirements
    BY <1>1, <1>2 DEF AInv, Placed, Searching, Requirements
  <1>4. Requirements[k].relation # NoNode
    BY <1>1, <1>2 DEF Compared
  <1> HIDE DEF k, volume
  <1>5. Requirements[k] \in RequirementRecord
        /\ Resolved(Requirements[k].relation) = Requirements[k].relation
    BY <1>2, <1>3, <1>4 DEF NameFree, Resolved
  <1> DEFINE changed == [Requirements[k] EXCEPT !.relation = Resolved(@)]
             row == [Requirements EXCEPT ![k] = changed]
  <1>6. servers' = [servers EXCEPT ![at[1]] = row]
    BY <1>1, <1>3
  <1>7. changed = Requirements[k]
    BY <1>5 DEF RequirementRecord
  <1> HIDE DEF changed
  <1>8. row = Requirements
    BY <1>2, <1>7
  <1> HIDE DEF row
  <1> QED BY <1>2, <1>3, <1>6, <1>8

\* A step of the search is the next one from where it is.
LEMMA SearchLeads ==
    ASSUME AInv, AInv', Attach \/ Pass \/ NextServer, \E x : x = Now /\ Reached(x)
    PROVE  \E x : x = Now' /\ Reached(x)
  <1>1. Now' = After(Now)
    <2>1. /\ at[1] \in Nat /\ at[2] \in Nat /\ Len(servers) \in Nat
          /\ at[1] <= Len(servers) /\ Now.at = at
      BY DEF AInv, Placed, Attach, Pass, NextServer, Searching, Now
    <2>2. Now = [attached |-> attached, at |-> at, suffix |-> suffix, nodeName |-> nodeName]
          /\ ~ Ended(Now)
      BY <2>1 DEF Now, Ended
    <2>3. CASE NextServer
      <3>1. at[2] > Len(servers[at[1]]) /\ at' = <<at[1] + 1, 1>>
            /\ UNCHANGED <<attached, suffix, nodeName>>
        BY <2>3 DEF NextServer, Requirements
      <3>2. After(Now) = [Now EXCEPT !.at = <<at[1] + 1, 1>>]
        BY <2>1, <2>2, <3>1 DEF After
      <3> QED BY <2>2, <3>1, <3>2 DEF Now
    <2>4. CASE Attach \/ Pass
      <3>1. at[2] <= Len(servers[at[1]]) /\ Searching
            /\ Requirements = servers[at[1]] /\ Requirement = servers[at[1]][at[2]]
        BY <2>4 DEF Attach, Pass, Searching, Requirements, Requirement
      <3>2. Len(servers[at[1]]) \in Nat
        BY <2>1, <3>1 DEF AInv, Placed, Searching
      <3>3. After(Now) = AfterRequirement(Now)
        BY <2>1, <2>2, <3>1, <3>2 DEF After
      <3>4. /\ at' = <<at[1], at[2] + 1>>
            /\ nodeName' = IF Requirement.form = "full" THEN LastValue(Requirement) ELSE nodeName
        BY <2>4 DEF Attach, Pass, Step
      <3> DEFINE volume == VolumeName(Requirement, nodeName)
                 k == Chosen(Requirements, volume)
      <3>5. /\ attached' = IF volume # NoNode /\ k # 0
                           THEN Append(attached,
                             [server |-> at[1], volume |-> volume, from |-> k,
                              suffix |-> suffix + 1,
                              name |-> AttachmentName(Requirements[k].relation)])
                           ELSE attached
            /\ suffix' = IF volume = NoNode THEN suffix ELSE suffix + 1
        BY <2>4 DEF Attach, Pass
      <3> QED BY <2>2, <3>1, <3>3, <3>4, <3>5 DEF AfterRequirement, Now
    <2> QED BY <2>3, <2>4
  <1> QED BY <1>1, ReachedAfter

LEMMA BeginningReached == Reached(Beginning)
  <1> DEFINE f == [i \in {0} |-> Beginning]
  <1>1. Leads(f, 0) /\ f[0] = Beginning
    BY DEF Leads
  <1> HIDE DEF f
  <1> QED BY <1>1 DEF Reached

\* What a step does to the stack, the output and the sections written.
LEMMA CommandSteps ==
    ASSUME [CommandNext]_allVars, PInv
    PROVE  /\ UNCHANGED content
           /\ written' = written \/ \E new : written' = Append(written, new)
           /\ search' = "on" =>
                \/ StartSearch /\ stage' # "idle"
                \/ /\ search = "on" /\ (Search \/ UNCHANGED attachmentVars)
                   /\ stage' # "idle" \/ written' # << >> \/ UNCHANGED <<stage, written>>
           /\ UNCHANGED <<stack, output>> \/ CreateStack \/ WriteOutput
  <1>0. written \in Seq({Section})
    BY DEF PInv, WrittenAlike
  <1>1. CASE UNCHANGED allVars
    BY <1>1 DEF allVars, inputVars, attachmentVars
  <1>2. CASE ParseParameters \/ OpenSession \/ CheckDeploy \/ WithoutDeploy
    BY <1>2 DEF ParseParameters, OpenSession, CheckDeploy, WithoutDeploy, inputVars, attachmentVars
  <1>3. CASE ResolveInputFails \/ ResolveArtifact \/ DeploymentFails
    BY <1>3 DEF ResolveInputFails, ResolveArtifact, DeploymentFails, mainVars, nodeVars, inputVars,
                attachmentVars
  <1>4. CASE TranslateInputs
    BY <1>4 DEF TranslateInputs, BeginTranslation, TranslateInput, Reject, mainVars, nodeVars,
                attachmentVars
  <1>5. CASE BeginNodes
    BY <1>5 DEF BeginNodes, inputVars, mainVars
  <1>6. CASE SearchAttachments
    <2>1. search = "on"
      BY <1>6 DEF SearchAttachments, Search, Attach, Pass, Break, NextServer, Searching
    <2> QED BY <1>6, <2>1 DEF SearchAttachments, inputVars, mainVars
  <1>7. CASE WriteSection
    <2>1. UNCHANGED attachmentVars /\ UNCHANGED <<content, stack, output>>
      BY <1>7 DEF WriteSection, nodeVars, mainVars
    <2>2. CASE FinishInputs \/ WriteParameter
      <3>1. stage' = "section" /\ written' = written
        BY <2>2 DEF FinishInputs, WriteParameter
      <3> QED BY <2>1, <3>1 DEF attachmentVars
    <2>3. CASE FinishSection
      <3>1. written' = Append(written, section)
        BY <2>3 DEF FinishSection
      <3>2. written' # << >>
        BY <1>0, <3>1
      <3> QED BY <2>1, <3>1, <3>2 DEF attachmentVars
    <2> QED BY <1>7, <2>2, <2>3 DEF WriteSection
  <1>8. CASE CreateStack
    BY <1>8 DEF CreateStack, EndSearch, inputVars
  <1>9. CASE WriteOutput
    BY <1>9 DEF WriteOutput, inputVars, attachmentVars
  <1> QED BY <1>1, <1>2, <1>3, <1>4, <1>5, <1>6, <1>7, <1>8, <1>9 DEF CommandNext

\* What is kept of a translation that is finished is of its search.
LEMMA FinishedIsOfSearch ==
    ASSUME DInv, PInv, Translated
    PROVE  \A kept : /\ kept.attached = attached /\ kept.parameters = Last(written)
                     => IsOfSearch(kept)
  <1>1. search = "on" /\ Ended(Now) /\ stage = "idle"
    BY DEF Translated, NodesTranslated, Searched, Ended, Now
  <1>2. Reached(Now) /\ Now.attached = attached /\ written # << >>
    BY <1>1 DEF DInv, Now
  <1>3. written \in Seq({Section})
    BY DEF PInv, WrittenAlike
  <1>4. Len(written) \in DOMAIN written /\ Last(written) = written[Len(written)]
    BY <1>2, <1>3 DEF Last
  <1> QED BY <1>1, <1>2, <1>4 DEF IsOfSearch

LEMMA DeployStep ==
    ASSUME DInv, PInv, PInv', [CommandNext]_allVars
    PROVE  DInv'
  <1>1. AInv /\ AInv'
    BY CommandStepAttachments, AttachmentsAInv DEF DInv
  <1>2. servers' = servers
    <2>1. CASE Attach
      BY <1>1, <2>1, AttachFixed DEF DInv
    <2> QED BY <2>1, CommandStepAttachments
            DEF Search, Pass, Break, NextServer, StartSearch, EndSearch, attachmentVars
  <1>3. \A x : (Reached(x)' <=> Reached(x)) /\ (Ended(x)' <=> Ended(x))
    BY <1>2, SearchesStay
  <1>4. \A t \in DOMAIN written : t \in DOMAIN written' /\ written'[t] = written[t]
    <2>1. written \in Seq({Section})
      BY DEF PInv, WrittenAlike
    <2>2. written' = written \/ \E new : written' = Append(written, new)
      BY CommandSteps
    <2> QED BY <2>1, <2>2
  <1>5. \A kept : IsOfSearch(kept) => IsOfSearch(kept)'
    BY <1>3, <1>4 DEF IsOfSearch
  <1>6. content' = content /\ NameFree(servers)' /\ AllEntered(content.references)
    BY <1>2, CommandSteps DEF DInv, NameFree
  <1>7. search' = "on" => (\E x : x = Now' /\ Reached(x)) /\ (stage' # "idle" \/ written' # << >>)
    <2> SUFFICES ASSUME search' = "on"
                 PROVE  (\E x : x = Now' /\ Reached(x)) /\ (stage' # "idle" \/ written' # << >>)
      OBVIOUS
    <2>1. CASE StartSearch /\ stage' # "idle"
      <3>1. Now' = Beginning
        BY <2>1 DEF StartSearch, Now, Beginning
      <3> QED BY <2>1, <3>1, BeginningReached
    <2>2. CASE /\ search = "on" /\ (Search \/ UNCHANGED attachmentVars)
               /\ stage' # "idle" \/ written' # << >> \/ UNCHANGED <<stage, written>>
      <3>1. \E x : x = Now /\ Reached(x)
        BY <2>2 DEF DInv
      <3>2. stage' # "idle" \/ written' # << >>
        BY <2>2 DEF DInv
      <3>3. CASE UNCHANGED attachmentVars
        <4>1. Now' = Now
          BY <3>3 DEF attachmentVars, Now
        <4> QED BY <3>1, <3>2, <4>1
      <3>4. CASE Search
        <4>1. Attach \/ Pass \/ NextServer
          BY <3>4 DEF Search, Break
        <4> QED BY <1>1, <3>1, <3>2, <4>1, SearchLeads
      <3> QED BY <2>2, <3>3, <3>4
    <2> QED BY <2>1, <2>2, CommandSteps
  <1>8. /\ \A kept \in {stack', output'} : kept # None => IsOfSearch(kept)'
        /\ stack' # None => stack'.files = {r.file : r \in content'.references}
    <2>1. CASE UNCHANGED <<stack, output>>
      BY <1>5, <1>6, <2>1 DEF DInv
    <2>2. CASE CreateStack
      <3>1. /\ Translated /\ output' = output
            /\ stack' = [attached |-> attached, parameters |-> Last(written), files |-> Collected]
        BY <2>2 DEF CreateStack
      <3>2. Collected = {r.file : r \in content.references}
        BY <1>6 DEF Collected, AllEntered, Entered
      <3>3. \A kept : kept = stack' => IsOfSearch(kept)
        <4>1. stack'.attached = attached /\ stack'.parameters = Last(written)
          BY <3>1
        <4> QED BY <3>1, <4>1, FinishedIsOfSearch
      <3> QED BY <1>5, <1>6, <3>1, <3>2, <3>3 DEF DInv
    <2>3. CASE WriteOutput
      <3>1. /\ Translated /\ stack' = stack
            /\ output' = [attached |-> attached, parameters |-> Last(written), directory |-> cwd]
        BY <2>3 DEF WriteOutput
      <3>2. \A kept : kept = output' => IsOfSearch(kept)
        <4>1. output'.attached = attached /\ output'.parameters = Last(written)
          BY <3>1
        <4> QED BY <3>1, <4>1, FinishedIsOfSearch
      <3> QED BY <1>5, <1>6, <3>1, <3>2 DEF DInv
    <2> QED BY <2>1, <2>2, <2>3, CommandSteps
  <1>9. \A x : Reached(x) => Reached(x)'
    BY <1>3
  <1> QED BY <1>1, <1>6, <1>7, <1>8, <1>9 DEF DInv

\* Without names of relationship templates, and if no file is in a list or
\* beside another, the file that is written has the attachments and the
\* parameters of the stack, and Heat was sent every file that the template
\* refers to (shell.py:194-221).
THEOREM DeployedIsTheFile ==
    ASSUME \A run \in Runs : NameFree(run.servers) /\ AllEntered(run.content.references)
    PROVE  CommandSpec => []DeployedIsWritten
  <1>1. CommandInit => DInv
    <2> SUFFICES ASSUME CommandInit PROVE DInv
      OBVIOUS
    <2>1. PICK run \in Runs : servers = run.servers /\ content = run.content
      BY DEF CommandInit
    <2>2. AInv
      BY TopologiesAssumption DEF CommandInit, AttachmentsInit, AInv, Placed, Numbered
    <2>3. search = "off" /\ stack = None /\ output = None
      BY DEF CommandInit, AttachmentsInit
    <2> QED BY <2>1, <2>2, <2>3 DEF DInv
  <1>2. DInv /\ PInv /\ PInv' /\ [CommandNext]_allVars => DInv'
    BY DeployStep
  <1>3. DInv /\ PInv => DeployedIsWritten
    <2> SUFFICES ASSUME DInv, PInv, stack # None, output # None
                 PROVE  /\ stack.attached = output.attached
                        /\ stack.parameters = output.parameters
                        /\ stack.files = {r.file : r \in content.references}
      BY DEF DeployedIsWritten, FilesSent
    <2>1. PICK x : /\ Reached(x) /\ Ended(x) /\ stack.attached = x.attached
                   /\ \E t \in DOMAIN written : stack.parameters = written[t]
      BY DEF DInv, IsOfSearch
    <2>2. PICK y : /\ Reached(y) /\ Ended(y) /\ output.attached = y.attached
                   /\ \E t \in DOMAIN written : output.parameters = written[t]
      BY DEF DInv, IsOfSearch
    <2>3. x = y
      BY <2>1, <2>2, OneEnd
    <2>4. \A t \in DOMAIN written : written[t] = Section
      BY DEF PInv, WrittenAlike
    <2> QED BY <2>1, <2>2, <2>3, <2>4 DEF DInv
  <1>4. CommandSpec => []PInv
    BY CommandImplementsParameters, SpecPInv, PTL
  <1> QED BY <1>1, <1>2, <1>3, <1>4, PTL DEF CommandSpec

=============================================================================
