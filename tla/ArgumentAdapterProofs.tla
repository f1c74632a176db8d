------------------------ MODULE ArgumentAdapterProofs ------------------------
(***************************************************************************)
(* Proofs about the argument adapter, for calls of any length with any     *)
(* arguments, and any number of link calls that are killed and repeated.   *)
(***************************************************************************)
EXTENDS ArgumentAdapter, FiniteSetTheorems, TLAPS

-----------------------------------------------------------------------------
(* Types. *)

Flags == {a.text : a \in Arguments} \cup STRING
           \cup {"-mllvm", "-Wno-builtin-macro-redefined", "-D__forceinline", "-mfma"}

\* The flags are those of arguments of this call, or additions.
FlagsTyped == vecArguments \in Seq([from : 0..Len(args), flag : Flags])

LEMMA FromType ==
  ASSUME NEW n \in Nat, NEW i \in 0..n, NEW flags \in Seq(Flags)
  PROVE  From(i, flags) \in Seq([from : 0..n, flag : Flags])
<1> DEFINE R == [from : 0..n, flag : Flags]
<1>1. Len(flags) \in Nat /\ DOMAIN flags = 1..Len(flags)
      /\ \A k \in 1..Len(flags) : flags[k] \in Flags
  OBVIOUS
<1>2. \A k \in 1..Len(flags) : [from |-> i, flag |-> flags[k]] \in R
  BY <1>1
<1>3. From(i, flags) \in [1..Len(flags) -> R]
  BY <1>1, <1>2 DEF From
<1> HIDE DEF R
<1>4. From(i, flags) \in Seq(R)
  BY <1>1, <1>3
<1> QED
  BY <1>4 DEF R

LEMMA TranslateType == \A a \in Arguments : Translate(a) \in Seq(Flags)
<1> SUFFICES ASSUME NEW a \in Arguments PROVE Translate(a) \in Seq(Flags)
  OBVIOUS
<1>1. a.flags \in Seq(STRING) /\ a.text \in Flags
  BY ArgumentsAssumption DEF IsArgument, Flags
<1>2. a.flags \in Seq(Flags)
  BY <1>1 DEF Flags
<1> QED
  BY <1>1, <1>2 DEF Translate

LEMMA AdditionsType == Additions \in Seq(Flags)
<1>1. "-Wno-builtin-macro-redefined" \in Flags /\ "-D__forceinline" \in Flags /\ "-mfma" \in Flags
  BY DEF Flags
<1>2. ASSUME NEW f \in Flags PROVE <<f>> \in Seq(Flags) /\ << >> \in Seq(Flags)
  BY <1>2
<1> DEFINE dated == IF HasFlag(Dated) THEN <<"-Wno-builtin-macro-redefined">> ELSE << >>
           skia == IF HasFlag(Skia) THEN <<"-D__forceinline">> ELSE << >>
           fma == IF HasFlag(Hsw) /\ ~HasFlag({"-mfma"}) THEN <<"-mfma">> ELSE << >>
<1>3. dated \in Seq(Flags) /\ skia \in Seq(Flags) /\ fma \in Seq(Flags)
  BY <1>1, <1>2
<1>4. Additions = dated \o skia \o fma
  BY DEF Additions
<1> HIDE DEF dated, skia, fma
<1> QED
  BY <1>3, <1>4

LEMMA InitTypes == Init => TypeOK /\ FlagsTyped
<1> SUFFICES ASSUME Init PROVE TypeOK /\ FlagsTyped
  OBVIOUS
<1>1. args \in Seq(Arguments) /\ Len(args) \in Nat /\ next \in 1..Len(args) + 1
  <2>1. PICK n \in 1..MaxArguments : args \in [1..n -> Arguments]
    BY DEF Init
  <2> QED
    BY <2>1, BoundsAssumption DEF Init
<1> QED
  BY <1>1, BoundsAssumption DEF Init, TypeOK, FlagsTyped

LEMMA TypesStep == TypeOK /\ FlagsTyped /\ [Next]_vars => TypeOK' /\ FlagsTyped'
<1> SUFFICES ASSUME TypeOK, FlagsTyped, [Next]_vars PROVE TypeOK' /\ FlagsTyped'
  OBVIOUS
<1> DEFINE R == [from : 0..Len(args), flag : Flags]
           Texts == {a.text : a \in Arguments} \cup {"-mllvm"}
<1>1. /\ args \in Seq(Arguments) /\ Len(args) \in Nat /\ next \in 1..Len(args) + 1
      /\ vecArguments \in Seq(R) /\ lstErrors \in Seq(Texts)
      /\ \A i \in 1..Len(args) : args[i] \in Arguments /\ args[i].text \in Flags \cap Texts
      /\ "-mllvm" \in Texts
  BY DEF TypeOK, FlagsTyped, Flags
<1> HIDE DEF R, Texts
<1>2. ASSUME Mllvm \/ MllvmLast \/ Other \/ Compile
      PROVE  /\ UNCHANGED <<args, linking>> /\ pc' \in {"arguments", "compiled", "failed"}
             /\ next' \in 1..Len(args) + 1 /\ vecArguments' \in Seq(R) /\ lstErrors' \in Seq(Texts)
  <2>0. UNCHANGED <<args, linking>> /\ pc' \in {"arguments", "compiled", "failed"}
    BY <1>2 DEF Mllvm, MllvmLast, Other, Compile
  <2>1. ASSUME NEW i \in 0..Len(args), NEW flags \in Seq(Flags)
        PROVE  vecArguments \o From(i, flags) \in Seq(R)
    <3>1. From(i, flags) \in Seq(R)
      BY <1>1, FromType DEF R
    <3> QED
      BY <1>1, <3>1
  <2>2. CASE Mllvm
    <3>1. next \in 0..Len(args) /\ next' \in 1..Len(args) + 1 /\ lstErrors' = lstErrors
      BY <1>1, <2>2 DEF Mllvm
    <3>2. <<"-mllvm", args[next + 1].text>> \in Seq(Flags)
      <4>1. args[next + 1].text \in Flags
        BY <1>1, <2>2 DEF Mllvm
      <4>2. "-mllvm" \in Flags
        BY DEF Flags
      <4> QED
        BY <4>1, <4>2
    <3> QED
      BY <1>1, <2>0, <2>1, <2>2, <3>1, <3>2 DEF Mllvm
  <2>3. CASE MllvmLast
    BY <1>1, <2>0, <2>3 DEF MllvmLast
  <2>4. CASE Other
    <3>1. next \in 1..Len(args) /\ next' \in 1..Len(args) + 1 /\ Argument \in Arguments
          /\ Argument.text \in Texts
      BY <1>1, <2>4 DEF Other, Argument
    <3>2. lstErrors' \in Seq(Texts)
      <4>1. lstErrors' = lstErrors \/ lstErrors' = Append(lstErrors, Argument.text)
        BY <2>4 DEF Other
      <4>2. lstErrors \in Seq(Texts) /\ Argument.text \in Texts
        BY <1>1, <3>1
      <4>3. Append(lstErrors, Argument.text) \in Seq(Texts)
        BY <4>2
      <4> QED
        BY <4>1, <4>2, <4>3
    <3>3. CASE Raises(Argument)
      BY <1>1, <2>0, <2>4, <3>1, <3>2, <3>3 DEF Other
    <3>4. CASE ~Raises(Argument)
      <4>1. Translate(Argument) \in Seq(Flags)
        BY <3>1, <3>4, TranslateType
      <4>2. vecArguments' = vecArguments \o From(next, Translate(Argument))
        BY <2>4, <3>4 DEF Other
      <4> QED
        BY <2>0, <2>1, <3>1, <3>2, <4>1, <4>2
    <3> QED
      BY <3>3, <3>4
  <2>5. CASE Compile
    BY <1>1, <2>0, <2>1, <2>5, AdditionsType DEF Compile
  <2> QED
    BY <1>2, <2>2, <2>3, <2>4, <2>5
<1>3. CASE Mllvm \/ MllvmLast \/ Other \/ Compile
  <2>1. /\ UNCHANGED <<args, linking>> /\ pc' \in {"arguments", "compiled", "failed"}
        /\ next' \in 1..Len(args) + 1 /\ vecArguments' \in Seq(R) /\ lstErrors' \in Seq(Texts)
    BY <1>2, <1>3
  <2>2. \A k \in DOMAIN vecArguments' : vecArguments'[k] \in R
    BY <2>1
  <2>3. \A k \in DOMAIN vecArguments' : vecArguments'[k].from \in 0..Len(args)
    BY <2>2 DEF R
  <2> QED
    BY <2>1, <2>3 DEF TypeOK, FlagsTyped, linking, R, Texts
<1>4. ASSUME UNCHANGED compiling PROVE FlagsTyped'
  BY <1>4 DEF FlagsTyped, compiling
<1>5. CASE ReadResponse
  BY <1>4, <1>5 DEF TypeOK, ReadResponse, compiling
<1>6. CASE Open \/ Write
  BY <1>4, <1>6 DEF TypeOK, Open, Write, compiling
<1>7. CASE CallLinker
  BY <1>4, <1>7, BoundsAssumption DEF TypeOK, CallLinker, compiling
<1>8. CASE UNCHANGED vars
  BY <1>4, <1>8 DEF TypeOK, vars, compiling, linking
<1> QED
  BY <1>3, <1>5, <1>6, <1>7, <1>8 DEF Next

THEOREM AdapterTypes == Spec => [](TypeOK /\ FlagsTyped)
  BY InitTypes, TypesStep, PTL DEF Spec

-----------------------------------------------------------------------------
(* The linker. *)

\* What is about to be written is the translation of this call's response file.
LinkInv ==
  /\ pc \in {"write", "writing"} => response \notin Refused /\ strTranslated = Translation(response)
  /\ pc = "linked" => response \notin Refused /\ translated = Translation(response)

LEMMA LinkStep == LinkInv /\ [Next]_vars => LinkInv'
<1> SUFFICES ASSUME LinkInv, [Next]_vars PROVE LinkInv'
  OBVIOUS
<1>1. CASE Mllvm \/ MllvmLast \/ Other
  BY <1>1 DEF LinkInv, Mllvm, MllvmLast, Other, linking
<1>2. CASE Compile
  BY <1>2 DEF LinkInv, Compile, linking
<1>3. CASE ReadResponse \/ Open \/ Write \/ CallLinker
  BY <1>3 DEF LinkInv, ReadResponse, Open, Write, CallLinker
<1>4. CASE UNCHANGED vars
  BY <1>4 DEF LinkInv, vars, linking
<1> QED
  BY <1>1, <1>2, <1>3, <1>4 DEF Next

\* The linker never reads a translation that an earlier call has left, whole or
\* torn, whatever calls were killed before.
THEOREM LinkerReadsFresh == Spec => []LinkedFresh
<1>1. Init => LinkInv
  BY DEF Init, LinkInv
<1>2. Spec => []LinkInv
  BY <1>1, LinkStep, PTL DEF Spec
<1>3. TypeOK /\ LinkInv => LinkedFresh
  BY DEF LinkInv, LinkedFresh
<1> QED
  BY <1>2, <1>3, AdapterTypes, PTL

-----------------------------------------------------------------------------
(* The compiler: pairs of -mllvm and its value. *)

IsMllvm(k) == args[k].kind = "mllvm"

\* Before argument i stand exactly m arguments "-mllvm".
RunOf(i, m) ==
  /\ \A k \in (i - m)..(i - 1) : IsMllvm(k)
  /\ i - m = 1 \/ ~IsMllvm(i - m - 1)

EvenRun(i) == \E m \in 0..(i - 1) : m % 2 = 0 /\ RunOf(i, m)

\* There is one such number, so that an even one excludes an odd one.
LEMMA EvenIsNoValue == ASSUME NEW i \in Nat \ {0}, EvenRun(i) PROVE ~IsValue(i)
<1> SUFFICES ASSUME IsValue(i) PROVE FALSE
  OBVIOUS
<1>1. PICK m \in 0..(i - 1) : m % 2 = 0 /\ RunOf(i, m)
  BY DEF EvenRun
<1>2. PICK n \in 1..(i - 1) : n % 2 = 1 /\ RunOf(i, n)
  BY DEF IsValue, RunOf, IsMllvm
<1>3. CASE m < n
  <2>1. i - m - 1 \in (i - n)..(i - 1) /\ i - m # 1
    BY <1>3
  <2> QED
    BY <1>1, <1>2, <2>1 DEF RunOf
<1>4. CASE n < m
  <2>1. i - n - 1 \in (i - m)..(i - 1) /\ i - n # 1
    BY <1>4
  <2> QED
    BY <1>1, <1>2, <2>1 DEF RunOf
<1>5. m # n
  BY <1>1, <1>2
<1> QED
  BY <1>3, <1>4, <1>5

LEMMA ValueFollows ==
  ASSUME NEW i \in Nat \ {0}, EvenRun(i), IsMllvm(i)
  PROVE  IsValue(i + 1)
<1>1. PICK m \in 0..(i - 1) : m % 2 = 0 /\ RunOf(i, m)
  BY DEF EvenRun
<1>2. m + 1 \in 1..((i + 1) - 1) /\ (m + 1) % 2 = 1
  BY <1>1
<1>3. \A k \in ((i + 1) - (m + 1))..((i + 1) - 1) : k = i \/ k \in (i - m)..(i - 1)
  OBVIOUS
<1>4. (i + 1) - (m + 1) = i - m
  OBVIOUS
<1>5. RunOf(i + 1, m + 1)
  BY <1>1, <1>3, <1>4 DEF RunOf
<1> QED
  BY <1>2, <1>5 DEF IsValue, RunOf, IsMllvm

LEMMA AfterPair ==
  ASSUME NEW i \in Nat \ {0}, EvenRun(i), IsMllvm(i)
  PROVE  EvenRun(i + 2)
<1>1. PICK m \in 0..(i - 1) : m % 2 = 0 /\ RunOf(i, m)
  BY DEF EvenRun
<1>2. CASE IsMllvm(i + 1)
  <2>1. m + 2 \in 0..((i + 2) - 1) /\ (m + 2) % 2 = 0
    BY <1>1
  <2>2. \A k \in ((i + 2) - (m + 2))..((i + 2) - 1) : k = i \/ k = i + 1 \/ k \in (i - m)..(i - 1)
    OBVIOUS
  <2>3. (i + 2) - (m + 2) = i - m
    OBVIOUS
  <2>4. RunOf(i + 2, m + 2)
    BY <1>1, <1>2, <2>2, <2>3 DEF RunOf
  <2> QED
    BY <2>1, <2>4 DEF EvenRun
<1>3. CASE ~IsMllvm(i + 1)
  <2>1. RunOf(i + 2, 0)
    BY <1>3 DEF RunOf
  <2> QED
    BY <2>1 DEF EvenRun
<1> QED
  BY <1>2, <1>3

LEMMA AfterOther == ASSUME NEW i \in Nat \ {0}, ~IsMllvm(i) PROVE EvenRun(i + 1)
<1>1. RunOf(i + 1, 0)
  BY DEF RunOf
<1> QED
  BY <1>1 DEF EvenRun

-----------------------------------------------------------------------------
(* The compiler: errors. *)

Errors == {lstErrors[k] : k \in DOMAIN lstErrors}
BadTexts(n) == {args[i].text : i \in {j \in 1..(n - 1) : Bad(j)}}

\* The errors so far are those of the arguments so far, each of them once.
ErrorInv ==
  /\ next <= Len(args) => EvenRun(next)
  /\ Errors = BadTexts(next)
  /\ IsFiniteSet(Errors) /\ Cardinality(Errors) = Len(lstErrors)
  /\ pc \in {"compiled", "failed"} => next = Len(args) + 1
  /\ pc = "compiled" => lstErrors = << >>

\* The elements of a list, and of the list with one element more.
Elements(s) == {s[k] : k \in DOMAIN s}

LEMMA ElementsOfAppended ==
  ASSUME NEW S, NEW s \in Seq(S), NEW x \in S
  PROVE  Elements(Append(s, x)) = Elements(s) \cup {x} /\ Len(Append(s, x)) = Len(s) + 1
<1> DEFINE n == Len(s)
           t == Append(s, x)
<1>1. /\ n \in Nat /\ DOMAIN s = 1..n /\ Len(t) = n + 1 /\ DOMAIN t = 1..(n + 1)
      /\ \A k \in 1..n : t[k] = s[k]
      /\ t[n + 1] = x
  OBVIOUS
<1> HIDE DEF n, t
<1>2. n + 1 \in DOMAIN t /\ \A k \in DOMAIN s : k \in DOMAIN t
  BY <1>1
<1>3. \A k \in DOMAIN t : k = n + 1 \/ k \in DOMAIN s
  BY <1>1
<1>4. \A k \in DOMAIN s : t[k] = s[k]
  BY <1>1
<1>5. Elements(t) = Elements(s) \cup {x}
  BY <1>1, <1>2, <1>3, <1>4, Zenon DEF Elements
<1> QED
  BY <1>1, <1>5 DEF n, t

LEMMA OneMoreError ==
  ASSUME TypeOK, IsFiniteSet(Errors), Cardinality(Errors) = Len(lstErrors),
         NEW x \in {a.text : a \in Arguments} \cup {"-mllvm"}, x \notin Errors,
         lstErrors' = Append(lstErrors, x)
  PROVE  Errors' = Errors \cup {x} /\ IsFiniteSet(Errors') /\ Cardinality(Errors') = Len(lstErrors')
<1>1. lstErrors \in Seq({a.text : a \in Arguments} \cup {"-mllvm"})
  BY DEF TypeOK
<1>2. Errors = Elements(lstErrors) /\ Errors' = Elements(Append(lstErrors, x))
  BY DEF Errors, Elements
<1>3. Errors' = Errors \cup {x} /\ Len(lstErrors') = Len(lstErrors) + 1
  BY <1>1, <1>2, ElementsOfAppended
<1> QED
  BY <1>3, FS_AddElement

LEMMA BadTextsKept ==
  ASSUME UNCHANGED args, NEW n, next' = n
  PROVE  BadTexts(next)' = BadTexts(n) /\ (EvenRun(n) => EvenRun(next)')
BY DEF BadTexts, Bad, IsValue, Raises, EvenRun, RunOf, IsMllvm

\* One or two more arguments.
LEMMA BadTextsNext ==
  ASSUME NEW n \in Nat \ {0}
  PROVE  BadTexts(n + 1) = BadTexts(n) \cup (IF Bad(n) THEN {args[n].text} ELSE {})
BY DEF BadTexts

LEMMA ErrorStep == TypeOK /\ ErrorInv /\ [Next]_vars => ErrorInv'
<1> SUFFICES ASSUME TypeOK, ErrorInv, [Next]_vars PROVE ErrorInv'
  OBVIOUS
<1>1. /\ args \in Seq(Arguments) /\ Len(args) \in Nat /\ next \in Nat \ {0}
      /\ next \in 1..Len(args) + 1
      /\ \A i \in 1..Len(args) : args[i] \in Arguments
      /\ \A i \in 1..Len(args) : IsMllvm(i) <=> args[i].text = "-mllvm"
  BY ArgumentsAssumption DEF TypeOK, IsArgument, IsMllvm
<1>2. \A i : IsMllvm(i) => ~Raises(args[i])
  BY DEF IsMllvm, Raises
<1>3. next <= Len(args) => ~IsValue(next)
  BY <1>1, EvenIsNoValue DEF ErrorInv
<1>4. CASE Mllvm
  <2>1. /\ next < Len(args) /\ IsMllvm(next) /\ next' = next + 2
        /\ UNCHANGED <<pc, args, lstErrors>>
    BY <1>4 DEF Mllvm, Argument, IsMllvm
  <2>2. ~Bad(next) /\ ~Bad(next + 1) /\ EvenRun(next + 2)
    <3>1. IsValue(next + 1) /\ EvenRun(next + 2)
      BY <1>1, <2>1, ValueFollows, AfterPair DEF ErrorInv
    <3> QED
      BY <1>1, <1>2, <2>1, <3>1 DEF Bad
  <2>3. BadTexts(next + 2) = BadTexts(next)
    <3>1. BadTexts(next + 1) = BadTexts(next)
      BY <1>1, <2>2, BadTextsNext
    <3>2. next + 1 \in Nat \ {0} /\ (next + 1) + 1 = next + 2
      BY <1>1
    <3>3. BadTexts((next + 1) + 1) = BadTexts(next + 1)
      BY <2>2, <3>2, BadTextsNext, Zenon
    <3> QED
      BY <3>1, <3>2, <3>3
  <2>4. BadTexts(next)' = BadTexts(next) /\ EvenRun(next)'
    BY <2>1, <2>2, <2>3, BadTextsKept
  <2>5. pc' = "arguments"
    BY <1>4, <2>1 DEF Mllvm
  <2> QED
    BY <2>1, <2>4, <2>5 DEF ErrorInv, Errors
<1>5. CASE MllvmLast
  <2>1. /\ next = Len(args) /\ IsMllvm(next) /\ next' = next + 1 /\ args[next].text = "-mllvm"
        /\ lstErrors' = Append(lstErrors, "-mllvm") /\ pc' = "arguments" /\ UNCHANGED args
    BY <1>1, <1>5 DEF MllvmLast, Argument, IsMllvm
  <2>2. Bad(next)
    BY <1>3, <2>1 DEF Bad, IsMllvm
  <2>3. BadTexts(next + 1) = BadTexts(next) \cup {"-mllvm"}
    BY <1>1, <2>1, <2>2, BadTextsNext
  <2>4. "-mllvm" \notin BadTexts(next)
    <3> SUFFICES ASSUME NEW j \in 1..(next - 1), Bad(j) PROVE args[j].text # "-mllvm"
      BY DEF BadTexts
    <3>1. j \in 1..Len(args) /\ j # Len(args)
      BY <1>1, <2>1
    <3>2. ~IsMllvm(j)
      BY <1>2, <3>1 DEF Bad
    <3> QED
      BY <1>1, <3>1, <3>2
  <2>5. Errors' = Errors \cup {"-mllvm"} /\ IsFiniteSet(Errors') /\ Cardinality(Errors') = Len(lstErrors')
    BY <2>1, <2>4, OneMoreError DEF ErrorInv
  <2>6. BadTexts(next)' = BadTexts(next + 1) /\ next' > Len(args')
    BY <1>1, <2>1, BadTextsKept
  <2> QED
    BY <2>1, <2>3, <2>5, <2>6 DEF ErrorInv
<1>6. CASE Other
  <2>1. /\ next \in 1..Len(args) /\ ~IsMllvm(next) /\ next' = next + 1 /\ pc' = "arguments"
        /\ UNCHANGED args /\ Argument = args[next]
        /\ lstErrors' = IF Raises(Argument) /\ ~InErrors(Argument.text)
                        THEN Append(lstErrors, Argument.text) ELSE lstErrors
    BY <1>1, <1>6 DEF Other, Argument, IsMllvm
  <2>2. Bad(next) <=> Raises(Argument)
    BY <1>3, <2>1 DEF Bad, IsMllvm
  <2>3. BadTexts(next + 1) = BadTexts(next) \cup (IF Bad(next) THEN {Argument.text} ELSE {})
    BY <1>1, <2>1, BadTextsNext
  <2>4. InErrors(Argument.text) <=> Argument.text \in Errors
    BY DEF InErrors, Errors
  <2>5. /\ Errors' = BadTexts(next + 1)
        /\ IsFiniteSet(Errors') /\ Cardinality(Errors') = Len(lstErrors')
    <3>1. CASE Raises(Argument) /\ ~InErrors(Argument.text)
      <4>1. Argument.text \in {a.text : a \in Arguments} \cup {"-mllvm"}
        BY <1>1, <2>1
      <4> QED
        BY <2>1, <2>2, <2>3, <2>4, <3>1, <4>1, OneMoreError DEF ErrorInv
    <3>2. CASE ~(Raises(Argument) /\ ~InErrors(Argument.text))
      BY <2>1, <2>2, <2>3, <2>4, <3>2 DEF ErrorInv, Errors
    <3> QED
      BY <3>1, <3>2
  <2>6. BadTexts(next)' = BadTexts(next + 1) /\ EvenRun(next)'
    BY <1>1, <2>1, AfterOther, BadTextsKept
  <2> QED
    BY <2>1, <2>5, <2>6 DEF ErrorInv
<1>7. CASE Compile
  <2>1. /\ next = Len(args) + 1 /\ UNCHANGED <<args, next, lstErrors>>
        /\ pc' = IF lstErrors = << >> THEN "compiled" ELSE "failed"
    BY <1>1, <1>7 DEF Compile
  <2>2. BadTexts(next)' = BadTexts(next) /\ Errors' = Errors
    BY <2>1, BadTextsKept DEF Errors
  <2> QED
    BY <1>1, <2>1, <2>2 DEF ErrorInv
<1>8. CASE UNCHANGED compiling /\ (pc' \in {"compiled", "failed"} => pc' = pc)
  <2>1. BadTexts(next)' = BadTexts(next) /\ Errors' = Errors /\ (EvenRun(next) => EvenRun(next)')
    BY <1>8, BadTextsKept DEF Errors, compiling
  <2> QED
    BY <1>8, <2>1 DEF ErrorInv, compiling
<1> QED
  BY <1>4, <1>5, <1>6, <1>7, <1>8
  DEF Next, ReadResponse, Open, Write, CallLinker, vars

LEMMA ErrorInit == Init => ErrorInv
<1> SUFFICES ASSUME Init PROVE ErrorInv
  OBVIOUS
<1>1. next = 1 /\ lstErrors = << >> /\ pc \notin {"compiled", "failed"}
  BY DEF Init
<1>2. Errors = {} /\ Len(lstErrors) = 0
  BY <1>1 DEF Errors
<1>3. BadTexts(next) = {}
  BY <1>1 DEF BadTexts
<1>4. EvenRun(next)
  BY <1>1 DEF EvenRun, RunOf
<1> QED
  BY <1>1, <1>2, <1>3, <1>4, FS_EmptySet DEF ErrorInv

\* BCC64X is called exactly when no argument is bad, and otherwise every bad
\* argument is named once, for calls of any length: however many "-mllvm" stand
\* in a row, the adapter takes the same ones for values as IsValue.
THEOREM CompilesUnlessBad == Spec => []CompiledUnlessBad
<1>1. TypeOK /\ ErrorInv => CompiledUnlessBad
  <2> SUFFICES ASSUME TypeOK, ErrorInv PROVE CompiledUnlessBad
    OBVIOUS
  <2>1. DOMAIN args = 1..Len(args) /\ Len(args) \in Nat
    BY DEF TypeOK
  <2>2. ASSUME pc \in {"compiled", "failed"}
        PROVE  Errors = {args[i].text : i \in {j \in DOMAIN args : Bad(j)}}
    <3>1. (Len(args) + 1) - 1 = Len(args)
      BY <2>1
    <3> QED
      BY <2>1, <2>2, <3>1 DEF ErrorInv, BadTexts
  <2>3. pc = "compiled" => ~\E i \in DOMAIN args : Bad(i)
    <3>1. lstErrors = << >> => Errors = {}
      BY DEF Errors
    <3> QED
      BY <2>2, <3>1 DEF ErrorInv
  <2> QED
    BY <2>2, <2>3 DEF ErrorInv, Errors, CompiledUnlessBad
<1> QED
  BY <1>1, ErrorInit, ErrorStep, AdapterTypes, PTL DEF Spec

-----------------------------------------------------------------------------
(* The compiler: flags. *)

FlagRecords == [from : Nat, flag : Flags]

LEMMA Concatenated ==
  ASSUME NEW v \in Seq(FlagRecords), NEW w \in Seq(FlagRecords), NEW n, NEW m,
         n = Len(v), m = Len(w)
  PROVE  /\ n \in Nat /\ m \in Nat /\ DOMAIN v = 1..n /\ DOMAIN w = 1..m
         /\ Len(v \o w) = n + m /\ DOMAIN (v \o w) = 1..(n + m)
         /\ \A k \in 1..n : (v \o w)[k] = v[k]
         /\ \A k \in 1..(n + m) : k \in 1..n \/ (k - n \in 1..m /\ (v \o w)[k] = w[k - n])
         /\ \A k \in 1..m : (v \o w)[n + k] = w[k]
<1>1. n \in Nat /\ DOMAIN v = 1..n /\ m \in Nat /\ DOMAIN w = 1..m
  OBVIOUS
<1>2. /\ Len(v \o w) = n + m
      /\ \A k \in 1..(n + m) :
           (v \o w)[k] = IF k <= n THEN v[k] ELSE w[k - n]
  OBVIOUS
<1>3. DOMAIN (v \o w) = 1..Len(v \o w)
  OBVIOUS
<1>4. \A k \in 1..m : n + k \in 1..(n + m) /\ ~(n + k <= n)
                          /\ (n + k) - n = k
  BY <1>1
<1>5. \A k \in 1..n : k \in 1..(n + m) /\ k <= n
  BY <1>1
<1>6. \A k \in 1..(n + m) :
        k \in 1..n \/ (k - n \in 1..m /\ ~(k <= n))
  BY <1>1
<1>7. \A k \in 1..m : (v \o w)[n + k] = w[k]
  BY <1>2, <1>4
<1>8. \A k \in 1..n : (v \o w)[k] = v[k]
  BY <1>2, <1>5
<1>9. \A k \in 1..(n + m) :
        k \in 1..n \/ (k - n \in 1..m /\ (v \o w)[k] = w[k - n])
  BY <1>2, <1>6
<1> QED
  BY <1>1, <1>2, <1>3, <1>7, <1>8, <1>9

\* What Gives says of an argument survives flags of other arguments.
LEMMA GivesKept ==
  ASSUME NEW v \in Seq(FlagRecords), NEW w \in Seq(FlagRecords), NEW i,
         NEW flags \in Seq(Flags),
         Gives(v, i, flags), \A k \in 1..Len(w) : w[k].from # i
  PROVE  Gives(v \o w, i, flags)
<1>1. PICK o \in 0..Len(v) :
        /\ {k \in DOMAIN v : v[k].from = i} = (o + 1)..(o + Len(flags))
        /\ \A k \in DOMAIN flags : v[o + k].flag = flags[k]
  BY DEF Gives
<1>2. PICK n \in Nat, m \in Nat : n = Len(v) /\ m = Len(w)
  OBVIOUS
<1>3. /\ DOMAIN v = 1..n /\ DOMAIN w = 1..m
      /\ Len(v \o w) = n + m /\ DOMAIN (v \o w) = 1..(n + m)
      /\ \A k \in 1..n : (v \o w)[k] = v[k]
      /\ \A k \in 1..(n + m) : k \in 1..n \/ (k - n \in 1..m /\ (v \o w)[k] = w[k - n])
  BY <1>2, Concatenated
<1>4. \A k \in 1..n : k \in 1..(n + m)
  OBVIOUS
<1>5. {k \in DOMAIN (v \o w) : (v \o w)[k].from = i} = {k \in DOMAIN v : v[k].from = i}
  BY <1>2, <1>3, <1>4
<1>6. o \in 0..(n + m)
  BY <1>2
<1>7. ASSUME NEW k \in DOMAIN flags PROVE (v \o w)[o + k].flag = flags[k]
  <2>1. o + k \in (o + 1)..(o + Len(flags))
    OBVIOUS
  <2>2. o + k \in 1..n
    BY <1>1, <1>3, <2>1
  <2> QED
    BY <1>1, <1>3, <2>2
<1> QED
  BY <1>1, <1>3, <1>5, <1>6, <1>7 DEF Gives

\* An argument without a flag gives none, and one whose flags are appended
\* gives these.
LEMMA GivesNone ==
  ASSUME NEW v \in Seq(FlagRecords), NEW i, \A k \in 1..Len(v) : v[k].from # i
  PROVE  Gives(v, i, << >>)
<1>1. {k \in DOMAIN v : v[k].from = i} = (0 + 1)..(0 + Len(<< >>))
  OBVIOUS
<1>2. DOMAIN << >> = {} /\ 0 \in 0..Len(v)
  OBVIOUS
<1> QED
  BY <1>1, <1>2 DEF Gives

LEMMA FromShape ==
  ASSUME NEW i \in Nat, NEW flags \in Seq(Flags)
  PROVE  /\ From(i, flags) \in Seq(FlagRecords) /\ Len(From(i, flags)) = Len(flags)
         /\ \A k \in 1..Len(flags) : From(i, flags)[k].from = i /\ From(i, flags)[k].flag = flags[k]
<1>1. PICK m \in Nat : m = Len(flags) /\ DOMAIN flags = 1..m
  OBVIOUS
<1> DEFINE w == From(i, flags)
<1>2. w = [k \in 1..m |-> [from |-> i, flag |-> flags[k]]]
  BY <1>1 DEF From
<1>3. \A k \in 1..m : flags[k] \in Flags
  BY <1>1
<1>4. \A k \in 1..m : [from |-> i, flag |-> flags[k]] \in FlagRecords
  BY <1>3 DEF FlagRecords
<1>5. w \in [1..m -> FlagRecords]
  BY <1>2, <1>4
<1>6. w \in Seq(FlagRecords) /\ Len(w) = m
  BY <1>5
<1> QED
  BY <1>1, <1>2, <1>6

LEMMA GivesAppended ==
  ASSUME NEW v \in Seq(FlagRecords), NEW i \in Nat, NEW flags \in Seq(Flags),
         \A k \in 1..Len(v) : v[k].from # i
  PROVE  Gives(v \o From(i, flags), i, flags)
<1> DEFINE w == From(i, flags)
<1>1. PICK n \in Nat, m \in Nat : n = Len(v) /\ m = Len(flags)
  OBVIOUS
<1>3. /\ w \in Seq(FlagRecords) /\ Len(w) = m
      /\ \A k \in 1..m : w[k].from = i /\ w[k].flag = flags[k]
  BY <1>1, FromShape
<1> HIDE DEF w
<1>2. n = Len(v) /\ m = Len(w) /\ w \in Seq(FlagRecords)
  BY <1>1, <1>3
<1>4. /\ DOMAIN v = 1..n /\ Len(v \o w) = n + m /\ DOMAIN (v \o w) = 1..(n + m)
      /\ \A k \in 1..n : (v \o w)[k] = v[k]
      /\ \A k \in 1..m : (v \o w)[n + k] = w[k]
  BY <1>2, Concatenated
<1>6. {k \in 1..(n + m) : (v \o w)[k].from = i} = (n + 1)..(n + m)
  <2>1. \A k \in 1..n : (v \o w)[k].from # i
    BY <1>1, <1>4
  <2>2. \A k \in 1..m : (v \o w)[n + k].from = i
    BY <1>3, <1>4
  <2>3. \A k \in (n + 1)..(n + m) : k - n \in 1..m /\ k = n + (k - n) /\ k \in 1..(n + m)
    OBVIOUS
  <2>4. \A k \in (n + 1)..(n + m) : (v \o w)[k].from = i
    BY <2>2, <2>3
  <2>5. \A k \in 1..(n + m) : k \in 1..n \/ k \in (n + 1)..(n + m)
    OBVIOUS
  <2> QED
    BY <2>1, <2>3, <2>4, <2>5
<1>7. n \in 0..Len(v \o w)
  BY <1>4
<1>8. \A k \in DOMAIN flags : (v \o w)[n + k].flag = flags[k]
  BY <1>1, <1>3, <1>4
<1> QED
  BY <1>1, <1>4, <1>6, <1>7, <1>8 DEF Gives, w

LEMMA AppendedShape ==
  ASSUME NEW v \in Seq(FlagRecords), NEW f \in Seq(FlagRecords), NEW i,
         \A k \in 1..Len(f) : f[k].from = i
  PROVE  /\ Len(v) \in Nat /\ DOMAIN v = 1..Len(v)
         /\ Len(v \o f) \in Nat /\ DOMAIN (v \o f) = 1..Len(v \o f)
         /\ \A k \in DOMAIN (v \o f) : \/ k \in DOMAIN v /\ (v \o f)[k] = v[k]
                                       \/ k > Len(v) /\ (v \o f)[k].from = i
<1>1. PICK n \in Nat, m \in Nat : n = Len(v) /\ m = Len(f)
  OBVIOUS
<1>2. /\ DOMAIN v = 1..n /\ DOMAIN (v \o f) = 1..(n + m) /\ Len(v \o f) = n + m
      /\ \A k \in 1..n : (v \o f)[k] = v[k]
      /\ \A k \in 1..(n + m) : k \in 1..n \/ (k - n \in 1..m /\ (v \o f)[k] = f[k - n])
  BY <1>1, Concatenated
<1>3. ASSUME NEW k \in 1..(n + m)
      PROVE  \/ k \in 1..n /\ (v \o f)[k] = v[k]
             \/ k > n /\ (v \o f)[k].from = i
  <2>1. CASE k \in 1..n
    BY <1>2, <2>1
  <2>2. CASE k - n \in 1..m /\ (v \o f)[k] = f[k - n]
    <3>1. f[k - n].from = i
      BY <1>1, <2>2
    <3>2. k > n
      BY <2>2
    <3> QED
      BY <2>2, <3>1, <3>2
  <2> QED
    BY <1>2, <2>1, <2>2
<1> QED
  BY <1>1, <1>2, <1>3

LEMMA FlagsInOrder ==
  ASSUME NEW v \in Seq(FlagRecords), NEW i \in Nat, NEW flags \in Seq(Flags),
         i = 0 \/ \A k \in DOMAIN v : v[k].from <= i,
         \A j, k \in DOMAIN v : j < k /\ v[k].from # 0 => v[j].from <= v[k].from
  PROVE  LET w == v \o From(i, flags)
         IN  /\ \A k \in DOMAIN w : w[k].from = i \/ \E j \in DOMAIN v : w[k] = v[j]
             /\ \A j, k \in DOMAIN w : j < k /\ w[k].from # 0 => w[j].from <= w[k].from
<1> DEFINE w == v \o From(i, flags)
<1>0. From(i, flags) \in Seq(FlagRecords)
      /\ \A k \in 1..Len(From(i, flags)) : From(i, flags)[k].from = i
  BY FromShape
<1>1. PICK n \in Nat, l \in Nat :
        /\ n = Len(v) /\ DOMAIN v = 1..n /\ DOMAIN w = 1..l
        /\ \A k \in DOMAIN w : \/ k \in DOMAIN v /\ w[k] = v[k]
                               \/ k > n /\ w[k].from = i
  <2>1. /\ Len(v) \in Nat /\ DOMAIN v = 1..Len(v)
        /\ Len(v \o From(i, flags)) \in Nat
        /\ DOMAIN (v \o From(i, flags)) = 1..Len(v \o From(i, flags))
        /\ \A k \in DOMAIN (v \o From(i, flags)) :
             \/ k \in DOMAIN v /\ (v \o From(i, flags))[k] = v[k]
             \/ k > Len(v) /\ (v \o From(i, flags))[k].from = i
    BY <1>0, AppendedShape, Zenon
  <2> QED
    BY <2>1, Zenon
<1> HIDE DEF w
<1>2. ASSUME NEW j \in DOMAIN w, NEW k \in DOMAIN w, j < k, w[k].from # 0
      PROVE  w[j].from <= w[k].from
  <2>1. CASE k \in DOMAIN v /\ w[k] = v[k]
    <3>1. j \in DOMAIN v /\ w[j] = v[j]
      BY <1>1, <1>2, <2>1
    <3> QED
      BY <1>2, <2>1, <3>1
  <2>2. CASE w[k].from = i
    <3>1. \A x \in DOMAIN v : v[x].from <= i
      BY <1>2, <2>2
    <3> QED
      BY <1>1, <2>2, <3>1
  <2> QED
    BY <1>1, <1>2, <2>1, <2>2
<1> QED
  BY <1>1, <1>2 DEF w

\* The arguments before next have given what is their own, in order, and the
\* others have given nothing yet; the additions come last.
FlagInv ==
  /\ \A i \in 1..(next - 1) : ~Bad(i) => Gives(vecArguments, i, Own(i))
  /\ \A k \in DOMAIN vecArguments :
       /\ vecArguments[k].from < next
       /\ pc = "arguments" => vecArguments[k].from # 0
  /\ \A j, k \in DOMAIN vecArguments :
       j < k /\ vecArguments[k].from # 0 => vecArguments[j].from <= vecArguments[k].from

LEMMA OwnType == TypeOK => \A i \in 1..Len(args) : Own(i) \in Seq(Flags)
<1> SUFFICES ASSUME TypeOK, NEW i \in 1..Len(args) PROVE Own(i) \in Seq(Flags)
  OBVIOUS
<1>1. \A j \in 1..Len(args) : args[j] \in Arguments
  BY DEF TypeOK
<1>2. Translate(args[i]) \in Seq(Flags)
  BY <1>1, TranslateType
<1>3. ASSUME i < Len(args) PROVE <<"-mllvm", args[i + 1].text>> \in Seq(Flags)
  <2>1. i + 1 \in 1..Len(args)
    BY <1>3 DEF TypeOK
  <2>2. args[i + 1].text \in Flags /\ "-mllvm" \in Flags
    BY <1>1, <2>1 DEF Flags
  <2> QED
    BY <2>2
<1>4. << >> \in Seq(Flags)
  OBVIOUS
<1> QED
  BY <1>2, <1>3, <1>4 DEF Own

LEMMA FlagsTypedNat == TypeOK /\ FlagsTyped => vecArguments \in Seq(FlagRecords)
<1> SUFFICES ASSUME TypeOK, FlagsTyped PROVE vecArguments \in Seq(FlagRecords)
  OBVIOUS
<1> DEFINE R == [from : 0..Len(args), flag : Flags]
<1>0. vecArguments \in Seq(R)
  BY DEF FlagsTyped
<1>2. \A r \in R : r \in FlagRecords
  BY DEF FlagRecords
<1> HIDE DEF R
<1>1. PICK n \in Nat : n = Len(vecArguments) /\ vecArguments \in [1..n -> R]
  BY <1>0
<1>3. vecArguments \in [1..n -> FlagRecords]
  BY <1>1, <1>2
<1> QED
  BY <1>3

\* The flags of argument next, and with it of its value.
LEMMA OneMoreArgument ==
  ASSUME TypeOK, FlagsTyped, FlagInv, pc = "arguments", next \in 1..Len(args),
         NEW flags \in Seq(Flags), ~Bad(next) => flags = Own(next),
         NEW n \in {next + 1, next + 2}, n = next + 2 => Own(next + 1) = << >>,
         UNCHANGED args, next' = n, vecArguments' = vecArguments \o From(next, flags)
  PROVE  FlagInv'
<1>1. PICK v \in Seq(FlagRecords), i \in Nat \ {0} : v = vecArguments /\ i = next
  BY FlagsTypedNat DEF TypeOK
<1> DEFINE w == v \o From(i, flags)
<1>2. \A k \in DOMAIN v : v[k].from < i /\ v[k].from # 0 /\ v[k].from \in Nat
  <2>1. \A k \in DOMAIN v : v[k] \in FlagRecords
    OBVIOUS
  <2> QED
    BY <1>1, <2>1 DEF FlagInv, FlagRecords
<1>3. /\ \A k \in DOMAIN w : w[k].from = i \/ \E j \in DOMAIN v : w[k] = v[j]
      /\ \A j, k \in DOMAIN w : j < k /\ w[k].from # 0 => w[j].from <= w[k].from
  <2>1. \A j, k \in DOMAIN v : j < k /\ v[k].from # 0 => v[j].from <= v[k].from
    BY <1>1, Zenon DEF FlagInv
  <2>2. i \in Nat /\ \A k \in DOMAIN v : v[k].from <= i
    BY <1>2
  <2> QED
    BY <2>1, <2>2, FlagsInOrder, Zenon DEF w
<1>4. From(i, flags) \in Seq(FlagRecords)
      /\ \A k \in 1..Len(From(i, flags)) : From(i, flags)[k].from = i
  BY FromShape
<1>5. w \in Seq(FlagRecords)
  BY <1>4
<1> HIDE DEF w
<1>6. \A k \in DOMAIN w : w[k].from <= i /\ w[k].from # 0
  <2> SUFFICES ASSUME NEW k \in DOMAIN w PROVE w[k].from <= i /\ w[k].from # 0
    OBVIOUS
  <2>1. CASE w[k].from = i
    BY <2>1
  <2>2. ASSUME NEW j \in DOMAIN v, w[k] = v[j] PROVE w[k].from <= i /\ w[k].from # 0
    BY <1>2, <2>2
  <2> QED
    BY <1>3, <2>1, <2>2
<1>7. ASSUME NEW j \in 1..(n - 1), ~Bad(j) PROVE Gives(w, j, Own(j))
  <2>1. CASE j < i
    <3>1. Gives(v, j, Own(j)) /\ Own(j) \in Seq(Flags)
      BY <1>1, <1>7, <2>1, OwnType DEF FlagInv, TypeOK
    <3>2. \A k \in 1..Len(From(i, flags)) : From(i, flags)[k].from # j
      BY <1>4, <2>1
    <3> QED
      BY <1>4, <3>1, <3>2, GivesKept DEF w
  <2>2. CASE j = i
    <3>1. flags = Own(j) /\ \A k \in 1..Len(v) : v[k].from # i
      BY <1>1, <1>2, <1>7, <2>2
    <3>2. Gives(w, i, flags)
      BY <3>1, GivesAppended DEF w
    <3> QED
      BY <2>2, <3>1, <3>2
  <2>3. CASE j = i + 1
    <3>1. Own(j) = << >>
      BY <1>1, <1>7, <2>3
    <3>2. \A k \in 1..Len(w) : w[k].from # j
      BY <1>5, <1>6, <2>3
    <3> QED
      BY <1>5, <3>1, <3>2, GivesNone
  <2> QED
    BY <1>1, <1>7, <2>1, <2>2, <2>3
<1>8. next' = n /\ vecArguments' = w /\ i < n
  BY <1>1 DEF w
<1>9. \A j : (Bad(j) <=> Bad(j)') /\ Own(j)' = Own(j)
  BY DEF Bad, Raises, IsValue, Own, Dropped, Translate
<1>10. \A k \in DOMAIN w : w[k].from < n
  BY <1>1, <1>2, <1>3, <1>6
<1> QED
  BY <1>3, <1>6, <1>7, <1>8, <1>9, <1>10, Zenon DEF FlagInv

LEMMA FlagStep == TypeOK /\ FlagsTyped /\ ErrorInv /\ FlagInv /\ [Next]_vars => FlagInv'
<1> SUFFICES ASSUME TypeOK, FlagsTyped, ErrorInv, FlagInv, [Next]_vars PROVE FlagInv'
  OBVIOUS
<1>1. /\ args \in Seq(Arguments) /\ Len(args) \in Nat /\ next \in Nat \ {0}
      /\ next \in 1..Len(args) + 1
      /\ \A i \in 1..Len(args) : args[i] \in Arguments
  BY DEF TypeOK
<1>2. next <= Len(args) => ~IsValue(next)
  BY <1>1, EvenIsNoValue DEF ErrorInv
<1>3. << >> \in Seq(Flags) /\ vecArguments \o From(next, << >>) = vecArguments
  <2>1. From(next, << >>) = << >>
    BY DEF From
  <2> QED
    BY <2>1, FlagsTypedNat
<1>0. next + 1 \in {next + 1, next + 2} /\ next + 1 # next + 2
  BY <1>1
<1>4. CASE Mllvm
  <2>1. /\ next < Len(args) /\ IsMllvm(next) /\ next' = next + 2 /\ pc = "arguments"
        /\ UNCHANGED args /\ next \in 1..Len(args)
    BY <1>1, <1>4 DEF Mllvm, Argument, IsMllvm
  <2>2. IsValue(next + 1) /\ Own(next + 1) = << >>
    BY <1>1, <2>1, ValueFollows DEF ErrorInv, Own
  <2>3. CASE args[next + 1].kind = "pick"
    <3>1. vecArguments' = vecArguments \o From(next, << >>)
      BY <1>3, <1>4, <2>3 DEF Mllvm
    <3>2. Own(next) = << >>
      BY <1>2, <2>1, <2>3 DEF Own, Dropped, IsMllvm
    <3> QED
      BY <1>3, <2>1, <2>2, <3>1, <3>2, OneMoreArgument
  <2>4. CASE args[next + 1].kind # "pick"
    <3>1. vecArguments' = vecArguments \o From(next, <<"-mllvm", args[next + 1].text>>)
      BY <1>4, <2>4 DEF Mllvm
    <3>2. Own(next) = <<"-mllvm", args[next + 1].text>>
      BY <1>2, <2>1, <2>4 DEF Own, Dropped, IsMllvm
    <3>3. Own(next) \in Seq(Flags)
      BY <2>1, OwnType
    <3> QED
      BY <2>1, <2>2, <3>1, <3>2, <3>3, OneMoreArgument
  <2> QED
    BY <2>3, <2>4
<1>5. CASE MllvmLast
  <2>1. /\ next = Len(args) /\ IsMllvm(next) /\ next' = next + 1 /\ pc = "arguments"
        /\ UNCHANGED <<args, vecArguments>> /\ next \in 1..Len(args)
    BY <1>1, <1>5 DEF MllvmLast, Argument, IsMllvm
  <2>2. Bad(next)
    BY <1>2, <2>1 DEF Bad, IsMllvm
  <2>3. vecArguments' = vecArguments \o From(next, << >>)
    BY <1>3, <2>1
  <2> QED
    BY <1>0, <1>3, <2>1, <2>2, <2>3, OneMoreArgument, Zenon
<1>6. CASE Other
  <2>1. /\ next \in 1..Len(args) /\ ~IsMllvm(next) /\ next' = next + 1 /\ pc = "arguments"
        /\ UNCHANGED args /\ Argument = args[next]
    BY <1>1, <1>6 DEF Other, Argument, IsMllvm
  <2>2. CASE Raises(Argument)
    <3>1. Bad(next) /\ vecArguments' = vecArguments \o From(next, << >>)
      BY <1>2, <1>3, <1>6, <2>1, <2>2 DEF Bad, Other
    <3> QED
      BY <1>0, <1>3, <2>1, <3>1, OneMoreArgument, Zenon
  <2>3. CASE ~Raises(Argument)
    <3>1. vecArguments' = vecArguments \o From(next, Translate(Argument))
      BY <1>6, <2>3 DEF Other
    <3>2. Own(next) = Translate(Argument)
      <4>1. CASE args[next].kind = "silent"
        BY <1>2, <2>1, <4>1 DEF Own, Dropped, Translate
      <4>2. CASE args[next].kind # "silent"
        BY <1>2, <2>1, <4>2 DEF Own, Dropped, IsMllvm
      <4> QED
        BY <4>1, <4>2
    <3>3. Own(next) \in Seq(Flags)
      BY <2>1, OwnType
    <3> QED
      BY <1>0, <2>1, <3>1, <3>2, <3>3, OneMoreArgument, Zenon
  <2> QED
    BY <2>2, <2>3
<1>7. CASE Compile
  <2>1. /\ next' = next /\ UNCHANGED args /\ pc' # "arguments"
        /\ vecArguments' = vecArguments \o From(0, Additions)
    BY <1>7 DEF Compile
  <2>2. PICK v \in Seq(FlagRecords) : v = vecArguments
    BY FlagsTypedNat
  <2> DEFINE w == v \o From(0, Additions)
  <2>3. \A j, k \in DOMAIN v : j < k /\ v[k].from # 0 => v[j].from <= v[k].from
    BY <2>2, Zenon DEF FlagInv
  <2>4. /\ \A k \in DOMAIN w : w[k].from = 0 \/ \E j \in DOMAIN v : w[k] = v[j]
        /\ \A j, k \in DOMAIN w : j < k /\ w[k].from # 0 => w[j].from <= w[k].from
    BY <2>3, AdditionsType, FlagsInOrder, Zenon DEF w
  <2>5. From(0, Additions) \in Seq(FlagRecords)
        /\ \A k \in 1..Len(From(0, Additions)) : From(0, Additions)[k].from = 0
    BY AdditionsType, FromShape
  <2>6. ASSUME NEW i \in 1..(next - 1), ~Bad(i) PROVE Gives(w, i, Own(i))
    <3>1. Gives(v, i, Own(i)) /\ i # 0
      BY <1>1, <2>2, <2>6 DEF FlagInv
    <3>2. Own(i) \in Seq(Flags)
      BY <1>1, OwnType
    <3> QED
      BY <2>5, <3>1, <3>2, GivesKept DEF w
  <2>7. \A k \in DOMAIN w : w[k].from < next
    <3> SUFFICES ASSUME NEW k \in DOMAIN w PROVE w[k].from < next
      OBVIOUS
    <3>1. CASE w[k].from = 0
      BY <1>1, <3>1
    <3>2. ASSUME NEW j \in DOMAIN v, w[k] = v[j] PROVE w[k].from < next
      BY <2>2, <3>2 DEF FlagInv
    <3> QED
      BY <2>4, <3>1, <3>2
  <2>8. \A j : (Bad(j) <=> Bad(j)') /\ Own(j)' = Own(j)
    BY <2>1 DEF Bad, Raises, IsValue, Own, Dropped, Translate
  <2>9. vecArguments' = w
    BY <2>1, <2>2 DEF w
  <2> HIDE DEF w
  <2> QED
    BY <2>1, <2>4, <2>6, <2>7, <2>8, <2>9, Zenon DEF FlagInv
<1>8. CASE UNCHANGED compiling /\ (pc' = "arguments" => pc = "arguments")
  <2>1. \A j : (Bad(j) <=> Bad(j)') /\ Own(j)' = Own(j)
    BY <1>8 DEF Bad, Raises, IsValue, Own, Dropped, Translate, compiling
  <2>2. next' = next /\ vecArguments' = vecArguments
    BY <1>8 DEF compiling
  <2> QED
    BY <1>8, <2>1, <2>2, Zenon DEF FlagInv
<1> QED
  BY <1>4, <1>5, <1>6, <1>7, <1>8
  DEF Next, ReadResponse, Open, Write, CallLinker, vars

\* Only what is left out on purpose, or stands behind -mllvm, gives no flags.
LEMMA GoodGivesFlags ==
  TypeOK => \A i \in 1..Len(args) : ~Bad(i) /\ Own(i) = << >> => Dropped(i) \/ IsValue(i)
<1> SUFFICES ASSUME TypeOK, NEW i \in 1..Len(args), ~Bad(i), ~Dropped(i), ~IsValue(i)
             PROVE  Own(i) # << >>
  OBVIOUS
<1>1. args[i] \in Arguments /\ IsArgument(args[i])
  BY ArgumentsAssumption DEF TypeOK
<1>2. ~Raises(args[i])
  BY DEF Bad
<1>3. args[i].kind # "silent"
  BY DEF Dropped
<1>4. Translate(args[i]) # << >>
  BY <1>1, <1>2, <1>3 DEF Translate, Raises, IsArgument
<1> QED
  BY <1>4 DEF Own

\* No flag is dropped in silence, for calls of any length: the flags that BCC64X
\* is called with are, argument by argument and in their order, exactly what the
\* arguments give, whatever stands in pairs with "-mllvm".
THEOREM NoFlagIsDropped == Spec => []NothingDropped
<1>1. Init => FlagInv
  <2> SUFFICES ASSUME Init PROVE FlagInv
    OBVIOUS
  <2>1. next = 1 /\ vecArguments = << >> /\ DOMAIN vecArguments = {}
    BY DEF Init
  <2> QED
    BY <2>1 DEF FlagInv
<1>2. Spec => []FlagInv
  BY <1>1, ErrorInit, ErrorStep, FlagStep, AdapterTypes, PTL DEF Spec
<1>3. TypeOK /\ ErrorInv /\ FlagInv /\ CompiledUnlessBad => NothingDropped
  <2> SUFFICES ASSUME TypeOK, ErrorInv, FlagInv, CompiledUnlessBad, pc = "compiled"
               PROVE  NothingDropped
    BY DEF NothingDropped
  <2>1. DOMAIN args = 1..Len(args) /\ Len(args) \in Nat /\ next = Len(args) + 1
    BY DEF TypeOK, ErrorInv
  <2>2. \A i \in DOMAIN args : ~Bad(i)
    BY DEF CompiledUnlessBad
  <2>3. 1..(next - 1) = DOMAIN args
    BY <2>1
  <2>4. \A i \in DOMAIN args : /\ Gives(vecArguments, i, Own(i))
                               /\ Own(i) = << >> => Dropped(i) \/ IsValue(i)
    BY <2>1, <2>2, <2>3, GoodGivesFlags, Zenon DEF FlagInv
  <2> QED
    BY <2>4, Zenon DEF FlagInv, NothingDropped
<1> QED
  BY <1>2, <1>3, ErrorInit, ErrorStep, AdapterTypes, CompilesUnlessBad, PTL DEF Spec
=============================================================================
