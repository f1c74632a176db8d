-------------------------- MODULE ArgumentAdapter --------------------------
(***************************************************************************)
(* admin/programs/bcc64x/gn_argument_adapter.py: the program that GN calls *)
(* in place of the compiler and of the linker, and that calls BCC64X.      *)
(*                                                                         *)
(* As a compiler it translates its arguments one by one, collects every    *)
(* error, and calls BCC64X only without one.  As a linker it translates    *)
(* the response file that GN has written, writes the result beside it, and *)
(* calls BCC64X with that.  GN writes the response file anew for each call *)
(* and reads nothing else; a call may be killed and repeated.              *)
(*                                                                         *)
(* An argument is a record of its kind, its text and the flags that the    *)
(* tables and the prefix rules of Translate give for it.  "mapped" are all *)
(* options that become one or more flags, "silent" the documented ones     *)
(* that become none, "slash" all other options of MSVC.                    *)
(***************************************************************************)
EXTENDS Naturals, Sequences, FiniteSets

CONSTANTS
  Arguments,   \* the arguments GN may pass
  MaxArguments,\* how many it passes at most (bound of the model)
  Dated,       \* flags that fix a predefined date or time
  Skia,        \* flags that name the configuration of Skia
  Hsw,         \* flags that name the source file SkOpts_hsw.cpp
  Responses,   \* contents of a response file
  Refused,     \* contents that TranslateLinkResponse does not accept
  MaxCalls     \* how often the linker is called (bound of the model)

VARIABLES
  pc,
  args,         \* sys.argv[2:]
  next,         \* the next argument
  vecArguments, \* for each flag the argument it comes from, 0 for an addition
  lstErrors,    \* for each error the text of the argument it names
  response,     \* the response file
  strTranslated,\* the translation in memory
  translated,   \* the file <response>.bcc64x
  calls         \* calls of the linker so far

compiling == <<args, next, vecArguments, lstErrors>>
linking == <<response, strTranslated, translated, calls>>
vars == <<pc, compiling, linking>>

Kinds == {"mllvm", "pick", "warning", "mapped", "silent", "static", "slash", "plain"}

IsArgument(a) ==
  /\ a.kind \in Kinds /\ a.flags \in Seq(STRING)
  /\ a.kind = "mapped" => a.flags # << >>
  /\ a.kind = "mllvm" <=> a.text = "-mllvm"

ASSUME ArgumentsAssumption == \A a \in Arguments : IsArgument(a)
ASSUME BoundsAssumption == MaxArguments \in Nat /\ MaxCalls \in Nat
ASSUME RefusedAssumption == Refused \subseteq Responses

Nothing == <<"nothing">>
Torn == <<"torn">>
Translation(r) == <<"translation", r>>

-----------------------------------------------------------------------------
(* The compiler: Main. *)

\* Translate raises ValueError.
Raises(a) == \/ a.kind \in {"static", "slash"}
             \/ a.kind = "warning" /\ a.flags = << >>

\* What Translate returns; an argument of another compiler is kept.
Translate(a) ==
  CASE a.kind \in {"warning", "mapped"} -> a.flags
    [] a.kind = "silent" -> << >>
    [] OTHER -> <<a.text>>

From(i, flags) == [k \in DOMAIN flags |-> [from |-> i, flag |-> flags[k]]]

Argument == args[next]

\* Plausible bug: what stands behind -mllvm is an argument like any other.
MllvmAlone ==
  /\ pc = "arguments"
  /\ next <= Len(args)
  /\ Argument.kind = "mllvm"
  /\ vecArguments' = vecArguments \o From(next, <<"-mllvm">>)
  /\ next' = next + 1
  /\ UNCHANGED <<pc, args, lstErrors, linking>>

\* -mllvm takes the next argument, whatever it is, and drops one of its own.
Mllvm ==
  /\ pc = "arguments"
  /\ next < Len(args)
  /\ Argument.kind = "mllvm"
  /\ vecArguments' = IF args[next + 1].kind = "pick" THEN vecArguments
                     ELSE vecArguments \o From(next, <<"-mllvm", args[next + 1].text>>)
  /\ next' = next + 2
  /\ UNCHANGED <<pc, args, lstErrors, linking>>

\* Plausible bug: an -mllvm at the end is dropped.
MllvmLastDropped ==
  /\ pc = "arguments"
  /\ next = Len(args)
  /\ Argument.kind = "mllvm"
  /\ next' = next + 1
  /\ UNCHANGED <<pc, args, vecArguments, lstErrors, linking>>

MllvmLast ==
  /\ pc = "arguments"
  /\ next = Len(args)
  /\ Argument.kind = "mllvm"
  /\ lstErrors' = Append(lstErrors, "-mllvm")
  /\ next' = next + 1
  /\ UNCHANGED <<pc, args, vecArguments, linking>>

InErrors(t) == \E k \in DOMAIN lstErrors : lstErrors[k] = t

\* All others; the same error is reported once.
Other ==
  /\ pc = "arguments"
  /\ next <= Len(args)
  /\ Argument.kind # "mllvm"
  /\ IF Raises(Argument)
     THEN /\ vecArguments' = vecArguments
          /\ lstErrors' = IF InErrors(Argument.text) THEN lstErrors
                          ELSE Append(lstErrors, Argument.text)
     ELSE /\ vecArguments' = vecArguments \o From(next, Translate(Argument))
          /\ lstErrors' = lstErrors
  /\ next' = next + 1
  /\ UNCHANGED <<pc, args, linking>>

HasFlag(S) == \E k \in DOMAIN vecArguments : vecArguments[k].flag \in S

\* The flags that are added for what the arguments ask for.
Additions ==
  (IF HasFlag(Dated) THEN <<"-Wno-builtin-macro-redefined">> ELSE << >>)
  \o (IF HasFlag(Skia) THEN <<"-D__forceinline">> ELSE << >>)
  \o (IF HasFlag(Hsw) /\ ~HasFlag({"-mfma"}) THEN <<"-mfma">> ELSE << >>)

Compile ==
  /\ pc = "arguments"
  /\ next > Len(args)
  /\ vecArguments' = vecArguments \o From(0, Additions)
  /\ pc' = IF lstErrors = << >> THEN "compiled" ELSE "failed"
  /\ UNCHANGED <<args, next, lstErrors, linking>>

-----------------------------------------------------------------------------
(* The linker: RunLinkResponse. *)

\* read_text and TranslateLinkResponse; either may raise.
ReadResponse ==
  /\ pc = "link"
  /\ \/ response \notin Refused /\ strTranslated' = Translation(response) /\ pc' = "write"
     \/ strTranslated' = strTranslated /\ pc' = "linkFailed"
  /\ UNCHANGED <<compiling, response, translated, calls>>

\* Plausible bug: a translation that is there already is used.
OpenKept ==
  /\ pc = "write"
  /\ IF translated = Nothing THEN translated' = Torn /\ pc' = "writing"
                             ELSE translated' = translated /\ pc' = "linked"
  /\ UNCHANGED <<compiling, response, strTranslated, calls>>

\* write_text empties the file and fills it; either may raise.
Open ==
  /\ pc = "write"
  /\ \/ translated' = Torn /\ pc' = "writing"
     \/ translated' = translated /\ pc' = "linkFailed"
  /\ UNCHANGED <<compiling, response, strTranslated, calls>>

Write ==
  /\ pc = "writing"
  /\ \/ translated' = strTranslated /\ pc' = "linked"
     \/ translated' = translated /\ pc' = "linkFailed"
  /\ UNCHANGED <<compiling, response, strTranslated, calls>>

\* GN writes the response file and calls again; the call before has ended,
\* with or without success, or has been killed at any point.
CallLinker ==
  /\ pc \in {"link", "write", "writing", "linked", "linkFailed"}
  /\ calls < MaxCalls
  /\ calls' = calls + 1
  /\ response' \in Responses
  /\ pc' = "link"
  /\ strTranslated' = Nothing
  /\ UNCHANGED <<compiling, translated>>

-----------------------------------------------------------------------------
Init ==
  /\ pc \in {"arguments", "link"}
  /\ args \in UNION {[1..n -> Arguments] : n \in 1..MaxArguments}
  /\ next = 1
  /\ vecArguments = << >>
  /\ lstErrors = << >>
  /\ response \in Responses
  /\ strTranslated = Nothing
  /\ translated = Nothing
  /\ calls = 0
  /\ pc = "link" => Len(args) = 1

Next ==
  \/ Mllvm \/ MllvmLast \/ Other \/ Compile
  \/ ReadResponse \/ Open \/ Write \/ CallLinker

Spec == Init /\ [][Next]_vars

-----------------------------------------------------------------------------
(* Properties. *)

\* Types.
TypeOK ==
  /\ pc \in {"arguments", "compiled", "failed", "link", "write", "writing", "linked",
             "linkFailed"}
  /\ args \in Seq(Arguments)
  /\ next \in 1..Len(args) + 1
  /\ \A k \in DOMAIN vecArguments : vecArguments[k].from \in 0..Len(args)
  /\ lstErrors \in Seq({a.text : a \in Arguments} \cup {"-mllvm"})
  /\ response \in Responses
  /\ strTranslated \in {Translation(r) : r \in Responses} \cup {Nothing}
  /\ translated \in {Translation(r) : r \in Responses} \cup {Nothing, Torn}
  /\ calls \in 0..MaxCalls

\* Argument i is the value of an -mllvm: the arguments "-mllvm" that stand
\* directly before it are odd in number.
IsValue(i) ==
  \E n \in 1..i-1 :
    /\ n % 2 = 1
    /\ \A k \in i-n..i-1 : args[k].kind = "mllvm"
    /\ i - n = 1 \/ args[i - n - 1].kind # "mllvm"

\* An argument that must not reach the compiler.
Bad(i) ==
  /\ ~IsValue(i)
  /\ Raises(args[i]) \/ (args[i].kind = "mllvm" /\ i = Len(args))

\* BCC64X is called exactly when no argument is bad, and otherwise every bad
\* argument is named, once.
CompiledUnlessBad ==
  /\ pc = "compiled" => ~\E i \in DOMAIN args : Bad(i)
  /\ pc = "failed" =>
       /\ {lstErrors[k] : k \in DOMAIN lstErrors} = {args[i].text : i \in {j \in DOMAIN args : Bad(j)}}
       /\ Cardinality({lstErrors[k] : k \in DOMAIN lstErrors}) = Len(lstErrors)

\* What is left out on purpose: the documented options, and the one option of
\* the back end with the -mllvm before it.
Dropped(i) ==
  \/ ~IsValue(i) /\ args[i].kind = "silent"
  \/ IsValue(i) /\ args[i].kind = "pick"
  \/ ~IsValue(i) /\ args[i].kind = "mllvm" /\ i < Len(args) /\ args[i + 1].kind = "pick"

\* What argument i gives.
Own(i) ==
  CASE Dropped(i) \/ IsValue(i) -> << >>
    [] ~Dropped(i) /\ ~IsValue(i) /\ args[i].kind = "mllvm" /\ i < Len(args) ->
         <<"-mllvm", args[i + 1].text>>
    [] OTHER -> Translate(args[i])

\* The flags that come from i stand in v side by side, and are these.
Gives(v, i, flags) ==
  \E o \in 0..Len(v) :
    /\ {k \in DOMAIN v : v[k].from = i} = (o + 1)..(o + Len(flags))
    /\ \A k \in DOMAIN flags : v[o + k].flag = flags[k]

\* No flag is dropped in silence ("It never silently drops flags"): each
\* argument gives flags, in the order of the arguments, unless it is one of
\* those that are left out on purpose; and no value of -mllvm is translated.
NothingDropped ==
  pc = "compiled" =>
    /\ \A i \in DOMAIN args :
         /\ Gives(vecArguments, i, Own(i))
         /\ Own(i) = << >> => Dropped(i) \/ IsValue(i)
    /\ \A j, k \in DOMAIN vecArguments :
         j < k /\ vecArguments[k].from # 0 => vecArguments[j].from <= vecArguments[k].from

\* The linker reads the translation of this call's response file, never what
\* an earlier call has left, whole or torn.
LinkedFresh ==
  /\ TypeOK
  /\ pc = "linked" => response \notin Refused /\ translated = Translation(response)
=============================================================================
