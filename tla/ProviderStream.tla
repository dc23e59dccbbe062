---------------------------- MODULE ProviderStream ----------------------------
(***************************************************************************)
(* The adapter between a chat run and a model provider (ai/provider.py):   *)
(* a streamed answer put together from fragments, and the one retry        *)
(* without streaming.                                                      *)
(*                                                                         *)
(* The provider is external: it answers each request as it likes, sends    *)
(* text and calls in any order and fragments of any size, and may break    *)
(* off.  Text is a sequence of deltas, the arguments of a call a sequence  *)
(* of characters; an adapter lives as long as its chat run.                *)
(***************************************************************************)
EXTENDS Naturals, Sequences, SequencesExt

CONSTANTS
    Text,       \* deltas of text
    Char,       \* characters of arguments
    Answers,    \* what a provider may answer: [text, calls, named]
    Turns       \* bound: requests of one chat run

ProviderAssumption ==
    /\ Turns \in Nat \ {0}
    /\ Answers \subseteq [text : Seq(Text), calls : Seq(Seq(Char)), named : BOOLEAN]

\* How a provider fragments arguments: each fragment once, each fragment twice, or each
\* with everything before it.
Manners == {"increments", "twice", "so far"}

VARIABLES
    pc,         \* "idle", "stream", "whole", "done" or "failed"
    turn,       \* requests of this run
    manner,     \* of the provider
    answer,     \* what the provider means to say in this attempt
    upto,       \* how much of each call's arguments it has sent
    text,       \* text_parts
    parts,      \* tool_parts, by index: the arguments put together
    emitted,    \* _stream_emitted
    shown,      \* what on_delta was given during this request
    echoed,     \* an increment looked like a repetition
    result      \* the last ChatResult

vars    == <<pc, turn, manner, answer, upto, text, parts, emitted, shown, echoed, result>>
attempt == <<answer, upto, text, parts, echoed>>

Nothing == [text |-> <<>>, calls |-> <<>>, named |-> TRUE]

\* A fresh attempt, of which nothing has arrived.
Attempt(a) ==
    /\ answer' = a /\ upto' = [i \in DOMAIN a.calls |-> 0]
    /\ text' = <<>> /\ parts' = <<>> /\ echoed' = FALSE

-----------------------------------------------------------------------------
(* Fragments. *)

\* As if providers that repeat everything so far were unknown.
MergeJoined(current, fragment) ==
    IF IsSuffix(fragment, current) THEN current ELSE current \o fragment
Merge(current, fragment) ==
    CASE IsPrefix(current, fragment) -> fragment
      [] ~IsPrefix(current, fragment) /\ IsSuffix(fragment, current) -> current
      [] OTHER -> current \o fragment

\* What the adapter cannot tell from a repetition.
LooksRepeated(current, fragment) ==
    /\ current # <<>> /\ fragment # <<>>
    /\ IsPrefix(current, fragment) \/ IsSuffix(fragment, current)

Held(i) == IF i \in DOMAIN parts THEN parts[i] ELSE <<>>

\* Whether the arguments decode: nothing is an empty object, a text broken off is no JSON,
\* and what is neither may be anything.
Decodes(i) ==
    LET arguments == answer.calls[i]
    IN IF parts[i] \in {<<>>, arguments} THEN {TRUE}
       ELSE IF IsPrefix(parts[i], arguments) THEN {FALSE} ELSE BOOLEAN

-----------------------------------------------------------------------------
(* A request. *)

Init ==
    /\ pc = "idle" /\ turn = 0 /\ manner = "increments" /\ answer = Nothing /\ upto = <<>>
    /\ text = <<>> /\ parts = <<>> /\ emitted = FALSE /\ shown = <<>> /\ echoed = FALSE
    /\ result = Nothing

Complete ==
    /\ pc \in {"idle", "done"} /\ turn < Turns
    /\ pc' = "stream" /\ turn' = turn + 1 /\ emitted' = FALSE /\ shown' = <<>>
    /\ manner' \in Manners /\ \E a \in Answers : Attempt(a)
    /\ UNCHANGED result

Content ==
    /\ pc = "stream" /\ Len(text) < Len(answer.text)
    /\ LET delta == answer.text[Len(text) + 1]
       IN text' = Append(text, delta) /\ shown' = Append(shown, delta)
    /\ emitted' = TRUE
    /\ UNCHANGED <<pc, turn, manner, answer, upto, parts, echoed, result>>

\* A chunk with part of a call: its id and name come with every one of them.
Fragment ==
    /\ pc = "stream"
    /\ \E i \in DOMAIN answer.calls : \E k \in upto[i]..Len(answer.calls[i]) :
          LET fragment == SubSeq(answer.calls[i], IF manner = "so far" THEN 1 ELSE upto[i] + 1, k)
              once     == Merge(Held(i), fragment)
          IN /\ parts' = [j \in DOMAIN parts \cup {i} |->
                            IF j # i THEN parts[j]
                            ELSE IF manner = "twice" THEN Merge(once, fragment) ELSE once]
             /\ upto' = [upto EXCEPT ![i] = k]
             /\ echoed' = (echoed \/ (manner # "so far" /\ LooksRepeated(Held(i), fragment)))
    /\ UNCHANGED <<pc, turn, manner, answer, text, emitted, shown, result>>

\* As if every failure were tried again.
SlipFailed == pc' = "whole"
\* An exception while the stream is opened, read or decoded.
Failed == pc' = IF emitted THEN "failed" ELSE "whole"

Break == pc = "stream" /\ Failed /\ UNCHANGED <<turn, manner, attempt, emitted, shown, result>>

\* The stream ends, whether or not everything was sent.  Nothing at all may have been an
\* answer without choices.
End ==
    /\ pc = "stream"
    /\ \/ /\ answer.named \/ parts = <<>>
          /\ \A i \in DOMAIN parts : TRUE \in Decodes(i)
          /\ pc' = "done" /\ result' = [answer EXCEPT !.text = text, !.calls = parts]
       \/ /\ \/ text = <<>> /\ parts = <<>>
             \/ ~answer.named /\ parts # <<>>
             \/ \E i \in DOMAIN parts : FALSE \in Decodes(i)
          /\ Failed /\ UNCHANGED result
    /\ UNCHANGED <<turn, manner, attempt, emitted, shown>>

\* The same request with stream=False, which the provider answers anew, refuses or answers
\* with what cannot be used.
Whole ==
    /\ pc = "whole"
    /\ \E a \in Answers :
          /\ Attempt(a)
          /\ \/ /\ a.named \/ a.calls = <<>>
                /\ pc' = "done" /\ result' = a /\ shown' = shown \o a.text
             \/ pc' = "failed" /\ UNCHANGED <<shown, result>>
    /\ UNCHANGED <<turn, manner, emitted>>

Next == Complete \/ Content \/ Fragment \/ Break \/ End \/ Whole

Spec == Init /\ [][Next]_vars

-----------------------------------------------------------------------------

TypeOK ==
    /\ pc \in {"idle", "stream", "whole", "done", "failed"} /\ turn \in 0..Turns
    /\ manner \in Manners /\ answer \in Answers \cup {Nothing}
    /\ upto \in [DOMAIN answer.calls -> Nat]
    /\ DOMAIN parts \subseteq DOMAIN answer.calls /\ \A i \in DOMAIN parts : parts[i] \in Seq(Char)
    /\ text \in Seq(Text) /\ shown \in Seq(Text)
    /\ emitted \in BOOLEAN /\ echoed \in BOOLEAN

\* What the browser was shown during a request is the beginning of one answer, never an
\* answer broken off and then another, and in the end it is the text of the result.  A
\* request fails only after something was shown or after it was tried both ways.
ShownOnce ==
    /\ pc \in {"stream", "done"} => IsPrefix(shown, answer.text)
    /\ pc = "done" => shown = result.text
    /\ pc = "failed" /\ ~emitted => text = <<>> /\ parts = <<>>
    /\ pc = "failed" /\ emitted => shown # <<>>

\* However the provider fragments and repeats them, a call is carried out with the
\* arguments that were sent for it, or with none when none had arrived; unless an
\* increment looked like a repetition of what came before it.
ArgumentsWhole ==
    pc = "done" /\ ~echoed =>
        \A i \in DOMAIN result.calls : result.calls[i] \in {<<>>, answer.calls[i]}
=============================================================================
