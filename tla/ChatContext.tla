------------------------------ MODULE ChatContext ------------------------------
(***************************************************************************)
(* What a chat run sends to the model: the messages of one conversation,   *)
(* their compression into a summary and the input budget (ai/context.py,   *)
(* and _compress, _provider_messages and run of ai/runner.py).             *)
(*                                                                         *)
(* One run at a time, as its lock promises.  The other requests' reads and *)
(* writes of the conversation are the subject of AgentActions; the one     *)
(* here, the decision on a proposed command, is one step.  A message is    *)
(* told by its number; a summary by the messages it has read.  A message   *)
(* or a summary weighs one token, a long tool result two.                  *)
(***************************************************************************)
EXTENDS Naturals, Sequences, FiniteSets

CONSTANTS
    Keep,       \* keep_rounds
    Window,     \* the window without the reserves for output and safety
    Floor,      \* the least input that effective_input_tokens gives
    Reserves,   \* weights of prompt, tools and state
    Steps,      \* max_steps
    Calls,      \* bound: tool calls in one answer
    Most        \* bound: messages before a last run starts

ChatAssumption ==
    /\ {Keep, Window, Floor, Steps, Calls, Most} \subseteq Nat \ {0}
    /\ Reserves \subseteq 0..Window

VARIABLES
    stored,     \* the conversation in Redis
    said,       \* messages ever appended to it
    action,     \* the latest proposed command: "none", "pending", "done"
    pc,         \* where the run is
    conv,       \* the run's copy of the conversation
    reserve,    \* runtime_reserve_tokens
    step,       \* of max_steps
    todo,       \* calls of the answer that are not carried out
    waiting,    \* this answer proposed a command
    broken      \* calls whose run ended before their results

vars == <<stored, said, action, pc, conv, reserve, step, todo, waiting, broken>>
run  == <<conv, reserve, step, todo, waiting>>

Empty == [messages |-> <<>>, summary |-> {}, pending |-> FALSE]

Message(role) == [id |-> said + 1, role |-> role, call |-> 0, calls |-> 0, long |-> FALSE]
Ids(ms)       == {ms[i].id : i \in DOMAIN ms}

\* append_message loads the conversation, which forgets a decided command, and saves it.
Loaded(c) == [c EXCEPT !.pending = @ /\ action = "pending"]
Put(c, m) == [Loaded(c) EXCEPT !.messages = Append(@, m)]

\* A run that ends forgets what it had.
End == pc' = "idle" /\ conv' = Empty /\ reserve' = 0 /\ step' = 1 /\ todo' = 0 /\ waiting' = FALSE

-----------------------------------------------------------------------------
(* The budget. *)

Tokens(c) ==
    Len(c.messages) + Cardinality({i \in DOMAIN c.messages : c.messages[i].long})
        + (IF c.summary = {} THEN 0 ELSE 1)
Room(r)   == IF Window < r + Floor THEN Floor ELSE Window - r

ShouldCompress(c, r) == ~c.pending /\ Tokens(c) >= (Room(r) * 4) \div 5

\* A round begins with the user's message; the last Keep rounds stay as they are.
Rounds(ms)   == {i \in DOMAIN ms : ms[i].role = "user"}
KeepFrom(ms) == CHOOSE i \in Rounds(ms) : Cardinality({j \in Rounds(ms) : j >= i}) = Keep
From(ms, i) == SubSeq(ms, i, Len(ms))

\* As if messages were kept, not rounds.
SlipCompressed(c) ==
    LET ms == c.messages i == Len(ms) - Keep
    IN [c EXCEPT !.messages = From(ms, i), !.summary = @ \cup Ids(SubSeq(ms, 1, i - 1))]
Compressed(c) ==
    LET ms == c.messages i == KeepFrom(ms)
    IN [c EXCEPT !.messages = From(ms, i), !.summary = @ \cup Ids(SubSeq(ms, 1, i - 1))]

\* What is added about the last command and the last diagnostic, as they are now.
ActionContext     == IF action = "none" THEN 0 ELSE 1
DiagnosticContext == 0..1

\* The wire format: the messages, at their places, but for results of no call.
Wire(c) == LET ms == c.messages sent == {i \in DOMAIN ms : ms[i].role # "tool" \/ ms[i].call # 0}
           IN [summary |-> c.summary, messages |-> [i \in sent |-> ms[i]]]

-----------------------------------------------------------------------------
(* A run. *)

Ask ==
    /\ pc = "idle" /\ said < Most
    /\ stored' = Put(stored, Message("user")) /\ conv' = stored' /\ said' = said + 1
    /\ pc' = "first" /\ step' = 1 /\ waiting' = FALSE
    /\ UNCHANGED <<action, reserve, todo, broken>>

\* Before the loop and before every step.  A summary that is refused, cut off or empty
\* leaves the messages alone; either way the run's copy is saved.
Compress ==
    /\ pc \in {"first", "again"}
    /\ reserve' \in Reserves
    /\ IF ShouldCompress(conv, reserve') /\ Cardinality(Rounds(conv.messages)) > Keep
       THEN conv' \in {conv, Compressed(conv)} /\ stored' = conv'
       ELSE UNCHANGED <<conv, stored>>
    /\ pc' = IF pc = "first" THEN "again" ELSE "budget"
    /\ UNCHANGED <<said, action, step, todo, waiting, broken>>

Send ==
    /\ pc = "budget"
    /\ \E d \in DiagnosticContext :
          IF Tokens(conv) + ActionContext + d > Room(reserve)
          THEN End /\ stored' = conv
          ELSE pc' = "ask" /\ UNCHANGED <<stored, run>>
    /\ UNCHANGED <<said, action, broken>>

\* The observability of an answer is saved with the copy from before the call.
Observed == conv

Answer ==
    /\ pc = "ask" /\ End
    /\ stored' = Put(Observed, Message("assistant")) /\ said' = said + 1
    /\ UNCHANGED <<action, broken>>

CallTools ==
    /\ pc = "ask" /\ pc' = "tool"
    /\ \E n \in 1..Calls :
          /\ stored' = Put(Observed, [Message("calls") EXCEPT !.calls = n])
          /\ todo' = n
    /\ conv' = stored' /\ said' = said + 1
    /\ UNCHANGED <<action, reserve, step, waiting, broken>>

\* The message of the calls that are being carried out.
LastCall == conv.messages[Len(conv.messages)].id

\* One call, whatever comes of it, and its message.  The run ends at a proposed command or
\* after the last step.
Tool ==
    /\ pc = "tool"
    /\ \E long, propose \in BOOLEAN :
          /\ propose => action # "pending" /\ ~waiting
          /\ LET result == [Message("tool") EXCEPT !.call = LastCall, !.long = long]
             IN stored' = [Put(stored, result) EXCEPT !.pending = @ \/ propose]
          /\ action' = IF propose THEN "pending" ELSE action
          /\ CASE todo > 1 -> /\ todo' = todo - 1 /\ waiting' = (waiting \/ propose)
                              /\ UNCHANGED <<pc, conv, reserve, step>>
               [] todo = 1 /\ (waiting \/ propose \/ step = Steps) -> End
               [] OTHER -> /\ pc' = "again" /\ step' = step + 1 /\ conv' = stored'
                           /\ todo' = 0 /\ UNCHANGED <<reserve, waiting>>
    /\ said' = said + 1
    /\ UNCHANGED broken

\* The browser goes away at an event, the provider fails, or the worker dies.
Leave ==
    /\ pc # "idle" /\ End
    /\ broken' = IF pc = "tool" THEN broken \cup {LastCall} ELSE broken
    /\ UNCHANGED <<stored, said, action>>

\* The command is cancelled or expires, at any time, or is approved.
Decide ==
    /\ action = "pending" /\ action' = "done"
    /\ stored' = [stored EXCEPT !.pending = FALSE]
    /\ UNCHANGED <<said, pc, run, broken>>

-----------------------------------------------------------------------------
Init ==
    /\ stored = Empty /\ said = 0 /\ action = "none" /\ broken = {}
    /\ pc = "idle" /\ conv = Empty /\ reserve = 0 /\ step = 1 /\ todo = 0 /\ waiting = FALSE

Next == Ask \/ Compress \/ Send \/ Answer \/ CallTools \/ Tool \/ Leave \/ Decide

Spec == Init /\ [][Next]_vars

-----------------------------------------------------------------------------
Messages == [id : Nat, role : {"user", "assistant", "calls", "tool"}, call : Nat, calls : 0..Calls,
             long : BOOLEAN]
Conversations == [messages : Seq(Messages), summary : SUBSET (1..said), pending : BOOLEAN]

\* The type invariant.
TypeOK ==
    /\ said \in Nat /\ {stored, conv} \subseteq Conversations
    /\ action \in {"none", "pending", "done"}
    /\ pc \in {"idle", "first", "again", "budget", "ask", "tool"}
    /\ reserve \in 0..Window /\ step \in 1..Steps /\ todo \in 0..Calls
    /\ waiting \in BOOLEAN /\ broken \subseteq 1..said

\* What goes to the model is the whole conversation, each message in full or read by the
\* summary, and well formed: no result without its call, no call without its results but
\* where an earlier run was broken off.
SentWhole ==
    pc = "ask" =>
        LET ms == Wire(conv).messages
        IN /\ Ids(ms) \cup Wire(conv).summary = 1..said
           /\ \A i \in DOMAIN ms :
                 /\ ms[i].role = "tool" =>
                       \E j \in DOMAIN ms : j < i /\ ms[j].role = "calls" /\ ms[j].id = ms[i].call
                 /\ ms[i].role = "calls" /\ ms[i].id \notin broken =>
                       Cardinality({j \in DOMAIN ms : ms[j].call = ms[i].id}) = ms[i].calls
=============================================================================
