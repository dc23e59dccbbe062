------------------------------ MODULE MCPlatform ------------------------------
(***************************************************************************)
(* Platform for TLC.  Two requests are under way at once in every part.    *)
(***************************************************************************)
EXTENDS Platform, MCHostAccess, TLC

\* One target that stands for one host.
MCMembers == [t \in {"web"} |-> {"h"}]

\* What a model may answer: arguments that repeat themselves, two calls, a call of no name.
Says(text, calls, named) == [text |-> text, calls |-> calls, named |-> named]
MCAnswers == {
    Says(<<"a", "b">>, <<>>, TRUE),
    Says(<<"c">>, <<<<"{", "1", "1", "}">>>>, TRUE),
    Says(<<>>, <<<<"{", "1", "2", "1", "2", "}">>, <<"{", "1", "}">>>>, TRUE),
    Says(<<"d">>, <<<<"{", "}">>>>, FALSE)}

Symmetric == Permutations(JobRequest)
=============================================================================
