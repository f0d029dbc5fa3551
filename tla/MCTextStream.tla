---------------------------- MODULE MCTextStream ----------------------------
(* Instances of TextStream for TLC. *)
EXTENDS TextStream

\* Tokens that are a character, begin one, carry one on, or end one and begin
\* the next.
MCTokens == {<<"x">>, <<"lead">>, <<"cont">>, <<"lead", "cont">>,
             <<"cont", "y", "lead">>}
=============================================================================
