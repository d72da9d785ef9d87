---------------------------- MODULE MCUartParser ----------------------------
(* Payloads for the model checker: cfg files cannot write sequences.       *)
EXTENDS UartParser

Xs(n) == [i \in 1..n |-> "x"]

\* An empty payload, digits, an address mark, and a longest one.
Texts == {<<>>, <<"1", "9">>, <<"x", "<", "D">>, Xs(MaxPayload - MaxFailures - SofLen - 2)}

\* Bytes of every kind but those that the parser gives a meaning, in numbers of
\* one, two and three digits.
Bytes == {<<"1">>, <<"NUL", "x">>, <<"D", "<", "NUL">>, Xs(12), Xs(100)}
=============================================================================
