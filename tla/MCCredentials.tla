--------------------------- MODULE MCCredentials ---------------------------
(* Inputs for Credentials.  A generated password opens as another text     *)
(* with an identifier of other later bytes, is lost with one of another    *)
(* first byte, and kills the process when that byte goes from C to b or    *)
(* back.  Of the user's, none is the empty one, ten letters of two bytes   *)
(* never open, and fifteen of them make DecXOR read past the end.          *)
EXTENDS Credentials
MCPids == {<<49, 48, 48>>, <<49, 49, 49>>, <<67, 48, 48>>, <<98, 48, 48>>}
Letters == <<65, 66, 65, 66, 65, 66>>
Cyrillic(n) == [i \in 1 .. n |-> 1078]
MCRandom == {Letters}
Repeat(n) == [i \in 1 .. n |-> 65 + ((i * i) % 25)]
MCSamples == UNION {[1 .. n -> {32, 77, 126}] : n \in 1 .. 3} \union {Repeat(n) : n \in 4 .. 40}
MCTexts == {<<>>, Letters, Cyrillic(10), Cyrillic(15)}
=============================================================================
