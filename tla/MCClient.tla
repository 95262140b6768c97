------------------------------ MODULE MCClient ------------------------------
(***************************************************************************)
(* What the user of SelectClient may enter: for each token the bytes a     *)
(* telnet client sends (RFC 854, 855, 1073) and what they mean.            *)
(***************************************************************************)
EXTENDS SelectClient

Token(enc, data, szs, rs) == [enc |-> enc, data |-> data, sizes |-> szs, replies |-> rs]

Keys == {Token(<<"x">>, <<"x">>, <<>>, <<>>), Token(<<"IAC", "IAC">>, <<"IAC">>, <<>>, <<>>)}

\* An option the gateway does not offer is refused.
Options == {Token(<<"IAC", "DO", "TTYPE">>, <<>>, <<>>, <<<<"WONT", "TTYPE">>>>)}

Subneg(payload, szs) ==
  Token(<<"IAC", "SB">> \o payload \o <<"IAC", "SE">>, <<>>, szs, <<>>)

\* A window size with a 0xFF in it, one that is unspecified, and a
\* subnegotiation that is too long.
Sizes ==
  {Subneg(<<"NAWS", "IAC", "IAC", "SE">>, <<<<<<"SE">>, <<"IAC">>>>>>),
   Subneg(<<"NAWS", "x", "NUL">>, <<>>),
   Subneg(<<"TTYPE", "x", "x", "x">>, <<>>)}

\* A subnegotiation that ends without SE.
Oddities == {Token(<<"IAC", "SB", "TTYPE", "IAC", "NOP">>, <<>>, <<>>, <<>>)}

Input == Keys \cup Options \cup Sizes \cup Oddities
=============================================================================
