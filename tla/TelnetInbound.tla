--------------------------- MODULE TelnetInbound ----------------------------
(***************************************************************************)
(* The parser of the telnet gateway (telnet_gateway.py, TelnetInbound):    *)
(* the client's bytes become application data, window sizes and replies to *)
(* option negotiation.  A byte is named for what it means to the parser;   *)
(* "x", "NUL" and the options are the bytes that are no telnet command.    *)
(***************************************************************************)
EXTENDS Naturals, Sequences, FiniteSets

CONSTANTS
  MAX_SUBNEG_LEN,   \* cap of the subnegotiation accumulator, in bytes
  DimBytes          \* bytes of a window dimension (2 in the code)

ASSUME TelnetAssumption ==
  /\ DimBytes \in Nat \ {0}
  /\ MAX_SUBNEG_LEN \in Nat /\ MAX_SUBNEG_LEN > 2 * DimBytes

Negotiations == {"WILL", "WONT", "DO", "DONT"}

FreshParser == [state |-> "data", cmd |-> "none", sb |-> <<>>]

\* What is refused; an option the gateway offered or asked for needs no reply.
negotiate(cmd, opt) ==
  CASE cmd = "DO" /\ opt \notin {"ECHO", "SGA"} -> <<<<"WONT", opt>>>>
    [] cmd = "WILL" /\ opt # "NAWS" -> <<<<"DONT", opt>>>>
    [] OTHER -> <<>>

\* The sizes <<rows, cols>> a subnegotiation reports: none when it is not
\* NAWS, too short, or has a dimension that is zero.
end_subneg(sb) ==
  LET cols == SubSeq(sb, 2, 1 + DimBytes)
      rows == SubSeq(sb, 2 + DimBytes, 1 + 2 * DimBytes)
      zero == [i \in 1..DimBytes |-> "NUL"]
  IN  IF /\ Len(sb) >= 1 + 2 * DimBytes /\ sb[1] = "NAWS"
         /\ rows # zero /\ cols # zero
      THEN <<<<rows, cols>>>> ELSE <<>>

sb_append(sb, b) == IF Len(sb) < MAX_SUBNEG_LEN THEN Append(sb, b) ELSE sb

\* A parser, and the data, window sizes and replies a chunk has yielded.
Yield(p, data, resizes, replies) ==
  [p |-> p, data |-> data, resizes |-> resizes, replies |-> replies]

\* One byte in each state of the parser; r is what the chunk has yielded so far.
InData(r, b) ==
  IF b = "IAC" THEN [r EXCEPT !.p.state = "iac"] ELSE [r EXCEPT !.data = Append(@, b)]

InIac(r, b) ==
  CASE b = "IAC" ->
         Yield([r.p EXCEPT !.state = "data"], Append(r.data, "IAC"), r.resizes, r.replies)
    [] b \in Negotiations -> [r EXCEPT !.p.cmd = b, !.p.state = "opt"]
    [] b = "SB" -> [r EXCEPT !.p.sb = <<>>, !.p.state = "sb"]
    [] OTHER -> [r EXCEPT !.p.state = "data"]

InOpt(r, b) ==
  Yield([r.p EXCEPT !.cmd = "none", !.state = "data"],
        r.data, r.resizes, r.replies \o negotiate(r.p.cmd, b))

InSb(r, b) ==
  IF b = "IAC" THEN [r EXCEPT !.p.state = "sb_iac"]
               ELSE [r EXCEPT !.p.sb = sb_append(@, b)]

\* An escaped 0xFF is not subject to the cap; anything but it ends the
\* subnegotiation, whether SE or not.
InSbIac(r, b) ==
  IF b = "IAC"
  THEN [r EXCEPT !.p = [r.p EXCEPT !.sb = Append(r.p.sb, "IAC"), !.state = "sb"]]
  ELSE Yield([r.p EXCEPT !.sb = <<>>, !.state = "data"],
             r.data, r.resizes \o end_subneg(r.p.sb), r.replies)

FeedByte(r, b) ==
  CASE r.p.state = "data"   -> InData(r, b)
    [] r.p.state = "iac"    -> InIac(r, b)
    [] r.p.state = "opt"    -> InOpt(r, b)
    [] r.p.state = "sb"     -> InSb(r, b)
    [] r.p.state = "sb_iac" -> InSbIac(r, b)

\* feed(chunk) in parser state p.
feed(p, chunk) ==
  LET after[i \in 0..Len(chunk)] ==
        IF i = 0 THEN Yield(p, <<>>, <<>>, <<>>) ELSE FeedByte(after[i - 1], chunk[i])
  IN  after[Len(chunk)]

\* The bytes of a subnegotiation that its cap counts, by position.
Capped(sb) == {i \in DOMAIN sb : sb[i] # "IAC"}

\* The cap counts all bytes but an escaped 0xFF, which is appended without it.
ParserTypeOK(p) ==
  /\ p.state \in {"data", "iac", "opt", "sb", "sb_iac"}
  /\ p.cmd \in Negotiations \cup {"none"}
  /\ (p.state = "opt") = (p.cmd # "none")
  /\ Cardinality(Capped(p.sb)) <= MAX_SUBNEG_LEN
=============================================================================
