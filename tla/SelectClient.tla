---------------------------- MODULE SelectClient ----------------------------
(***************************************************************************)
(* The host-side clients that are one select() loop over a user and the    *)
(* vsock connection: `guest_cmd.py CMD` (_collect_result), its interactive *)
(* shell (run_shell), and the bridge of telnet_gateway.py.  The agent is   *)
(* the environment: it keeps the promises of Session (output, then one     *)
(* terminal frame, then the end) or dies, and between any two calls of the *)
(* client it may send, stop reading, close, or reset the connection.       *)
(***************************************************************************)
EXTENDS TelnetInbound, SequencesExt

CONSTANTS
  Kinds,       \* subset of {"exec", "shell", "telnet"}
  Tokens,      \* what the user may enter: its bytes and what they mean
  MaxEvents,   \* most tokens and frames of output, together
  UpCap        \* frames the transport holds towards the agent

ASSUME ClientAssumption ==
  /\ Kinds \subseteq {"exec", "shell", "telnet"}
  /\ MaxEvents \in Nat /\ UpCap \in Nat \ {0}

Bytes == UNION {Range(t.enc) : t \in Tokens}

\* Every token is complete: a fresh parser that is fed all its bytes at once
\* yields what it stands for, and is fresh again.
ASSUME TokensAssumption ==
  \A t \in Tokens :
    /\ t.enc \in Seq(Bytes)
    /\ feed(FreshParser, t.enc) = Yield(FreshParser, t.data, t.sizes, t.replies)

VARIABLES
  kind,     \* which client this is
  pc,       \* "handshake", "select", "ping", "stdin", "sock" or "done"
  ready,    \* what select() found readable: subset of {"stdin", "sock"}
  watch,    \* stdin, or the TCP client, is in select()'s set
  parser,   \* the telnet parser
  result,   \* how the client ended: "none", "exit" (with the code of EXIT),
            \* "zero" or "one" (exit codes of its own), "closed" or "error"
  user,     \* "open", or "gone" (stdin at EOF, TCP client hung up)
  taking,   \* the TCP client reads what it is sent
  typed,    \* how many tokens the user has entered
  meant,    \* the data, window sizes and replies they stand for
  kbd,      \* their bytes that the client has not read
  shown,    \* frames of output the user has got
  replies,  \* telnet replies the TCP client has got
  stdin,    \* the bytes of the STDIN frames written
  sizes,    \* the sizes of the RESIZE frames written
  eofs,     \* STDIN_EOF frames written
  unread,   \* frames written that the agent has not read
  down,     \* frames on their way to the client
  outs,     \* frames of output the agent has sent
  exited,   \* the agent has sent EXIT
  agent     \* "run", "over" (it reads no more), "closed" or "reset"

userVars  == <<user, taking, typed, meant, kbd>>
agentVars == <<down, outs, exited, agent>>
sentVars  == <<stdin, sizes, eofs>>
loopVars  == <<ready, watch, parser, result, shown, replies, sentVars>>
vars == <<kind, pc, userVars, agentVars, loopVars, unread>>

Init ==
  /\ kind \in Kinds /\ pc = "handshake"
  /\ ready = {} /\ watch = (kind # "exec") /\ parser = FreshParser /\ result = "none"
  /\ user = "open" /\ taking = TRUE /\ typed = 0 /\ kbd = <<>>
  /\ meant = [data |-> <<>>, sizes |-> <<>>, replies |-> <<>>]
  /\ shown = 0 /\ replies = <<>>
  /\ stdin = <<>> /\ sizes = <<>> /\ eofs = 0 /\ unread = 0
  /\ down = <<>> /\ outs = 0 /\ exited = FALSE /\ agent = "run"

-----------------------------------------------------------------------------
(* The user.                                                               *)

\* What is typed while the client is busy is found by its next select().
Type ==
  /\ kind # "exec" /\ user = "open" /\ typed + outs < MaxEvents /\ pc = "select"
  /\ \E t \in Tokens :
       /\ kind = "shell" => t.data = t.enc /\ t.sizes = <<>> /\ t.replies = <<>>
       /\ typed' = typed + 1 /\ kbd' = kbd \o t.enc
       /\ meant' = [data |-> meant.data \o t.data, sizes |-> meant.sizes \o t.sizes,
                    replies |-> meant.replies \o t.replies]
  /\ UNCHANGED <<user, taking>>

Leave == kind # "exec" /\ user = "open" /\ user' = "gone" /\ UNCHANGED <<taking, typed, meant, kbd>>

Stall == kind = "telnet" /\ taking /\ taking' = FALSE /\ UNCHANGED <<user, typed, meant, kbd>>

User ==
  /\ pc # "done" /\ (Type \/ Leave \/ Stall)
  /\ UNCHANGED <<kind, pc, agentVars, loopVars, unread>>

-----------------------------------------------------------------------------
(* The agent, once it has the REQUEST.                                     *)

AgentReads ==
  /\ agent = "run" /\ unread > 0 /\ unread' = unread - 1
  /\ UNCHANGED <<down, outs, exited, agent>>

AgentOutput ==
  /\ agent = "run" /\ typed + outs < MaxEvents /\ outs' = outs + 1
  /\ down' = Append(down, "OUT")
  /\ UNCHANGED <<unread, exited, agent>>

\* The terminal frame; the session has stopped reading.  "BADEXIT" is an EXIT
\* without an integer code, which the telnet gateway does not look at.
AgentEnds ==
  /\ agent = "run" /\ agent' = "over"
  /\ \E f \in {"EXIT", "ERROR", "BADEXIT"} :
       /\ f = "BADEXIT" => kind # "telnet"
       /\ down' = Append(down, f) /\ exited' = (f = "EXIT")
  /\ UNCHANGED <<unread, outs>>

\* The connection is closed.  With frames unread in the agent's kernel that
\* is a reset, which may overtake what is on its way to the client.
AgentCloses ==
  /\ agent = "over"
  /\ \/ unread = 0 /\ agent' = "closed" /\ UNCHANGED down
     \/ unread > 0 /\ agent' = "reset" /\ down' \in {down, <<>>}
  /\ UNCHANGED <<unread, outs, exited>>

\* The agent gives the session up, or the guest dies: the stream ends between
\* two frames, or inside one, which then ends or just stops.
AgentDies ==
  /\ agent = "run" /\ agent' = "closed"
  /\ down' \in {down, Append(down, "CUT")}
  /\ UNCHANGED <<unread, outs, exited>>

Agent ==
  /\ pc \notin {"handshake", "done"}
  /\ AgentReads \/ AgentOutput \/ AgentEnds \/ AgentCloses \/ AgentDies
  /\ UNCHANGED <<kind, pc, userVars, loopVars>>

-----------------------------------------------------------------------------
(* The client.                                                             *)

\* write_frame, n times, and then what follows.  A peer that is gone makes it
\* fail, or swallows the frames; one that does not read makes it time out once
\* the transport is full.
WriteFrames(n, next) ==
  /\ unread' = unread + n
  /\ LET gone == agent \in {"closed", "reset"} IN
     \/ (n = 0 \/ gone \/ unread + n <= UpCap) /\ next
     \/ n > 0 /\ (gone \/ unread + n > UpCap) /\ pc' = "done" /\ result' = "error"

End(r) == pc' = "done" /\ result' = r

GoTo(l) == pc' = l /\ UNCHANGED result

\* CONNECT, the OK line, REQUEST, and the telnet gateway's first offer.
Handshake ==
  /\ pc = "handshake"
  /\ (End("error") /\ UNCHANGED unread) \/ WriteFrames(1, GoTo("select"))
  /\ UNCHANGED <<ready, watch, parser, shown, replies, sentVars, kbd, down>>

Readable ==
  (IF watch /\ (kbd # <<>> \/ user = "gone") THEN {"stdin"} ELSE {}) \cup
  (IF down # <<>> \/ agent \in {"closed", "reset"} THEN {"sock"} ELSE {})

\* select() returns what is readable, or times out.
Select ==
  /\ pc = "select"
  /\ GoTo(CASE Readable = {} -> "ping" [] "stdin" \in Readable -> "stdin" [] OTHER -> "sock")
  /\ ready' = Readable
  /\ UNCHANGED <<watch, parser, shown, replies, sentVars, unread, kbd, down>>

Ping ==
  /\ pc = "ping" /\ WriteFrames(1, GoTo("select"))
  /\ UNCHANGED <<ready, watch, parser, shown, replies, sentVars, kbd, down>>

\* After stdin: on to the socket if select() found it readable too.
Onward == GoTo(IF "sock" \in ready THEN "sock" ELSE "select")

\* Mutant: stdin at EOF stays in select()'s set.
ShellStdinWatched(n) ==
  /\ WriteFrames(1, Onward)
  /\ stdin' = stdin \o SubSeq(kbd, 1, n)
  /\ eofs' = IF n = 0 THEN eofs + 1 ELSE eofs
  /\ UNCHANGED <<parser, replies, sizes, watch>>

\* run_shell reads n bytes of stdin and writes a STDIN frame; none means EOF:
\* it writes STDIN_EOF, and watches stdin no more.
ShellStdin(n) ==
  /\ WriteFrames(1, Onward)
  /\ stdin' = stdin \o SubSeq(kbd, 1, n)
  /\ eofs' = IF n = 0 THEN eofs + 1 ELSE eofs
  /\ watch' = (n > 0)
  /\ UNCHANGED <<parser, replies, sizes>>

\* tcp_conn.sendall, which a client that does not read makes time out.
SendTcp(works, fails) == (taking /\ works) \/ (~taking /\ fails)

\* Mutant: a command that is cut by the end of a chunk is forgotten.
BridgeForgetful(n) ==
  LET r == feed(parser, SubSeq(kbd, 1, n))
      forward == /\ WriteFrames(Len(r.resizes) + (IF r.data = <<>> THEN 0 ELSE 1), Onward)
                 /\ replies' = replies \o r.replies
                 /\ sizes' = sizes \o r.resizes /\ stdin' = stdin \o r.data
  IN  /\ parser' = FreshParser
      /\ IF r.replies = <<>> THEN forward
         ELSE SendTcp(forward, End("error") /\ UNCHANGED <<replies, sizes, stdin, unread>>)

\* bridge reads n bytes of the TCP client: the replies go back to it, then a
\* RESIZE frame for each size and one STDIN frame to the guest.
Bridge(n) ==
  LET r == feed(parser, SubSeq(kbd, 1, n))
      forward == /\ WriteFrames(Len(r.resizes) + (IF r.data = <<>> THEN 0 ELSE 1), Onward)
                 /\ replies' = replies \o r.replies
                 /\ sizes' = sizes \o r.resizes /\ stdin' = stdin \o r.data
  IN  /\ parser' = r.p
      /\ IF r.replies = <<>> THEN forward
         ELSE SendTcp(forward, End("error") /\ UNCHANGED <<replies, sizes, stdin, unread>>)

\* Mutant: a client that hung up does not end the bridge.
TelnetStdinContinue(n) ==
  /\ IF n > 0 THEN Bridge(n)
     ELSE Onward /\ UNCHANGED <<parser, replies, sizes, stdin, unread>>
  /\ UNCHANGED <<watch, eofs>>

TelnetStdin(n) ==
  /\ IF n > 0 THEN Bridge(n)
     ELSE End("closed") /\ UNCHANGED <<parser, replies, sizes, stdin, unread>>
  /\ UNCHANGED <<watch, eofs>>

ReadStdin ==
  /\ pc = "stdin"
  /\ \E n \in 0..Len(kbd) :
       /\ (n = 0) = (kbd = <<>>)
       /\ kbd' = SubSeq(kbd, n + 1, Len(kbd))
       /\ IF kind = "shell" THEN ShellStdin(n) ELSE TelnetStdin(n)
  /\ ready' = {} /\ UNCHANGED <<shown, down>>

\* SIGWINCH, which the signal handler forwards; that it cannot is ignored.
Winch ==
  /\ kind = "shell" /\ pc = "select" /\ unread < UpCap /\ unread' = unread + 1
  /\ UNCHANGED <<pc, loopVars, kbd, down>>

\* Mutant: a hang-up is noticed before the frames that came with it are read.
ReadFrameHup(f) ==
  IF agent = "closed" THEN f = "NONE" /\ down' = <<>>
  ELSE IF down # <<>> THEN f = Head(down) /\ down' = Tail(down)
  ELSE f = "RESET" /\ UNCHANGED down

\* read_frame: the next frame, None at the end of the stream, or an error.
ReadFrame(f) ==
  IF down # <<>> THEN f = Head(down) /\ down' = Tail(down)
  ELSE f = (IF agent = "closed" THEN "NONE" ELSE "RESET") /\ UNCHANGED down

\* Mutant: the end of the stream is as good as an EXIT.
OutcomeLenient(f) ==
  IF f \in {"CUT", "RESET"} THEN "error"
  ELSE IF kind = "telnet" THEN "closed"
  ELSE CASE f = "EXIT" -> "exit"
         [] f = "ERROR" -> IF kind = "exec" THEN "error" ELSE "one"
         [] f \in {"NONE", "BADEXIT"} -> "zero"

\* What a frame that ends the loop makes of the client.  The shell has an exit
\* code of its own for everything but EXIT; _collect_result raises.
Outcome(f) ==
  IF f \in {"CUT", "RESET"} THEN "error"
  ELSE IF kind = "telnet" THEN "closed"
  ELSE CASE f = "EXIT" -> "exit"
         [] f = "ERROR" -> IF kind = "exec" THEN "error" ELSE "one"
         [] f \in {"NONE", "BADEXIT"} -> IF kind = "exec" THEN "error" ELSE "zero"

ReadSock ==
  /\ pc = "sock"
  /\ \E f \in {"OUT", "EXIT", "ERROR", "BADEXIT", "CUT", "NONE", "RESET"} :
       /\ ReadFrame(f)
       /\ IF f # "OUT" THEN End(Outcome(f)) /\ UNCHANGED shown
          ELSE SendTcp(shown' = shown + 1 /\ GoTo("select"), UNCHANGED shown /\ End("error"))
  /\ ready' = {} /\ UNCHANGED <<watch, parser, replies, sentVars, unread, kbd>>

Client ==
  /\ Handshake \/ Select \/ Ping \/ ReadStdin \/ ReadSock
  /\ UNCHANGED <<kind, user, taking, typed, meant, outs, exited, agent>>

Signal == Winch /\ UNCHANGED <<kind, user, taking, typed, meant, outs, exited, agent>>

Done == pc = "done" /\ UNCHANGED vars

Next == User \/ Agent \/ Client \/ Signal \/ Done

\* The client runs.  Nothing is assumed of the user or of the agent.
Spec == Init /\ [][Next]_vars
FairSpec == Spec /\ WF_vars(Client)

-----------------------------------------------------------------------------
\* The state of the loop.  STDIN_EOF is sent once: a closed stdin does not turn
\* into a stream of frames into a session that may have stopped reading
\* (watch = [sock_fd]).
TypeOK ==
  /\ pc \in {"handshake", "select", "ping", "stdin", "sock", "done"}
  /\ ready \subseteq {"stdin", "sock"} /\ watch \in BOOLEAN
  /\ ParserTypeOK(parser)
  /\ (result = "none") = (pc # "done")
  /\ shown \in 0..outs /\ unread \in Nat /\ eofs \in 0..1
  /\ kbd # <<>> => typed > 0

\* The exit code of the command is reported only when the agent sent it and
\* all the output before it has been passed on: an end of stream, a frame cut
\* off or a silent peer never looks like an EXIT (_collect_result).  The shell
\* is more lenient: it reports 0 for a stream that just ends.
ResultTruthful ==
  /\ result = "exit" => exited /\ shown = outs
  /\ result = "zero" => kind = "shell" /\ ~exited

\* An EXIT that was sent is reported, whatever the order in which output,
\* EXIT, the close and the user's input arrive, unless the client wrote
\* something that the agent had stopped reading: then a failed write, or a
\* reset that overtakes EXIT, can lose it (the comment in run_shell).
ExitSurvives ==
  kind # "telnet" /\ exited /\ pc = "done" => result = "exit" \/ unread > 0

\* What the guest gets is what the user meant: the data in order, with escapes
\* undone, every window size that is one, and a reply to exactly the options
\* that need one; however the bytes are cut into chunks, and whatever
\* malformed or overlong command stands between them (feed, bridge).  No reply
\* asks for a reply, so that two ends that both answer as this one does never
\* negotiate for ever (_negotiate, "loop-free").
TypedForwarded ==
  /\ IsPrefix(stdin, meant.data) /\ IsPrefix(sizes, meant.sizes)
  /\ IsPrefix(replies, meant.replies)
  /\ kbd = <<>> /\ pc = "select" =>
       meant = [data |-> stdin, sizes |-> sizes, replies |-> replies]
  /\ \A i \in DOMAIN replies : negotiate(replies[i][1], replies[i][2]) = <<>>

-----------------------------------------------------------------------------
\* A connection that is gone ends the client, and a TCP client that hangs up
\* ends its bridge, even when it does not read what it is sent.
ClientEnds ==
  (agent \in {"closed", "reset"} \/ (kind = "telnet" /\ user = "gone")) ~> (pc = "done")
=============================================================================
