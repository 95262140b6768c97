---------------------------- MODULE ClientProofs ----------------------------
(***************************************************************************)
(* The clients of SelectClient for every set of tokens, however the bytes  *)
(* are cut into chunks: the telnet parser first (what one byte yields,     *)
(* FeedCut: it does not matter where a stream is cut, and what keys, sizes *)
(* and options yield), then the loop (ClientInv: its state, the frames on  *)
(* their way, what is forwarded).                                          *)
(***************************************************************************)
EXTENDS SelectClient, SequenceTheorems, FiniteSetTheorems, WellFoundedInduction, TLAPS

\* Induction, for a set instead of an operator.
LEMMA SetInduction ==
  ASSUME NEW T, 0 \in T, \A n \in Nat : n \in T => n + 1 \in T
  PROVE  Nat \subseteq T
<1> DEFINE Bad == Nat \ T
<1> SUFFICES ASSUME Bad # {}
             PROVE  FALSE
  OBVIOUS
<1>1. PICK x \in Bad : \A y \in Bad : ~(<<y, x>> \in OpToRel(<, Nat))
  BY NatLessThanWellFounded, WFMin
<1>2. x \in Nat /\ x # 0 /\ x \notin T
  BY <1>1, Zenon
<1>4. x - 1 \in Nat /\ x - 1 < x /\ (x - 1) + 1 = x
  BY <1>2
<1>3. x - 1 \notin Bad
  BY <1>1, <1>2, <1>4 DEF OpToRel
<1> QED
  BY <1>2, <1>4, <1>3

-----------------------------------------------------------------------------
(* One byte.                                                               *)

States == {"data", "iac", "opt", "sb", "sb_iac"}

Parsers ==
  {p \in [state : States, cmd : Negotiations \cup {"none"}, sb : Seq(Bytes)] : ParserTypeOK(p)}

SizePairs == Seq(Bytes) \X Seq(Bytes)

Refusals == {"WONT", "DONT"} \X Bytes

Yields == [p : Parsers, data : Seq(Bytes), resizes : Seq(SizePairs), replies : Seq(Refusals)]

\* A parser that has not been fed, and the yield of two chunks one after the
\* other.
Nothing(p) == Yield(p, <<>>, <<>>, <<>>)

Join(r, s) ==
  [p |-> s.p, data |-> r.data \o s.data, resizes |-> r.resizes \o s.resizes,
   replies |-> r.replies \o s.replies]

LEMMA NothingType ==
  ASSUME NEW p \in Parsers
  PROVE  Nothing(p) \in Yields
BY EmptySeq DEF Nothing, Yield, Yields

LEMMA JoinType ==
  ASSUME NEW r \in Yields, NEW s \in Yields
  PROVE  Join(r, s) \in Yields
<1>1. /\ r.data \o s.data \in Seq(Bytes)
      /\ r.resizes \o s.resizes \in Seq(SizePairs)
      /\ r.replies \o s.replies \in Seq(Refusals)
  BY ConcatProperties DEF Yields
<1> QED
  BY <1>1 DEF Join, Yields

LEMMA Associative == \A S : \A a, b, c \in Seq(S) : (a \o b) \o c = a \o (b \o c)
BY ConcatAssociative

LEMMA JoinAssociative ==
  ASSUME NEW r \in Yields, NEW s \in Yields, NEW t \in Yields
  PROVE  Join(Join(r, s), t) = Join(r, Join(s, t))
<1>1. /\ (r.data \o s.data) \o t.data = r.data \o (s.data \o t.data)
      /\ (r.resizes \o s.resizes) \o t.resizes = r.resizes \o (s.resizes \o t.resizes)
      /\ (r.replies \o s.replies) \o t.replies = r.replies \o (s.replies \o t.replies)
  <2>1. /\ r.data \in Seq(Bytes) /\ s.data \in Seq(Bytes) /\ t.data \in Seq(Bytes)
        /\ r.resizes \in Seq(SizePairs) /\ s.resizes \in Seq(SizePairs)
        /\ t.resizes \in Seq(SizePairs)
        /\ r.replies \in Seq(Refusals) /\ s.replies \in Seq(Refusals)
        /\ t.replies \in Seq(Refusals)
    BY DEF Yields
  <2>2. \A a, b, c \in Seq(Bytes) : (a \o b) \o c = a \o (b \o c)
    BY Associative
  <2>3. \A a, b, c \in Seq(SizePairs) : (a \o b) \o c = a \o (b \o c)
    BY Associative
  <2>4. \A a, b, c \in Seq(Refusals) : (a \o b) \o c = a \o (b \o c)
    BY Associative
  <2>5. (r.data \o s.data) \o t.data = r.data \o (s.data \o t.data)
    BY <2>1, <2>2, Zenon
  <2>6. (r.resizes \o s.resizes) \o t.resizes = r.resizes \o (s.resizes \o t.resizes)
    BY <2>1, <2>3, Zenon
  <2>7. (r.replies \o s.replies) \o t.replies = r.replies \o (s.replies \o t.replies)
    BY <2>1, <2>4, Zenon
  <2> QED
    BY <2>5, <2>6, <2>7
<1> QED
  BY <1>1 DEF Join

LEMMA JoinNothing ==
  ASSUME NEW r \in Yields
  PROVE  Join(r, Nothing(r.p)) = r /\ \A p : Join(Nothing(p), r) = r
<1>1. /\ r.data \o <<>> = r.data /\ <<>> \o r.data = r.data
      /\ r.resizes \o <<>> = r.resizes /\ <<>> \o r.resizes = r.resizes
      /\ r.replies \o <<>> = r.replies /\ <<>> \o r.replies = r.replies
  BY ConcatEmptySeq DEF Yields
<1> QED
  BY <1>1 DEF Join, Nothing, Yield, Yields

LEMMA AppendOne ==
  ASSUME NEW S, NEW q \in Seq(S), NEW e \in S
  PROVE  /\ Append(q, e) = q \o <<e>> /\ Append(q, e) \in Seq(S)
         /\ <<e>> \in Seq(S) /\ Append(<<>>, e) = <<e>>
<1>1. Append(q, e) = q \o <<e>> /\ Append(q, e) \in Seq(S)
  BY AppendIsConcat, AppendProperties
<1>2. <<e>> \in Seq(S) /\ Append(<<>>, e) = <<e>>
  OBVIOUS
<1> QED
  BY <1>1, <1>2

LEMMA NegotiateType ==
  ASSUME NEW c, NEW b \in Bytes
  PROVE  negotiate(c, b) \in Seq(Refusals)
<1>1. <<>> \in Seq(Refusals)
  BY EmptySeq
<1>2. <<<<"WONT", b>>>> \in Seq(Refusals) /\ <<<<"DONT", b>>>> \in Seq(Refusals)
  <2>1. <<"WONT", b>> \in Refusals /\ <<"DONT", b>> \in Refusals
    BY DEF Refusals
  <2> QED
    BY <2>1
<1> QED
  BY <1>1, <1>2 DEF negotiate

LEMMA EndSubnegType ==
  ASSUME NEW sb \in Seq(Bytes)
  PROVE  end_subneg(sb) \in Seq(SizePairs)
<1> DEFINE cols == SubSeq(sb, 2, 1 + DimBytes)
           rows == SubSeq(sb, 2 + DimBytes, 1 + 2 * DimBytes)
<1>0. <<>> \in Seq(SizePairs)
  BY EmptySeq
<1>1. CASE Len(sb) >= 1 + 2 * DimBytes
  <2>1. cols \in Seq(Bytes)
    <3>1. \A i \in 2..(1 + DimBytes) : sb[i] \in Bytes
      BY <1>1, TelnetAssumption
    <3> QED
      BY <3>1, SubSeqProperties, TelnetAssumption
  <2>2. rows \in Seq(Bytes)
    <3>1. \A i \in (2 + DimBytes)..(1 + 2 * DimBytes) : sb[i] \in Bytes
      BY <1>1, TelnetAssumption
    <3> QED
      BY <3>1, SubSeqProperties, TelnetAssumption
  <2>3. <<rows, cols>> \in SizePairs
    BY <2>1, <2>2 DEF SizePairs
  <2>4. <<<<rows, cols>>>> \in Seq(SizePairs)
    BY <2>3
  <2> QED
    BY <1>0, <2>4 DEF end_subneg
<1>2. CASE ~(Len(sb) >= 1 + 2 * DimBytes)
  BY <1>0, <1>2 DEF end_subneg
<1> QED
  BY <1>1, <1>2

LEMMA SbAppendType ==
  ASSUME NEW sb \in Seq(Bytes), NEW b \in Bytes
  PROVE  sb_append(sb, b) \in Seq(Bytes)
BY DEF sb_append

\* The cap holds for what is appended under it and what an escape adds.
LEMMA CapKept ==
  ASSUME NEW sb \in Seq(Bytes), NEW b \in Bytes, Cardinality(Capped(sb)) <= MAX_SUBNEG_LEN
  PROVE  /\ Cardinality(Capped(<<>>)) <= MAX_SUBNEG_LEN
         /\ Cardinality(Capped(sb_append(sb, b))) <= MAX_SUBNEG_LEN
         /\ b = "IAC" => Cardinality(Capped(Append(sb, b))) <= MAX_SUBNEG_LEN
<1>1. Cardinality(Capped(<<>>)) <= MAX_SUBNEG_LEN
  <2>1. Capped(<<>>) = {}
    BY DEF Capped
  <2>2. Cardinality(Capped(<<>>)) = 0
    BY <2>1, FS_EmptySet, Zenon
  <2> QED
    BY <2>2, TelnetAssumption
<1>2. ASSUME b = "IAC"
      PROVE  Capped(Append(sb, b)) = Capped(sb)
  BY <1>2 DEF Capped
<1>3. CASE Len(sb) < MAX_SUBNEG_LEN
  <2>1. /\ Append(sb, b) \in Seq(Bytes) /\ Len(Append(sb, b)) = Len(sb) + 1
        /\ Len(sb) \in Nat /\ sb_append(sb, b) = Append(sb, b)
    BY <1>3 DEF sb_append
  <2>2. Capped(Append(sb, b)) \in SUBSET (1..(Len(sb) + 1))
    BY <2>1 DEF Capped
  <2>3. IsFiniteSet(1..(Len(sb) + 1)) /\ Cardinality(1..(Len(sb) + 1)) = Len(sb) + 1
    <3>1. /\ 1 \in Int /\ Len(sb) + 1 \in Int
          /\ Len(sb) + 1 = IF 1 > Len(sb) + 1 THEN 0 ELSE (Len(sb) + 1) - 1 + 1
      BY <2>1
    <3> QED
      BY <3>1, FS_Interval, Zenon
  <2>4. /\ Cardinality(Capped(Append(sb, b))) <= Len(sb) + 1
        /\ Cardinality(Capped(Append(sb, b))) \in Nat
    BY <2>2, <2>3, FS_Subset, FS_CardinalityType
  <2>5. Cardinality(Capped(Append(sb, b))) <= MAX_SUBNEG_LEN
    BY <1>3, <2>1, <2>4, TelnetAssumption
  <2> QED
    BY <1>1, <2>1, <2>5
<1>4. CASE ~(Len(sb) < MAX_SUBNEG_LEN)
  <2>1. sb_append(sb, b) = sb
    BY <1>4 DEF sb_append
  <2> QED
    BY <1>1, <1>2, <2>1
<1> QED
  BY <1>3, <1>4

\* A parser and a yield by their fields.
Fed(st, c, sb, d, z, y) == Yield([state |-> st, cmd |-> c, sb |-> sb], d, z, y)

LEMMA FedType ==
  ASSUME NEW st \in States, NEW c \in Negotiations \cup {"none"}, NEW sb \in Seq(Bytes),
         NEW d \in Seq(Bytes), NEW z \in Seq(SizePairs), NEW y \in Seq(Refusals),
         (st = "opt") = (c # "none"), Cardinality(Capped(sb)) <= MAX_SUBNEG_LEN
  PROVE  Fed(st, c, sb, d, z, y) \in Yields
<1> DEFINE p == [state |-> st, cmd |-> c, sb |-> sb]
<1>1. p \in [state : States, cmd : Negotiations \cup {"none"}, sb : Seq(Bytes)] /\ ParserTypeOK(p)
  BY DEF ParserTypeOK, States
<1> QED
  BY <1>1 DEF Fed, Yield, Yields, Parsers

LEMMA ParserExcept ==
  ASSUME NEW p \in Parsers, NEW x, NEW st
  PROVE  /\ [p EXCEPT !.cmd = x, !.state = st] = [state |-> st, cmd |-> x, sb |-> p.sb]
         /\ [p EXCEPT !.sb = x, !.state = st] = [state |-> st, cmd |-> p.cmd, sb |-> x]
<1> DEFINE D == {"state", "cmd", "sb"}
           a == [p EXCEPT !.cmd = x, !.state = st]
           b == [state |-> st, cmd |-> x, sb |-> p.sb]
           c == [p EXCEPT !.sb = x, !.state = st]
           d == [state |-> st, cmd |-> p.cmd, sb |-> x]
<1>1. DOMAIN p = D
  BY DEF Parsers
<1>2. DOMAIN a = D /\ DOMAIN b = D /\ DOMAIN c = D /\ DOMAIN d = D
  BY <1>1
<1>3. a = b
  <2>1. a.state = b.state /\ a.cmd = b.cmd /\ a.sb = b.sb
    BY <1>1
  <2>2. a = [i \in D |-> a[i]] /\ b = [i \in D |-> b[i]]
    BY <1>2
  <2> QED
    BY <2>1, <2>2
<1>4. c = d
  <2>1. c.state = d.state /\ c.cmd = d.cmd /\ c.sb = d.sb
    BY <1>1
  <2>2. c = [i \in D |-> c[i]] /\ d = [i \in D |-> d[i]]
    BY <1>2
  <2> QED
    BY <2>1, <2>2
<1> QED
  BY <1>3, <1>4

\* What one byte does to the parser, and what it adds to the yield of the
\* chunk, depends on the parser and on the byte only.
LEMMA StepIsJoin ==
  ASSUME NEW p \in Parsers, NEW b \in Bytes
  PROVE  \E s \in Yields : \A q \in Yields : q.p = p => FeedByte(q, b) = Join(q, s)
<1>0. /\ p = [state |-> p.state, cmd |-> p.cmd, sb |-> p.sb]
      /\ p.state \in States /\ p.cmd \in Negotiations \cup {"none"} /\ p.sb \in Seq(Bytes)
  BY DEF Parsers
<1>11. (p.state = "opt") = (p.cmd # "none") /\ Cardinality(Capped(p.sb)) <= MAX_SUBNEG_LEN
  BY DEF Parsers, ParserTypeOK
<1>1. ASSUME NEW q \in Yields
      PROVE  /\ q = [p |-> q.p, data |-> q.data, resizes |-> q.resizes, replies |-> q.replies]
             /\ q.data \in Seq(Bytes) /\ q.data \o <<>> = q.data
             /\ q.resizes \in Seq(SizePairs) /\ q.resizes \o <<>> = q.resizes
             /\ q.replies \in Seq(Refusals) /\ q.replies \o <<>> = q.replies
  <2>1. /\ q = [p |-> q.p, data |-> q.data, resizes |-> q.resizes, replies |-> q.replies]
        /\ q.data \in Seq(Bytes) /\ q.resizes \in Seq(SizePairs) /\ q.replies \in Seq(Refusals)
    BY DEF Yields
  <2> QED
    BY <2>1, ConcatEmptySeq
<1>3. /\ <<>> \in Seq(Bytes) /\ <<>> \in Seq(SizePairs) /\ <<>> \in Seq(Refusals)
      /\ <<b>> \in Seq(Bytes) /\ Append(p.sb, b) \in Seq(Bytes) /\ sb_append(p.sb, b) \in Seq(Bytes)
      /\ negotiate(p.cmd, b) \in Seq(Refusals) /\ end_subneg(p.sb) \in Seq(SizePairs)
  BY <1>0, EmptySeq, AppendOne, SbAppendType, NegotiateType, EndSubnegType
<1>10. /\ Cardinality(Capped(<<>>)) <= MAX_SUBNEG_LEN
       /\ Cardinality(Capped(sb_append(p.sb, b))) <= MAX_SUBNEG_LEN
       /\ b = "IAC" => Cardinality(Capped(Append(p.sb, b))) <= MAX_SUBNEG_LEN
  BY <1>0, <1>11, CapKept
<1>2. /\ "data" \in States /\ "iac" \in States /\ "opt" \in States /\ "sb" \in States
       /\ "sb_iac" \in States /\ Negotiations \subseteq Negotiations \cup {"none"}
       /\ "none" \in Negotiations \cup {"none"}
  BY DEF States
<1>4. \A q \in Yields : q.p = p =>
        /\ p.state = "data" => FeedByte(q, b) = InData(q, b)
        /\ p.state = "iac" => FeedByte(q, b) = InIac(q, b)
        /\ p.state = "opt" => FeedByte(q, b) = InOpt(q, b)
        /\ p.state = "sb" => FeedByte(q, b) = InSb(q, b)
        /\ p.state = "sb_iac" => FeedByte(q, b) = InSbIac(q, b)
  BY DEF FeedByte
<1>5. CASE p.state = "data"
  <2>1. CASE b = "IAC"
    <3>1. ASSUME NEW q \in Yields, q.p = p
          PROVE  FeedByte(q, b) = Join(q, Fed("iac", p.cmd, p.sb, <<>>, <<>>, <<>>))
      BY <1>0, <1>1, <1>4, <1>5, <2>1, <3>1 DEF InData, Fed, Yield, Join
    <3>2. Fed("iac", p.cmd, p.sb, <<>>, <<>>, <<>>) \in Yields
      BY <1>0, <1>3, <1>2, <1>10, <1>11, <1>5, <2>1, FedType DEF Negotiations
    <3> QED
      BY <3>2, <3>1, Zenon
  <2>2. CASE b # "IAC"
    <3>1. ASSUME NEW q \in Yields, q.p = p
          PROVE  FeedByte(q, b) = Join(q, Fed("data", p.cmd, p.sb, <<b>>, <<>>, <<>>))
      <4>1. Append(q.data, b) = q.data \o <<b>>
        BY <1>1, AppendOne
      <4> QED
        BY <1>0, <1>1, <1>4, <1>5, <2>2, <3>1, <4>1 DEF InData, Fed, Yield, Join
    <3>2. Fed("data", p.cmd, p.sb, <<b>>, <<>>, <<>>) \in Yields
      BY <1>0, <1>3, <1>2, <1>10, <1>11, <1>5, <2>2, FedType DEF Negotiations
    <3> QED
      BY <3>2, <3>1, Zenon
  <2> QED
    BY <2>1, <2>2
<1>6. CASE p.state = "iac"
  <2>1. CASE b = "IAC"
    <3>1. ASSUME NEW q \in Yields, q.p = p
          PROVE  FeedByte(q, b) = Join(q, Fed("data", p.cmd, p.sb, <<b>>, <<>>, <<>>))
      <4> DEFINE v == Append(q.data, b)
      <4>1. FeedByte(q, b)
            = Yield([state |-> "data", cmd |-> p.cmd, sb |-> p.sb], v, q.resizes, q.replies)
        <5>1. FeedByte(q, b) = Yield([p EXCEPT !.state = "data"], v, q.resizes, q.replies)
          BY <1>4, <1>6, <2>1, <3>1 DEF InIac, Negotiations
        <5>2. [p EXCEPT !.state = "data"] = [state |-> "data", cmd |-> p.cmd, sb |-> p.sb]
          BY <1>0
        <5> QED
          BY <5>1, <5>2
      <4>0. v = q.data \o <<b>>
        BY <1>1, AppendOne
      <4> HIDE DEF v
      <4>2. Join(q, Fed("data", p.cmd, p.sb, <<b>>, <<>>, <<>>))
            = Yield([state |-> "data", cmd |-> p.cmd, sb |-> p.sb], v, q.resizes, q.replies)
        BY <1>1, <4>0, <3>1 DEF Join, Fed, Yield
      <4> QED
        BY <4>1, <4>2 DEF v
    <3>2. Fed("data", p.cmd, p.sb, <<b>>, <<>>, <<>>) \in Yields
      BY <1>0, <1>3, <1>2, <1>10, <1>11, <1>6, <2>1, FedType DEF Negotiations
    <3> QED
      BY <3>2, <3>1, Zenon
  <2>2. CASE b \in Negotiations
    <3>1. ASSUME NEW q \in Yields, q.p = p
          PROVE  FeedByte(q, b) = Join(q, Fed("opt", b, p.sb, <<>>, <<>>, <<>>))
      BY <1>0, <1>1, <1>4, <1>6, <2>2, <3>1 DEF InIac, Fed, Yield, Join, Negotiations
    <3>2. Fed("opt", b, p.sb, <<>>, <<>>, <<>>) \in Yields
      BY <1>0, <1>3, <1>2, <1>10, <1>11, <1>6, <2>2, FedType DEF Negotiations
    <3> QED
      BY <3>2, <3>1, Zenon
  <2>3. CASE b = "SB"
    <3>1. ASSUME NEW q \in Yields, q.p = p
          PROVE  FeedByte(q, b) = Join(q, Fed("sb", p.cmd, <<>>, <<>>, <<>>, <<>>))
      BY <1>0, <1>1, <1>4, <1>6, <2>3, <3>1 DEF InIac, Fed, Yield, Join, Negotiations
    <3>2. Fed("sb", p.cmd, <<>>, <<>>, <<>>, <<>>) \in Yields
      BY <1>0, <1>3, <1>2, <1>10, <1>11, <1>6, <2>3, FedType DEF Negotiations
    <3> QED
      BY <3>2, <3>1, Zenon
  <2>4. CASE b \notin Negotiations \cup {"IAC", "SB"}
    <3>1. ASSUME NEW q \in Yields, q.p = p
          PROVE  FeedByte(q, b) = Join(q, Fed("data", p.cmd, p.sb, <<>>, <<>>, <<>>))
      BY <1>0, <1>1, <1>4, <1>6, <2>4, <3>1 DEF InIac, Fed, Yield, Join
    <3>2. Fed("data", p.cmd, p.sb, <<>>, <<>>, <<>>) \in Yields
      BY <1>0, <1>3, <1>2, <1>10, <1>11, <1>6, <2>4, FedType DEF Negotiations
    <3> QED
      BY <3>2, <3>1, Zenon
  <2> QED
    BY <2>1, <2>2, <2>3, <2>4
<1>7. CASE p.state = "opt"
  <2>1. ASSUME NEW q \in Yields, q.p = p
        PROVE  FeedByte(q, b) = Join(q, Fed("data", "none", p.sb, <<>>, <<>>, negotiate(p.cmd, b)))
    <3> DEFINE v == negotiate(p.cmd, b)
    <3>1. FeedByte(q, b)
          = Yield([state |-> "data", cmd |-> "none", sb |-> p.sb], q.data, q.resizes, q.replies \o v)
      <4>1. FeedByte(q, b) =
              Yield([p EXCEPT !.cmd = "none", !.state = "data"], q.data, q.resizes, q.replies \o v)
        BY <1>4, <1>7, <2>1 DEF InOpt
      <4>2. [p EXCEPT !.cmd = "none", !.state = "data"] =
              [state |-> "data", cmd |-> "none", sb |-> p.sb]
        BY ParserExcept
      <4> QED
        BY <4>1, <4>2
    <3> HIDE DEF v
    <3>2. Join(q, Fed("data", "none", p.sb, <<>>, <<>>, v))
          = Yield([state |-> "data", cmd |-> "none", sb |-> p.sb], q.data, q.resizes, q.replies \o v)
      BY <1>1, <2>1 DEF Join, Fed, Yield
    <3> QED
      BY <3>1, <3>2 DEF v
  <2>2. Fed("data", "none", p.sb, <<>>, <<>>, negotiate(p.cmd, b)) \in Yields
    BY <1>0, <1>3, <1>2, <1>10, <1>11, <1>7, FedType DEF Negotiations
  <2> QED
    BY <2>2, <2>1, Zenon
<1>8. CASE p.state = "sb"
  <2>1. CASE b = "IAC"
    <3>1. ASSUME NEW q \in Yields, q.p = p
          PROVE  FeedByte(q, b) = Join(q, Fed("sb_iac", p.cmd, p.sb, <<>>, <<>>, <<>>))
      BY <1>0, <1>1, <1>4, <1>8, <2>1, <3>1 DEF InSb, Fed, Yield, Join
    <3>2. Fed("sb_iac", p.cmd, p.sb, <<>>, <<>>, <<>>) \in Yields
      BY <1>0, <1>3, <1>2, <1>10, <1>11, <1>8, <2>1, FedType DEF Negotiations
    <3> QED
      BY <3>2, <3>1, Zenon
  <2>2. CASE b # "IAC"
    <3>1. ASSUME NEW q \in Yields, q.p = p
          PROVE  FeedByte(q, b) = Join(q, Fed("sb", p.cmd, sb_append(p.sb, b), <<>>, <<>>, <<>>))
      <4> DEFINE v == sb_append(p.sb, b)
      <4>1. FeedByte(q, b)
            = Yield([state |-> p.state, cmd |-> p.cmd, sb |-> v], q.data, q.resizes, q.replies)
        <5>1. FeedByte(q, b) = [q EXCEPT !.p.sb = v]
          BY <1>4, <1>8, <2>2, <3>1 DEF InSb
        <5> HIDE DEF v
        <5>2. [q EXCEPT !.p.sb = v]
              = Yield([state |-> p.state, cmd |-> p.cmd, sb |-> v], q.data, q.resizes, q.replies)
          <6>1. q = [p |-> p, data |-> q.data, resizes |-> q.resizes, replies |-> q.replies]
            BY <1>1, <3>1
          <6>2. p = [state |-> p.state, cmd |-> p.cmd, sb |-> p.sb]
            BY <1>0
          <6> QED
            BY <6>1, <6>2 DEF Yield
        <5> QED
          BY <5>1, <5>2
      <4> HIDE DEF v
      <4>2. Join(q, Fed("sb", p.cmd, v, <<>>, <<>>, <<>>))
            = Yield([state |-> p.state, cmd |-> p.cmd, sb |-> v], q.data, q.resizes, q.replies)
        BY <1>1, <1>8, <3>1 DEF Join, Fed, Yield
      <4> QED
        BY <4>1, <4>2 DEF v
    <3>2. Fed("sb", p.cmd, sb_append(p.sb, b), <<>>, <<>>, <<>>) \in Yields
      BY <1>0, <1>3, <1>2, <1>10, <1>11, <1>8, <2>2, FedType DEF Negotiations
    <3> QED
      BY <3>2, <3>1, Zenon
  <2> QED
    BY <2>1, <2>2
<1>9. CASE p.state = "sb_iac"
  <2>1. CASE b = "IAC"
    <3>1. ASSUME NEW q \in Yields, q.p = p
          PROVE  FeedByte(q, b) = Join(q, Fed("sb", p.cmd, Append(p.sb, b), <<>>, <<>>, <<>>))
      BY <1>0, <1>1, <1>4, <1>9, <2>1, <3>1, ParserExcept DEF InSbIac, Fed, Yield, Join
    <3>2. Fed("sb", p.cmd, Append(p.sb, b), <<>>, <<>>, <<>>) \in Yields
      BY <1>0, <1>3, <1>2, <1>10, <1>11, <1>9, <2>1, FedType DEF Negotiations
    <3> QED
      BY <3>2, <3>1, Zenon
  <2>2. CASE b # "IAC"
    <3>1. ASSUME NEW q \in Yields, q.p = p
          PROVE  FeedByte(q, b) = Join(q, Fed("data", p.cmd, <<>>, <<>>, end_subneg(p.sb), <<>>))
      <4> DEFINE v == end_subneg(p.sb)
      <4>1. FeedByte(q, b)
            = Yield([state |-> "data", cmd |-> p.cmd, sb |-> <<>>], q.data, q.resizes \o v, q.replies)
        BY <1>4, <1>9, <2>2, <3>1, ParserExcept DEF InSbIac
      <4> HIDE DEF v
      <4>2. Join(q, Fed("data", p.cmd, <<>>, <<>>, v, <<>>))
            = Yield([state |-> "data", cmd |-> p.cmd, sb |-> <<>>], q.data, q.resizes \o v, q.replies)
        BY <1>1, <3>1 DEF Join, Fed, Yield
      <4> QED
        BY <4>1, <4>2 DEF v
    <3>2. Fed("data", p.cmd, <<>>, <<>>, end_subneg(p.sb), <<>>) \in Yields
      BY <1>0, <1>3, <1>2, <1>10, <1>11, <1>9, <2>2, FedType DEF Negotiations
    <3> QED
      BY <3>2, <3>1, Zenon
  <2> QED
    BY <2>1, <2>2
<1> QED
  BY <1>0, <1>5, <1>6, <1>7, <1>8, <1>9 DEF States

-----------------------------------------------------------------------------
(* A chunk: what feed yields, and that it does not matter where a stream of *)
(* bytes is cut.                                                           *)

\* g is the run of the parser over the first n bytes of chunk.  The lemmas on
\* runs do not say that chunk is a sequence: tlapm's encoding of Len is not
\* made for functions on 0..n that stand beside sequences.
Run(g, p, chunk, n) ==
  /\ g \in [0..n -> Yields] /\ g[0] = Nothing(p)
  /\ \A i \in 1..n : g[i] = FeedByte(g[i - 1], chunk[i])

LEMMA FeedByteType ==
  ASSUME NEW r \in Yields, NEW b \in Bytes
  PROVE  FeedByte(r, b) \in Yields
<1>1. r.p \in Parsers
  BY DEF Yields
<1>2. PICK s \in Yields : \A q \in Yields : q.p = r.p => FeedByte(q, b) = Join(q, s)
  BY <1>1, StepIsJoin
<1>3. FeedByte(r, b) = Join(r, s)
  BY <1>2
<1> QED
  BY <1>3, JoinType

\* What has been yielded before a byte only stands before what it yields.
LEMMA FeedByteJoin ==
  ASSUME NEW r \in Yields, NEW s \in Yields, NEW b \in Bytes
  PROVE  FeedByte(Join(r, s), b) = Join(r, FeedByte(s, b))
<1>1. s.p \in Parsers
  BY DEF Yields
<1>2. PICK x \in Yields : \A q \in Yields : q.p = s.p => FeedByte(q, b) = Join(q, x)
  BY <1>1, StepIsJoin
<1>3. Join(r, s) \in Yields /\ Join(r, s).p = s.p
  BY JoinType DEF Join
<1>4. FeedByte(Join(r, s), b) = Join(Join(r, s), x) /\ FeedByte(s, b) = Join(s, x)
  BY <1>2, <1>3
<1> QED
  BY <1>4, JoinAssociative

\* The recursive function of feed exists.
LEMMA RunExists ==
  ASSUME NEW p \in Parsers, NEW chunk, NEW N \in Nat, \A i \in 1..N : chunk[i] \in Bytes
  PROVE  \E g : Run(g, p, chunk, N)
<1> DEFINE T == {n \in Nat : n <= N => \E f : Run(f, p, chunk, n)}
<1>0. Nothing(p) \in Yields
  BY NothingType
<1>1. 0 \in T
  <2> DEFINE f == [i \in 0..0 |-> Nothing(p)]
  <2>1. f \in [0..0 -> Yields] /\ f[0] = Nothing(p)
    BY <1>0
  <2>2. Run(f, p, chunk, 0)
    BY <2>1 DEF Run
  <2> QED
    BY <2>2
<1>2. ASSUME NEW n \in Nat, n \in T
      PROVE  n + 1 \in T
  <2> SUFFICES ASSUME n + 1 <= N
               PROVE  \E f : Run(f, p, chunk, n + 1)
    OBVIOUS
  <2>1. PICK f : Run(f, p, chunk, n)
    BY <1>2
  <2> DEFINE h == [i \in 0..(n + 1) |-> IF i = n + 1 THEN FeedByte(f[n], chunk[n + 1]) ELSE f[i]]
  <2>2. chunk[n + 1] \in Bytes /\ f[n] \in Yields
    BY <2>1 DEF Run
  <2>3. FeedByte(f[n], chunk[n + 1]) \in Yields
    BY <2>2, FeedByteType
  <2>4. h \in [0..(n + 1) -> Yields]
    BY <2>1, <2>3 DEF Run
  <2>5. h[0] = Nothing(p)
    BY <2>1 DEF Run
  <2>6. ASSUME NEW i \in 1..(n + 1)
        PROVE  h[i] = FeedByte(h[i - 1], chunk[i])
    <3>1. CASE i = n + 1
      BY <3>1
    <3>2. CASE i # n + 1
      <4>1. i \in 1..n /\ i - 1 \in 0..n /\ i - 1 # n + 1 /\ i \in 0..(n + 1) /\ i - 1 \in 0..(n + 1)
        BY <3>2
      <4>2. h[i] = f[i] /\ h[i - 1] = f[i - 1]
        BY <3>2, <4>1
      <4> QED
        BY <2>1, <4>1, <4>2 DEF Run
    <3> QED
      BY <3>1, <3>2
  <2>7. Run(h, p, chunk, n + 1)
    BY <2>4, <2>5, <2>6 DEF Run
  <2> QED
    BY <2>7
<1>3. N \in T
  <2>1. Nat \subseteq T
    BY <1>1, <1>2, SetInduction
  <2> QED
    BY <2>1
<1> QED
  BY <1>3

\* A function that satisfies the recursive equation of feed, and a run of the
\* parser, are the same.
Equation(f, p, chunk, n) ==
  f = [i \in 0..n |-> IF i = 0 THEN Nothing(p) ELSE FeedByte(f[i - 1], chunk[i])]

LEMMA RunSolves ==
  ASSUME NEW p, NEW chunk, NEW n \in Nat, NEW g, Run(g, p, chunk, n)
  PROVE  Equation(g, p, chunk, n)
<1>1. DOMAIN g = 0..n /\ g = [i \in 0..n |-> g[i]]
  BY DEF Run
<1>2. ASSUME NEW i \in 0..n
      PROVE  g[i] = IF i = 0 THEN Nothing(p) ELSE FeedByte(g[i - 1], chunk[i])
  BY DEF Run
<1> QED
  BY <1>1, <1>2 DEF Equation

LEMMA SolutionRuns ==
  ASSUME NEW p \in Parsers, NEW chunk, NEW N \in Nat, \A i \in 1..N : chunk[i] \in Bytes,
         NEW f, Equation(f, p, chunk, N)
  PROVE  Run(f, p, chunk, N)
<1> DEFINE T == {n \in Nat : n <= N => f[n] \in Yields}
<1>0. DOMAIN f = 0..N /\ f[0] = Nothing(p) /\ Nothing(p) \in Yields
  BY NothingType DEF Equation
<1>1. \A i \in 1..N : f[i] = FeedByte(f[i - 1], chunk[i])
  BY DEF Equation
<1>2. 0 \in T
  BY <1>0
<1>3. ASSUME NEW n \in Nat, n \in T
      PROVE  n + 1 \in T
  <2> SUFFICES ASSUME n + 1 <= N
               PROVE  f[n + 1] \in Yields
    OBVIOUS
  <2>1. f[n] \in Yields /\ chunk[n + 1] \in Bytes
    BY <1>3
  <2>2. f[n + 1] = FeedByte(f[n], chunk[n + 1])
    BY <1>1
  <2> QED
    BY <2>1, <2>2, FeedByteType
<1>4. \A n \in 0..N : f[n] \in Yields
  <2>1. Nat \subseteq T
    BY <1>2, <1>3, SetInduction
  <2> QED
    BY <2>1
<1>5. f \in [0..N -> Yields]
  <2>1. f = [i \in 0..N |-> f[i]]
    BY <1>0 DEF Equation
  <2> QED
    BY <1>4, <2>1
<1> QED
  BY <1>0, <1>1, <1>5 DEF Run

LEMMA FeedRuns ==
  ASSUME NEW p \in Parsers, NEW chunk \in Seq(Bytes)
  PROVE  \E g : Run(g, p, chunk, Len(chunk)) /\ feed(p, chunk) = g[Len(chunk)]
<1> DEFINE after == CHOOSE f : Equation(f, p, chunk, Len(chunk))
<1>1. Len(chunk) \in Nat /\ \A i \in 1..Len(chunk) : chunk[i] \in Bytes
  OBVIOUS
<1>2. PICK g : Run(g, p, chunk, Len(chunk))
  BY <1>1, RunExists, Zenon
<1>3. Equation(g, p, chunk, Len(chunk))
  BY <1>1, <1>2, RunSolves, Zenon
<1>4. Equation(after, p, chunk, Len(chunk))
  BY <1>3, Zenon
<1>5. feed(p, chunk) = after[Len(chunk)]
  BY Zenon DEF feed, Equation, Nothing
<1> HIDE DEF after
<1>6. Run(after, p, chunk, Len(chunk))
  BY <1>1, <1>4, SolutionRuns, Zenon
<1> QED
  BY <1>5, <1>6, Zenon

\* The first m elements of c are those of a, the next n those of b.
Spliced(a, m, b, n, c) ==
  /\ \A i \in 1..m : c[i] = a[i]
  /\ \A i \in 1..n : c[m + i] = b[i] /\ b[i] \in Bytes

\* Runs over a and then b, and one over the bytes of both.
LEMMA RunsJoin ==
  ASSUME NEW m \in Nat, NEW n \in Nat, NEW p, NEW a, NEW b, NEW c, Spliced(a, m, b, n, c),
         NEW f, Run(f, p, a, m), NEW g, Run(g, f[m].p, b, n), NEW h, Run(h, p, c, m + n)
  PROVE  h[m + n] = Join(f[m], g[n])
<1> DEFINE T == {i \in Nat : i <= m => h[i] = f[i]}
           U == {i \in Nat : i <= n => h[m + i] = Join(f[m], g[i])}
<1>1. h[m] = f[m]
  <2>1. 0 \in T
    BY DEF Run
  <2>2. ASSUME NEW i \in Nat, i \in T
        PROVE  i + 1 \in T
    <3> SUFFICES ASSUME i + 1 <= m
                 PROVE  h[i + 1] = f[i + 1]
      OBVIOUS
    <3>1. h[i] = f[i] /\ i + 1 \in 1..m /\ i + 1 \in 1..(m + n) /\ (i + 1) - 1 = i
      BY <2>2
    <3>2. h[i + 1] = FeedByte(h[i], c[i + 1]) /\ f[i + 1] = FeedByte(f[i], a[i + 1])
      BY <3>1 DEF Run
    <3> QED
      BY <3>1, <3>2 DEF Spliced
  <2>3. Nat \subseteq T
    BY <2>1, <2>2, SetInduction
  <2> QED
    BY <2>3
<1>2. f[m] \in Yields
  BY DEF Run
<1>3. 0 \in U
  <2>1. g[0] = Nothing(f[m].p)
    BY DEF Run
  <2>2. Join(f[m], g[0]) = f[m]
    BY <1>2, <2>1, JoinNothing
  <2> QED
    BY <1>1, <2>2
<1>4. ASSUME NEW i \in Nat, i \in U
      PROVE  i + 1 \in U
  <2> SUFFICES ASSUME i + 1 <= n
               PROVE  h[m + (i + 1)] = Join(f[m], g[i + 1])
    OBVIOUS
  <2>1. /\ h[m + i] = Join(f[m], g[i]) /\ i + 1 \in 1..n /\ m + (i + 1) \in 1..(m + n)
        /\ (i + 1) - 1 = i /\ (m + (i + 1)) - 1 = m + i /\ i \in 0..n
    BY <1>4
  <2>2. h[m + (i + 1)] = FeedByte(h[m + i], c[m + (i + 1)]) /\ g[i + 1] = FeedByte(g[i], b[i + 1])
    BY <2>1 DEF Run
  <2>3. c[m + (i + 1)] = b[i + 1] /\ b[i + 1] \in Bytes /\ g[i] \in Yields
    BY <2>1 DEF Run, Spliced
  <2>4. FeedByte(Join(f[m], g[i]), b[i + 1]) = Join(f[m], FeedByte(g[i], b[i + 1]))
    BY <1>2, <2>3, FeedByteJoin
  <2> QED
    BY <2>1, <2>2, <2>3, <2>4
<1>5. Nat \subseteq U
  BY <1>3, <1>4, SetInduction
<1> QED
  BY <1>5

Joined(a, m, b, n, c) ==
  \A p, f, g, h :
    Run(f, p, a, m) /\ Run(g, f[m].p, b, n) /\ Run(h, p, c, m + n)
    => h[m + n] = Join(f[m], g[n])

LEMMA RunsJoinAll ==
  \A m, n \in Nat : \A a, b, c : Spliced(a, m, b, n, c) => Joined(a, m, b, n, c)
BY RunsJoin DEF Joined

LEMMA FeedType ==
  ASSUME NEW p \in Parsers, NEW chunk \in Seq(Bytes)
  PROVE  feed(p, chunk) \in Yields /\ feed(p, chunk).p \in Parsers
<1>1. PICK g : Run(g, p, chunk, Len(chunk)) /\ feed(p, chunk) = g[Len(chunk)]
  BY FeedRuns, Zenon
<1>2. \A n \in Nat : Run(g, p, chunk, n) => g[n] \in Yields
  BY DEF Run
<1>3. Len(chunk) \in Nat
  OBVIOUS
<1>4. feed(p, chunk) \in Yields
  BY <1>1, <1>2, <1>3, Zenon
<1> QED
  BY <1>4 DEF Yields

LEMMA FeedEmpty ==
  ASSUME NEW p \in Parsers
  PROVE  feed(p, <<>>) = Nothing(p)
<1>1. <<>> \in Seq(Bytes) /\ Len(<<>>) = 0
  BY EmptySeq
<1>2. PICK g : Run(g, p, <<>>, 0) /\ feed(p, <<>>) = g[0]
  BY <1>1, FeedRuns, Zenon
<1> QED
  BY <1>2, Zenon DEF Run

\* Feeding two chunks one after the other yields what feeding them at once
\* does: it does not matter where the stream is cut.
LEMMA FeedCut ==
  ASSUME NEW p \in Parsers, NEW a \in Seq(Bytes), NEW b \in Seq(Bytes)
  PROVE  feed(p, a \o b) = Join(feed(p, a), feed(feed(p, a).p, b))
<1>1. /\ a \o b \in Seq(Bytes) /\ Len(a \o b) = Len(a) + Len(b) /\ Len(a) \in Nat /\ Len(b) \in Nat
      /\ Spliced(a, Len(a), b, Len(b), a \o b)
  BY DEF Spliced
<1>2. PICK f : Run(f, p, a, Len(a)) /\ feed(p, a) = f[Len(a)]
  BY FeedRuns, Zenon
<1>3. PICK g : Run(g, f[Len(a)].p, b, Len(b)) /\ feed(f[Len(a)].p, b) = g[Len(b)]
  BY <1>2, FeedRuns, FeedType, Zenon
<1>4. PICK h : Run(h, p, a \o b, Len(a) + Len(b)) /\ feed(p, a \o b) = h[Len(a) + Len(b)]
  BY <1>1, FeedRuns, Zenon
<1>5. h[Len(a) + Len(b)] = Join(f[Len(a)], g[Len(b)])
  <2>1. Joined(a, Len(a), b, Len(b), a \o b)
    BY <1>1, RunsJoinAll, Zenon
  <2> QED
    BY <1>2, <1>3, <1>4, <2>1, Zenon DEF Joined
<1> QED
  BY <1>2, <1>3, <1>4, <1>5, Zenon

-----------------------------------------------------------------------------
(* What the complete tokens of a telnet client yield.                      *)

\* How a client sends a byte: 0xFF is doubled.
Escape(b) == IF b = "IAC" THEN <<"IAC", "IAC">> ELSE <<b>>

Escaped(s) ==
  LET enc[i \in 0..Len(s)] == IF i = 0 THEN <<>> ELSE enc[i - 1] \o Escape(s[i])
  IN  enc[Len(s)]

\* enc[i] is how the client sends the first i of the n bytes of s.
Escapes(enc, s, n) ==
  /\ enc \in [0..n -> Seq(Bytes)] /\ enc[0] = <<>>
  /\ \A i \in 1..n : enc[i] = enc[i - 1] \o Escape(s[i])

\* The parser within a subnegotiation.
Within(q) == [state |-> "sb", cmd |-> "none", sb |-> q]

LEMMA FeedOne ==
  ASSUME NEW p \in Parsers, NEW b \in Bytes
  PROVE  feed(p, <<b>>) = FeedByte(Nothing(p), b)
<1>1. <<b>> \in Seq(Bytes) /\ Len(<<b>>) = 1 /\ <<b>>[1] = b
  OBVIOUS
<1>2. PICK g : Run(g, p, <<b>>, 1) /\ feed(p, <<b>>) = g[1]
  BY <1>1, FeedRuns, Zenon
<1>3. \A c : Run(g, p, c, 1) => g[1] = FeedByte(Nothing(p), c[1])
  BY DEF Run
<1> QED
  BY <1>1, <1>2, <1>3, Zenon

LEMMA FeedTwo ==
  ASSUME NEW p \in Parsers, NEW a \in Bytes, NEW b \in Bytes
  PROVE  feed(p, <<a, b>>) = Join(feed(p, <<a>>), feed(feed(p, <<a>>).p, <<b>>))
<1>1. <<a>> \in Seq(Bytes) /\ <<b>> \in Seq(Bytes)
  OBVIOUS
<1>2. <<a, b>> = <<a>> \o <<b>>
  <2>1. <<a, b>> \in Seq(Bytes) /\ Len(<<a, b>>) = 2 /\ <<a, b>>[1] = a /\ <<a, b>>[2] = b
    OBVIOUS
  <2>2. Len(<<a>> \o <<b>>) = 2 /\ (<<a>> \o <<b>>)[1] = a /\ (<<a>> \o <<b>>)[2] = b
    OBVIOUS
  <2>3. <<a>> \o <<b>> \in Seq(Bytes)
    BY <1>1, ConcatProperties
  <2>4. \A i \in 1..2 : i = 1 \/ i = 2
    OBVIOUS
  <2>5. \A i \in 1..2 : <<a, b>>[i] = (<<a>> \o <<b>>)[i]
    BY <2>1, <2>2, <2>4, Zenon
  <2> QED
    BY <2>1, <2>2, <2>3, <2>5, SeqEqual, Zenon
<1> QED
  BY <1>1, <1>2, FeedCut, Zenon

LEMMA FreshType == FreshParser \in Parsers
<1>1. Capped(<<>>) = {} /\ Cardinality({}) = 0
  BY FS_EmptySet DEF Capped
<1>2. <<>> \in Seq(Bytes)
  BY EmptySeq
<1>3. FreshParser \in [state : States, cmd : Negotiations \cup {"none"}, sb : Seq(Bytes)]
  BY <1>2 DEF FreshParser, States
<1>4. Cardinality(Capped(FreshParser.sb)) <= MAX_SUBNEG_LEN
  <2>1. Cardinality(Capped(FreshParser.sb)) = 0
    BY <1>1, Zenon DEF FreshParser
  <2> QED
    BY <2>1, TelnetAssumption
<1>5. ParserTypeOK(FreshParser)
  BY <1>4 DEF FreshParser, ParserTypeOK
<1> QED
  BY <1>3, <1>5 DEF Parsers

LEMMA EscapeType ==
  ASSUME NEW b \in Bytes
  PROVE  Escape(b) \in Seq(Bytes)
BY DEF Escape

LEMMA KeyRead ==
  ASSUME NEW b \in Bytes
  PROVE  feed(FreshParser, Escape(b)) = Yield(FreshParser, <<b>>, <<>>, <<>>)
<1>0. FreshParser \in Parsers
  BY FreshType
<1> DEFINE mid == [state |-> "iac", cmd |-> "none", sb |-> <<>>]
<1>1. CASE b # "IAC"
  <2>1. feed(FreshParser, <<b>>) = FeedByte(Nothing(FreshParser), b)
    BY <1>0, FeedOne
  <2>2. Append(<<>>, b) = <<b>>
    OBVIOUS
  <2> QED
    BY <1>1, <2>1, <2>2 DEF Escape, FeedByte, InData, Nothing, Yield, FreshParser
<1>2. CASE b = "IAC"
  <2>1. feed(FreshParser, <<b>>) = Nothing(mid)
    BY <1>0, <1>2, FeedOne DEF FeedByte, InData, Nothing, Yield, FreshParser
  <2>2. feed(FreshParser, <<b>>).p = mid
    BY <2>1 DEF Nothing, Yield
  <2>3. <<b>> \in Seq(Bytes)
    OBVIOUS
  <2>4. mid \in Parsers
    BY <1>0, <2>2, <2>3, FeedType
  <2>5. feed(mid, <<b>>) = Yield(FreshParser, <<b>>, <<>>, <<>>)
    <3>1. feed(mid, <<b>>) = FeedByte(Nothing(mid), b)
      BY <2>4, FeedOne
    <3>2. Append(<<>>, b) = <<b>>
      OBVIOUS
    <3>3. FeedByte(Nothing(mid), b)
            = Yield([Nothing(mid).p EXCEPT !.state = "data"], Append(Nothing(mid).data, "IAC"),
                    Nothing(mid).resizes, Nothing(mid).replies)
      <4> DEFINE r == Nothing(mid)
      <4>1. r.p.state = "iac"
        BY DEF Nothing, Yield
      <4> HIDE DEF r
      <4>2. FeedByte(r, b) = InIac(r, b)
        BY <4>1 DEF FeedByte
      <4>3. InIac(r, b) = Yield([r.p EXCEPT !.state = "data"], Append(r.data, "IAC"), r.resizes, r.replies)
        BY <1>2 DEF InIac, Negotiations
      <4> QED
        BY <4>2, <4>3 DEF r
    <3>4. /\ [Nothing(mid).p EXCEPT !.state = "data"] = FreshParser /\ Nothing(mid).data = <<>>
          /\ Nothing(mid).resizes = <<>> /\ Nothing(mid).replies = <<>>
      BY DEF Nothing, Yield, FreshParser
    <3> QED
      BY <1>2, <3>1, <3>2, <3>3, <3>4, Zenon
  <2>6. feed(FreshParser, <<b, b>>) = Join(Nothing(mid), feed(mid, <<b>>))
    BY <1>0, <2>1, <2>2, FeedTwo
  <2>7. feed(mid, <<b>>) \in Yields
    BY <2>3, <2>4, FeedType
  <2>8. Join(Nothing(mid), feed(mid, <<b>>)) = feed(mid, <<b>>)
    BY <2>7, JoinNothing
  <2> QED
    BY <1>2, <2>5, <2>6, <2>8 DEF Escape
<1> QED
  BY <1>1, <1>2

LEMMA WithinRead ==
  ASSUME NEW q \in Seq(Bytes), Within(q) \in Parsers, Len(q) < MAX_SUBNEG_LEN, NEW b \in Bytes
  PROVE  feed(Within(q), Escape(b)) = Nothing(Within(Append(q, b)))
<1> DEFINE mid == [state |-> "sb_iac", cmd |-> "none", sb |-> q]
           new == Append(q, b)
<1>0. sb_append(q, b) = new
  BY DEF sb_append
<1> HIDE DEF new
<1>1. CASE b # "IAC"
  <2>1. feed(Within(q), <<b>>) = FeedByte(Nothing(Within(q)), b)
    BY FeedOne
  <2> QED
    BY <1>0, <1>1, <2>1 DEF Escape, FeedByte, InSb, Nothing, Yield, Within, new
<1>2. CASE b = "IAC"
  <2>1. feed(Within(q), <<b>>) = Nothing(mid)
    <3>1. feed(Within(q), <<b>>) = FeedByte(Nothing(Within(q)), b)
      BY FeedOne
    <3> QED
      BY <1>2, <3>1 DEF FeedByte, InSb, Nothing, Yield, Within
  <2>2. feed(Within(q), <<b>>).p = mid
    BY <2>1 DEF Nothing, Yield
  <2>3. <<b>> \in Seq(Bytes)
    OBVIOUS
  <2>4. mid \in Parsers
    BY <2>2, <2>3, FeedType
  <2>5. feed(mid, <<b>>) = Nothing(Within(new))
    <3>1. feed(mid, <<b>>) = FeedByte(Nothing(mid), b)
      BY <2>4, FeedOne
    <3> QED
      BY <1>2, <3>1 DEF FeedByte, InSbIac, Nothing, Yield, Within, new
  <2>6. feed(Within(q), <<b, b>>) = Join(Nothing(mid), feed(mid, <<b>>))
    BY <2>1, <2>2, FeedTwo
  <2>7. feed(mid, <<b>>) \in Yields
    BY <2>3, <2>4, FeedType
  <2>8. Join(Nothing(mid), feed(mid, <<b>>)) = feed(mid, <<b>>)
    BY <2>7, JoinNothing
  <2> QED
    BY <1>2, <2>5, <2>6, <2>8 DEF Escape, new
<1> QED
  BY <1>1, <1>2

\* A subnegotiation is opened, its payload gathered, and closed by SE.
LEMMA SubnegOpens ==
  ASSUME "IAC" \in Bytes, "SB" \in Bytes
  PROVE  feed(FreshParser, <<"IAC", "SB">>) = Nothing(Within(<<>>))
<1> DEFINE mid == [state |-> "iac", cmd |-> "none", sb |-> <<>>]
<1>0. FreshParser \in Parsers
  BY FreshType
<1>1. feed(FreshParser, <<"IAC">>) = Nothing(mid)
  <2>1. feed(FreshParser, <<"IAC">>) = FeedByte(Nothing(FreshParser), "IAC")
    BY <1>0, FeedOne
  <2> QED
    BY <2>1 DEF FeedByte, InData, Nothing, Yield, FreshParser
<1>2. feed(FreshParser, <<"IAC">>).p = mid
  BY <1>1 DEF Nothing, Yield
<1>3. <<"IAC">> \in Seq(Bytes) /\ <<"SB">> \in Seq(Bytes)
  OBVIOUS
<1>4. mid \in Parsers
  BY <1>0, <1>2, <1>3, FeedType
<1>5. feed(mid, <<"SB">>) = Nothing(Within(<<>>))
  <2>1. feed(mid, <<"SB">>) = FeedByte(Nothing(mid), "SB")
    BY <1>4, FeedOne
  <2> QED
    BY <2>1 DEF FeedByte, InIac, Negotiations, Nothing, Yield, Within
<1>6. feed(FreshParser, <<"IAC", "SB">>) = Join(Nothing(mid), feed(mid, <<"SB">>))
  BY <1>0, <1>1, <1>2, FeedTwo
<1>7. feed(mid, <<"SB">>) \in Yields
  BY <1>3, <1>4, FeedType
<1> QED
  BY <1>5, <1>6, <1>7, JoinNothing

LEMMA SubnegCloses ==
  ASSUME "IAC" \in Bytes, "SE" \in Bytes, NEW q \in Seq(Bytes), Within(q) \in Parsers
  PROVE  feed(Within(q), <<"IAC", "SE">>) = Yield(FreshParser, <<>>, end_subneg(q), <<>>)
<1> DEFINE mid == [state |-> "sb_iac", cmd |-> "none", sb |-> q]
<1>1. feed(Within(q), <<"IAC">>) = Nothing(mid)
  <2>1. feed(Within(q), <<"IAC">>) = FeedByte(Nothing(Within(q)), "IAC")
    BY FeedOne
  <2> QED
    BY <2>1 DEF FeedByte, InSb, Nothing, Yield, Within
<1>2. feed(Within(q), <<"IAC">>).p = mid
  BY <1>1 DEF Nothing, Yield
<1>3. <<"IAC">> \in Seq(Bytes) /\ <<"SE">> \in Seq(Bytes)
  OBVIOUS
<1>4. mid \in Parsers
  BY <1>2, <1>3, FeedType
<1>5. feed(mid, <<"SE">>) = Yield(FreshParser, <<>>, end_subneg(q), <<>>)
  <2> DEFINE r == Nothing(mid)
  <2>1. feed(mid, <<"SE">>) = FeedByte(r, "SE")
    BY <1>4, FeedOne
  <2>2. /\ r.p.state = "sb_iac" /\ r.p.sb = q /\ r.data = <<>> /\ r.resizes = <<>> /\ r.replies = <<>>
        /\ [r.p EXCEPT !.sb = <<>>, !.state = "data"] = FreshParser
    <3>1. r.p = mid /\ r.data = <<>> /\ r.resizes = <<>> /\ r.replies = <<>>
      BY DEF Nothing, Yield
    <3>2. [mid EXCEPT !.sb = <<>>, !.state = "data"] = FreshParser
      BY <1>4, ParserExcept DEF FreshParser
    <3>3. mid.state = "sb_iac" /\ mid.sb = q
      OBVIOUS
    <3> HIDE DEF r, mid
    <3> QED
      BY <3>1, <3>2, <3>3
  <2>3. <<>> \o end_subneg(q) = end_subneg(q)
    BY EndSubnegType, ConcatEmptySeq
  <2> HIDE DEF r
  <2>4. FeedByte(r, "SE") = InSbIac(r, "SE")
    BY <2>2 DEF FeedByte
  <2>5. InSbIac(r, "SE")
          = Yield([r.p EXCEPT !.sb = <<>>, !.state = "data"], r.data,
                  r.resizes \o end_subneg(r.p.sb), r.replies)
    BY DEF InSbIac
  <2> QED
    BY <2>1, <2>2, <2>3, <2>4, <2>5, Zenon
<1>6. feed(Within(q), <<"IAC", "SE">>) = Join(Nothing(mid), feed(mid, <<"SE">>))
  BY <1>1, <1>2, FeedTwo
<1>7. feed(mid, <<"SE">>) \in Yields
  BY <1>3, <1>4, FeedType
<1> QED
  BY <1>5, <1>6, <1>7, JoinNothing

\* The induction over the bytes of s, kept apart from lengths.
LEMMA KeysInduction ==
  ASSUME NEW N \in Nat, NEW s, \A i \in 1..N : s[i] \in Bytes,
         NEW pre, pre[0] = <<>>,
         \A i \in 1..N : pre[i] \in Seq(Bytes) /\ pre[i] = pre[i - 1] \o <<s[i]>>,
         NEW enc, Escapes(enc, s, N)
  PROVE  feed(FreshParser, enc[N]) = Yield(FreshParser, pre[N], <<>>, <<>>)
<1> DEFINE T == {n \in Nat : n <= N =>
                   /\ enc[n] \in Seq(Bytes) /\ pre[n] \in Seq(Bytes)
                   /\ feed(FreshParser, enc[n]) = Yield(FreshParser, pre[n], <<>>, <<>>)}
<1>0. FreshParser \in Parsers
  BY FreshType
<1>1. 0 \in T
  <2>1. enc[0] = <<>> /\ <<>> \in Seq(Bytes)
    BY EmptySeq DEF Escapes
  <2>2. feed(FreshParser, enc[0]) = Yield(FreshParser, pre[0], <<>>, <<>>)
    BY <1>0, <2>1, FeedEmpty DEF Nothing
  <2> QED
    BY <2>1, <2>2
<1>2. ASSUME NEW n \in Nat, n \in T
      PROVE  n + 1 \in T
  <2> SUFFICES ASSUME n + 1 <= N
               PROVE  /\ enc[n + 1] \in Seq(Bytes) /\ pre[n + 1] \in Seq(Bytes)
                      /\ feed(FreshParser, enc[n + 1]) = Yield(FreshParser, pre[n + 1], <<>>, <<>>)
    OBVIOUS
  <2> DEFINE e == enc[n]
             d == pre[n]
             b == s[n + 1]
  <2>1. /\ e \in Seq(Bytes) /\ d \in Seq(Bytes) /\ b \in Bytes
        /\ feed(FreshParser, e) = Yield(FreshParser, d, <<>>, <<>>)
    BY <1>2
  <2>2. n + 1 \in 1..N /\ (n + 1) - 1 = n
    OBVIOUS
  <2>3. enc[n + 1] \in Seq(Bytes) /\ enc[n + 1] = e \o Escape(b)
    <3>1. enc \in [0..N -> Seq(Bytes)] /\ n + 1 \in 0..N
      BY <2>2 DEF Escapes
    <3>2. enc[n + 1] = enc[(n + 1) - 1] \o Escape(s[n + 1])
      BY <2>2, Zenon DEF Escapes
    <3>3. enc[n + 1] \in Seq(Bytes)
      BY <3>1, Zenon
    <3> QED
      BY <2>2, <3>2, <3>3, Zenon
  <2>4. pre[n + 1] \in Seq(Bytes) /\ pre[n + 1] = d \o <<b>>
    BY <2>2
  <2> HIDE DEF e, d, b
  <2>5. Escape(b) \in Seq(Bytes) /\ feed(FreshParser, Escape(b)) = Yield(FreshParser, <<b>>, <<>>, <<>>)
    BY <2>1, EscapeType, KeyRead
  <2>6. feed(FreshParser, e).p = FreshParser
    BY <2>1 DEF Yield
  <2>7. feed(FreshParser, e \o Escape(b)) = Join(feed(FreshParser, e), feed(FreshParser, Escape(b)))
    BY <1>0, <2>1, <2>5, <2>6, FeedCut, Zenon
  <2>8. Join(Yield(FreshParser, d, <<>>, <<>>), Yield(FreshParser, <<b>>, <<>>, <<>>))
          = Yield(FreshParser, d \o <<b>>, <<>>, <<>>)
    <3>1. <<>> \o <<>> = <<>>
      OBVIOUS
    <3> QED
      BY <3>1 DEF Join, Yield
  <2> QED
    BY <2>1, <2>3, <2>4, <2>5, <2>7, <2>8, Zenon
<1>3. Nat \subseteq T
  BY <1>1, <1>2, SetInduction
<1> QED
  BY <1>3

\* The same within a subnegotiation that stays below the cap.
LEMMA PayloadInduction ==
  ASSUME NEW N \in Nat, N <= MAX_SUBNEG_LEN, Within(<<>>) \in Parsers,
         NEW s, \A i \in 1..N : s[i] \in Bytes,
         NEW pre, pre[0] = <<>>,
         \A i \in 0..N : pre[i] \in Seq(Bytes) /\ Len(pre[i]) = i,
         \A i \in 1..N : pre[i] = Append(pre[i - 1], s[i]),
         NEW enc, Escapes(enc, s, N)
  PROVE  feed(Within(<<>>), enc[N]) = Nothing(Within(pre[N]))
<1> DEFINE p == Within(<<>>)
           T == {n \in Nat : n <= N =>
                   enc[n] \in Seq(Bytes) /\ feed(p, enc[n]) = Nothing(Within(pre[n]))}
<1>0. p \in Parsers
  OBVIOUS
<1> HIDE DEF p
<1>1. 0 \in T
  <2>1. enc[0] = <<>> /\ <<>> \in Seq(Bytes)
    BY EmptySeq DEF Escapes
  <2>2. feed(p, enc[0]) = Nothing(Within(pre[0]))
    BY <1>0, <2>1, FeedEmpty DEF p
  <2> QED
    BY <2>1, <2>2
<1>2. ASSUME NEW n \in Nat, n \in T
      PROVE  n + 1 \in T
  <2> SUFFICES ASSUME n + 1 <= N
               PROVE  /\ enc[n + 1] \in Seq(Bytes)
                      /\ feed(p, enc[n + 1]) = Nothing(Within(pre[n + 1]))
    OBVIOUS
  <2> DEFINE e == enc[n]
             q == pre[n]
             b == s[n + 1]
  <2>1. e \in Seq(Bytes) /\ b \in Bytes /\ feed(p, e) = Nothing(Within(q))
    BY <1>2
  <2>2. n + 1 \in 1..N /\ (n + 1) - 1 = n /\ n \in 0..N
    OBVIOUS
  <2>3. enc[n + 1] \in Seq(Bytes) /\ enc[n + 1] = e \o Escape(b)
    <3>1. enc \in [0..N -> Seq(Bytes)] /\ n + 1 \in 0..N
      BY <2>2 DEF Escapes
    <3>2. enc[n + 1] = enc[(n + 1) - 1] \o Escape(s[n + 1])
      BY <2>2, Zenon DEF Escapes
    <3>3. enc[n + 1] \in Seq(Bytes)
      BY <3>1, Zenon
    <3> QED
      BY <2>2, <3>2, <3>3, Zenon
  <2>4. q \in Seq(Bytes) /\ Len(q) = n /\ pre[n + 1] = Append(q, b)
    BY <2>2, Zenon
  <2>9. n < MAX_SUBNEG_LEN
    BY TelnetAssumption
  <2> HIDE DEF e, q, b
  <2>5. feed(p, e).p = Within(q)
    BY <2>1 DEF Yield, Nothing
  <2>6. Within(q) \in Parsers
    BY <1>0, <2>1, <2>5, FeedType
  <2>7. Escape(b) \in Seq(Bytes) /\ feed(Within(q), Escape(b)) = Nothing(Within(Append(q, b)))
    BY <2>1, <2>4, <2>6, <2>9, EscapeType, WithinRead, Zenon
  <2>8. feed(p, e \o Escape(b)) = Join(Nothing(Within(q)), feed(Within(q), Escape(b)))
    BY <1>0, <2>1, <2>5, <2>7, FeedCut, Zenon
  <2>10. feed(Within(q), Escape(b)) \in Yields
    BY <2>6, <2>7, FeedType, Zenon
  <2>11. Join(Nothing(Within(q)), feed(Within(q), Escape(b))) = feed(Within(q), Escape(b))
    BY <2>10, JoinNothing, Zenon
  <2> QED
    BY <2>3, <2>4, <2>7, <2>8, <2>11, Zenon
<1>3. Nat \subseteq T
  BY <1>1, <1>2, SetInduction
<1> QED
  BY <1>3 DEF p

EscapeEquation(f, s, n) == f = [i \in 0..n |-> IF i = 0 THEN <<>> ELSE f[i - 1] \o Escape(s[i])]

\* The recursive function of Escaped exists.
LEMMA EscapesExist ==
  ASSUME NEW N \in Nat, NEW s, \A i \in 1..N : s[i] \in Bytes
  PROVE  \E f : Escapes(f, s, N)
<1> DEFINE T == {n \in Nat : n <= N => \E f : Escapes(f, s, n)}
<1>1. 0 \in T
  <2> DEFINE f == [i \in 0..0 |-> <<>>]
  <2>1. f \in [0..0 -> Seq(Bytes)] /\ f[0] = <<>>
    BY EmptySeq
  <2>2. Escapes(f, s, 0)
    BY <2>1 DEF Escapes
  <2> QED
    BY <2>2
<1>2. ASSUME NEW n \in Nat, n \in T
      PROVE  n + 1 \in T
  <2> SUFFICES ASSUME n + 1 <= N
               PROVE  \E f : Escapes(f, s, n + 1)
    OBVIOUS
  <2>1. PICK f : Escapes(f, s, n)
    BY <1>2
  <2> DEFINE v == f[n] \o Escape(s[n + 1])
             h == [i \in 0..(n + 1) |-> IF i = n + 1 THEN v ELSE f[i]]
  <2>2. f[n] \in Seq(Bytes) /\ s[n + 1] \in Bytes
    BY <2>1 DEF Escapes
  <2>3. v \in Seq(Bytes)
    BY <2>2, EscapeType, ConcatProperties
  <2> HIDE DEF v
  <2>4. h \in [0..(n + 1) -> Seq(Bytes)] /\ h[0] = <<>>
    BY <2>1, <2>3 DEF Escapes
  <2>5. ASSUME NEW i \in 1..(n + 1)
        PROVE  h[i] = h[i - 1] \o Escape(s[i])
    <3>1. CASE i = n + 1
      <4>1. i - 1 = n /\ n \in 0..(n + 1) /\ n # n + 1 /\ i \in 0..(n + 1)
        BY <3>1
      <4>2. h[i] = v /\ h[i - 1] = f[n]
        BY <3>1, <4>1
      <4> QED
        BY <3>1, <4>2, Zenon DEF v
    <3>2. CASE i # n + 1
      <4>1. i \in 1..n /\ i - 1 \in 0..n /\ i - 1 # n + 1 /\ i \in 0..(n + 1) /\ i - 1 \in 0..(n + 1)
        BY <3>2
      <4>2. h[i] = f[i] /\ h[i - 1] = f[i - 1]
        BY <3>2, <4>1
      <4> QED
        BY <2>1, <4>1, <4>2, Zenon DEF Escapes
    <3> QED
      BY <3>1, <3>2
  <2>6. Escapes(h, s, n + 1)
    BY <2>4, <2>5, Zenon DEF Escapes
  <2> QED
    BY <2>6
<1>3. Nat \subseteq T
  BY <1>1, <1>2, SetInduction
<1> QED
  BY <1>3

LEMMA EscapesSolve ==
  ASSUME NEW n \in Nat, NEW s, NEW g, Escapes(g, s, n)
  PROVE  EscapeEquation(g, s, n)
<1>1. g = [i \in 0..n |-> g[i]]
  BY DEF Escapes
<1>2. ASSUME NEW i \in 0..n
      PROVE  g[i] = IF i = 0 THEN <<>> ELSE g[i - 1] \o Escape(s[i])
  <2>1. i = 0 \/ i \in 1..n
    OBVIOUS
  <2>2. ~(0 \in 1..n)
    OBVIOUS
  <2> QED
    BY <2>1, <2>2, Zenon DEF Escapes
<1> QED
  BY <1>1, <1>2, Zenon DEF EscapeEquation

LEMMA SolutionEscapes ==
  ASSUME NEW N \in Nat, NEW s, \A i \in 1..N : s[i] \in Bytes, NEW f, EscapeEquation(f, s, N)
  PROVE  Escapes(f, s, N)
<1> DEFINE T == {n \in Nat : n <= N => f[n] \in Seq(Bytes)}
<1>1. /\ \A i \in 0..N : f[i] = IF i = 0 THEN <<>> ELSE f[i - 1] \o Escape(s[i])
      /\ f = [i \in 0..N |-> f[i]]
  <2>1. f = [i \in 0..N |-> IF i = 0 THEN <<>> ELSE f[i - 1] \o Escape(s[i])]
    BY Zenon DEF EscapeEquation
  <2>2. DOMAIN f = 0..N
    BY <2>1, Zenon
  <2>3. \A i \in 0..N : f[i] = IF i = 0 THEN <<>> ELSE f[i - 1] \o Escape(s[i])
    BY <2>1, Zenon
  <2> QED
    BY <2>1, <2>3, Zenon
<1>2. f[0] = <<>>
  <2>1. 0 \in 0..N
    OBVIOUS
  <2> QED
    BY <1>1, <2>1, Zenon
<1>3. ASSUME NEW i \in 1..N
      PROVE  f[i] = f[i - 1] \o Escape(s[i])
  <2>1. i \in 0..N /\ i # 0
    OBVIOUS
  <2> QED
    BY <1>1, <2>1, Zenon
<1>4. 0 \in T
  BY <1>2, EmptySeq
<1>5. ASSUME NEW n \in Nat, n \in T
      PROVE  n + 1 \in T
  <2> SUFFICES ASSUME n + 1 <= N
               PROVE  f[n + 1] \in Seq(Bytes)
    OBVIOUS
  <2>1. f[n] \in Seq(Bytes) /\ s[n + 1] \in Bytes /\ n + 1 \in 1..N /\ (n + 1) - 1 = n
    BY <1>5
  <2>2. f[n + 1] = f[n] \o Escape(s[n + 1])
    BY <1>3, <2>1
  <2>3. Escape(s[n + 1]) \in Seq(Bytes)
    BY <2>1, EscapeType
  <2> QED
    BY <2>1, <2>2, <2>3, ConcatProperties, Zenon
<1>6. \A n \in 0..N : f[n] \in Seq(Bytes)
  <2>1. Nat \subseteq T
    BY <1>4, <1>5, SetInduction
  <2> QED
    BY <2>1
<1>7. f \in [0..N -> Seq(Bytes)]
  BY <1>1, <1>6, Zenon
<1> QED
  BY <1>2, <1>3, <1>7, Zenon DEF Escapes

LEMMA EscapedIs ==
  ASSUME NEW s \in Seq(Bytes)
  PROVE  \E f : Escapes(f, s, Len(s)) /\ Escaped(s) = f[Len(s)] /\ Escaped(s) \in Seq(Bytes)
<1> DEFINE enc == CHOOSE f : EscapeEquation(f, s, Len(s))
<1>1. Len(s) \in Nat /\ \A i \in 1..Len(s) : s[i] \in Bytes
  OBVIOUS
<1>2. PICK g : Escapes(g, s, Len(s))
  BY <1>1, EscapesExist, Zenon
<1>3. EscapeEquation(enc, s, Len(s))
  BY <1>1, <1>2, EscapesSolve, Zenon
<1>4. Escaped(s) = enc[Len(s)]
  BY Zenon DEF Escaped, EscapeEquation
<1> HIDE DEF enc
<1>5. Escapes(enc, s, Len(s))
  BY <1>1, <1>3, SolutionEscapes, Zenon
<1>6. \A n \in Nat : Escapes(enc, s, n) => enc[n] \in Seq(Bytes)
  BY DEF Escapes
<1> QED
  BY <1>1, <1>4, <1>5, <1>6, Zenon

\* The prefixes of a sequence.
LEMMA PrefixesGrow ==
  ASSUME NEW s \in Seq(Bytes)
  PROVE  /\ SubSeq(s, 1, 0) = <<>> /\ SubSeq(s, 1, Len(s)) = s
         /\ \A i \in 0..Len(s) : SubSeq(s, 1, i) \in Seq(Bytes) /\ Len(SubSeq(s, 1, i)) = i
         /\ \A i \in 1..Len(s) : /\ SubSeq(s, 1, i) = SubSeq(s, 1, i - 1) \o <<s[i]>>
                                  /\ SubSeq(s, 1, i) = Append(SubSeq(s, 1, i - 1), s[i])
<1>1. SubSeq(s, 1, 0) = <<>> /\ SubSeq(s, 1, Len(s)) = s
  BY SubSeqEmpty, SubSeqFull
<1>2. ASSUME NEW i \in 0..Len(s)
      PROVE  SubSeq(s, 1, i) \in Seq(Bytes) /\ Len(SubSeq(s, 1, i)) = i
  <2>1. \A j \in 1..i : s[j] \in Bytes
    OBVIOUS
  <2> QED
    BY <2>1, SubSeqProperties
<1>3. ASSUME NEW i \in 1..Len(s)
      PROVE  /\ SubSeq(s, 1, i) = SubSeq(s, 1, i - 1) \o <<s[i]>>
             /\ SubSeq(s, 1, i) = Append(SubSeq(s, 1, i - 1), s[i])
  <2>1. 1 \in 1..Len(s) /\ i \in 1..Len(s) /\ i - 1 \in 0..Len(s) /\ s[i] \in Bytes
    OBVIOUS
  <2>2. SubSeq(s, 1, i) = SubSeq(s, 1, i - 1) \o <<s[i]>>
    BY <2>1, SubSeqRecursiveSecond
  <2>3. SubSeq(s, 1, i - 1) \in Seq(Bytes)
    BY <1>2, <2>1, Zenon
  <2> QED
    BY <2>1, <2>2, <2>3, AppendOne, Zenon
<1> QED
  BY <1>1, <1>2, <1>3, Zenon

\* Keys: whatever the user types, 0xFF included, the application gets just that,
\* and the parser is ready for the next token.
THEOREM KeysAreRead ==
  ASSUME NEW s \in Seq(Bytes)
  PROVE  feed(FreshParser, Escaped(s)) = Yield(FreshParser, s, <<>>, <<>>)
<1> DEFINE n == Len(s)
           pre == [i \in 0..n |-> SubSeq(s, 1, i)]
<1>1. n \in Nat /\ \A i \in 1..n : s[i] \in Bytes
  OBVIOUS
<1>2. PICK f : Escapes(f, s, n) /\ Escaped(s) = f[n]
  BY EscapedIs, Zenon
<1>3. /\ SubSeq(s, 1, 0) = <<>> /\ SubSeq(s, 1, n) = s
      /\ \A i \in 0..n : SubSeq(s, 1, i) \in Seq(Bytes)
      /\ \A i \in 1..n : SubSeq(s, 1, i) = SubSeq(s, 1, i - 1) \o <<s[i]>>
  BY PrefixesGrow, Zenon
<1> HIDE DEF n
<1>4. \A i \in 1..n : i \in 0..n /\ i - 1 \in 0..n
  BY <1>1
<1>5. 0 \in 0..n /\ n \in 0..n
  BY <1>1
<1>6. /\ pre[0] = <<>> /\ pre[n] = s
      /\ \A i \in 1..n : pre[i] \in Seq(Bytes) /\ pre[i] = pre[i - 1] \o <<s[i]>>
  BY <1>3, <1>4, <1>5, Zenon
<1> HIDE DEF pre
<1>7. feed(FreshParser, f[n]) = Yield(FreshParser, pre[n], <<>>, <<>>)
  BY <1>1, <1>2, <1>6, KeysInduction, Zenon
<1> QED
  BY <1>2, <1>6, <1>7, Zenon

LEMMA PayloadRead ==
  ASSUME NEW s \in Seq(Bytes), Len(s) <= MAX_SUBNEG_LEN, Within(<<>>) \in Parsers
  PROVE  feed(Within(<<>>), Escaped(s)) = Nothing(Within(s))
<1> DEFINE n == Len(s)
           pre == [i \in 0..n |-> SubSeq(s, 1, i)]
<1>1. n \in Nat /\ n <= MAX_SUBNEG_LEN /\ \A i \in 1..n : s[i] \in Bytes
  OBVIOUS
<1>2. PICK f : Escapes(f, s, n) /\ Escaped(s) = f[n]
  BY EscapedIs, Zenon
<1>3. /\ SubSeq(s, 1, 0) = <<>> /\ SubSeq(s, 1, n) = s
      /\ \A i \in 0..n : SubSeq(s, 1, i) \in Seq(Bytes) /\ Len(SubSeq(s, 1, i)) = i
      /\ \A i \in 1..n : SubSeq(s, 1, i) = Append(SubSeq(s, 1, i - 1), s[i])
  BY PrefixesGrow, Zenon
<1> HIDE DEF n
<1>4. \A i \in 1..n : i \in 0..n /\ i - 1 \in 0..n
  BY <1>1
<1>5. 0 \in 0..n /\ n \in 0..n
  BY <1>1
<1>6. /\ pre[0] = <<>> /\ pre[n] = s
      /\ \A i \in 0..n : pre[i] \in Seq(Bytes) /\ Len(pre[i]) = i
      /\ \A i \in 1..n : pre[i] = Append(pre[i - 1], s[i])
  BY <1>3, <1>4, <1>5, Zenon
<1> HIDE DEF pre
<1>7. feed(Within(<<>>), f[n]) = Nothing(Within(pre[n]))
  BY <1>1, <1>2, <1>6, PayloadInduction, Zenon
<1> QED
  BY <1>2, <1>6, <1>7, Zenon

\* A subnegotiation as a client sends it.
Subnegotiation(s) == <<"IAC", "SB">> \o Escaped(s) \o <<"IAC", "SE">>

\* A subnegotiation within the cap is gathered whole, and only its end is acted
\* on.
LEMMA SubnegRead ==
  ASSUME {"IAC", "SB", "SE"} \subseteq Bytes, NEW s \in Seq(Bytes), Len(s) <= MAX_SUBNEG_LEN
  PROVE  feed(FreshParser, Subnegotiation(s)) = Yield(FreshParser, <<>>, end_subneg(s), <<>>)
<1> DEFINE a == <<"IAC", "SB">>
           b == Escaped(s)
           c == <<"IAC", "SE">>
           p == Within(<<>>)
           q == Within(s)
<1>0. "IAC" \in Bytes /\ "SB" \in Bytes /\ "SE" \in Bytes /\ FreshParser \in Parsers
  BY FreshType
<1>1. a \in Seq(Bytes) /\ c \in Seq(Bytes)
  BY <1>0
<1>2. b \in Seq(Bytes)
  BY EscapedIs, Zenon
<1>3. feed(FreshParser, a) = Nothing(p) /\ feed(FreshParser, a).p = p
  <2>1. feed(FreshParser, a) = Nothing(p)
    BY <1>0, SubnegOpens, Zenon
  <2> QED
    BY <2>1 DEF Nothing, Yield
<1>4. p \in Parsers
  BY <1>0, <1>1, <1>3, FeedType, Zenon
<1>5. feed(p, b) = Nothing(q) /\ feed(p, b).p = q
  <2>1. feed(p, b) = Nothing(q)
    BY <1>4, PayloadRead, Zenon
  <2> QED
    BY <2>1 DEF Nothing, Yield
<1>6. q \in Parsers
  BY <1>2, <1>4, <1>5, FeedType, Zenon
<1>7. feed(q, c) = Yield(FreshParser, <<>>, end_subneg(s), <<>>) /\ feed(q, c) \in Yields
  BY <1>0, <1>1, <1>6, SubnegCloses, FeedType, Zenon
<1>8. Subnegotiation(s) = a \o (b \o c) /\ b \o c \in Seq(Bytes)
  <2>1. (a \o b) \o c = a \o (b \o c) /\ b \o c \in Seq(Bytes)
    <3> HIDE DEF a, b, c
    <3>1. (a \o b) \o c = a \o (b \o c)
      BY <1>1, <1>2, ConcatAssociative
    <3>2. b \o c \in Seq(Bytes)
      BY <1>1, <1>2, ConcatProperties
    <3> QED
      BY <3>1, <3>2
  <2> QED
    BY <2>1, Zenon DEF Subnegotiation
<1> HIDE DEF a, b, c, p, q
<1>9. feed(p, b \o c) = Join(Nothing(q), feed(q, c))
  BY <1>1, <1>2, <1>4, <1>5, FeedCut, Zenon
<1>10. feed(p, b \o c) = feed(q, c)
  BY <1>7, <1>9, JoinNothing, Zenon
<1>11. feed(FreshParser, a \o (b \o c)) = Join(Nothing(p), feed(p, b \o c))
  BY <1>0, <1>1, <1>3, <1>8, FeedCut, Zenon
<1> QED
  BY <1>7, <1>8, <1>10, <1>11, JoinNothing, Zenon

\* Window sizes: a NAWS report, with any bytes of its dimensions doubled, yields
\* that size, rows first though columns are sent first, and no data; a dimension
\* of zero yields no size.  For every width of a dimension, and any cap that
\* leaves room for a report.
THEOREM SizesAreRead ==
  ASSUME {"IAC", "SB", "SE", "NAWS"} \subseteq Bytes,
         NEW cols \in Seq(Bytes), NEW rows \in Seq(Bytes), Len(cols) = DimBytes, Len(rows) = DimBytes
  PROVE  LET zero == [i \in 1..DimBytes |-> "NUL"]
         IN  feed(FreshParser, Subnegotiation(<<"NAWS">> \o cols \o rows))
             = Yield(FreshParser, <<>>,
                     IF rows # zero /\ cols # zero THEN <<<<rows, cols>>>> ELSE <<>>, <<>>)
<1> DEFINE d == DimBytes
           sb == <<"NAWS">> \o cols \o rows
           zero == [i \in 1..DimBytes |-> "NUL"]
           C == SubSeq(sb, 2, 1 + DimBytes)
           R == SubSeq(sb, 2 + DimBytes, 1 + 2 * DimBytes)
<1>0. DimBytes \in Nat /\ DimBytes > 0 /\ MAX_SUBNEG_LEN \in Nat /\ 1 + 2 * DimBytes <= MAX_SUBNEG_LEN
  BY TelnetAssumption
<1>1. <<"NAWS">> \in Seq(Bytes) /\ Len(<<"NAWS">>) = 1 /\ <<"NAWS">>[1] = "NAWS"
  OBVIOUS
<1>2. /\ sb \in Seq(Bytes) /\ Len(sb) = 1 + 2 * DimBytes /\ sb[1] = "NAWS"
      /\ \A i \in 1..DimBytes : sb[1 + i] = cols[i] /\ sb[1 + DimBytes + i] = rows[i]
  <2> DEFINE x == <<"NAWS">> \o cols
  <2>1. /\ x \in Seq(Bytes) /\ Len(x) = 1 + DimBytes /\ x[1] = "NAWS"
        /\ \A i \in 1..DimBytes : x[1 + i] = cols[i]
    BY <1>0, <1>1
  <2> HIDE DEF x
  <2>2. /\ x \o rows \in Seq(Bytes) /\ Len(x \o rows) = 1 + 2 * DimBytes /\ (x \o rows)[1] = "NAWS"
        /\ \A i \in 1..DimBytes : (x \o rows)[1 + i] = cols[i] /\ (x \o rows)[1 + DimBytes + i] = rows[i]
    BY <1>0, <2>1
  <2> QED
    BY <2>2 DEF x
<1> HIDE DEF sb
<1>3. C = cols
  <2>1. \A i \in 2..(1 + DimBytes) : sb[i] \in Bytes
    BY <1>0, <1>2
  <2>2. /\ C \in Seq(Bytes) /\ Len(C) = DimBytes
        /\ \A i \in 1..DimBytes : C[i] = sb[2 + i - 1]
    BY <1>0, <2>1, SubSeqProperties
  <2>3. \A i \in 1..DimBytes : C[i] = cols[i]
    BY <1>0, <1>2, <2>2
  <2> HIDE DEF C
  <2> QED
    BY <2>2, <2>3, SeqEqual, Zenon
<1>4. R = rows
  <2>1. \A i \in (2 + DimBytes)..(1 + 2 * DimBytes) : sb[i] \in Bytes
    BY <1>0, <1>2
  <2>2. /\ R \in Seq(Bytes) /\ Len(R) = DimBytes
        /\ \A i \in 1..DimBytes : R[i] = sb[2 + DimBytes + i - 1]
    BY <1>0, <2>1, SubSeqProperties
  <2>3. \A i \in 1..DimBytes : R[i] = rows[i]
    BY <1>0, <1>2, <2>2
  <2> HIDE DEF R
  <2> QED
    BY <2>2, <2>3, SeqEqual, Zenon
<1>5. end_subneg(sb) = IF rows # zero /\ cols # zero THEN <<<<rows, cols>>>> ELSE <<>>
  <2>1. Len(sb) >= 1 + 2 * DimBytes
    BY <1>0, <1>2
  <2>2. end_subneg(sb) = IF /\ Len(sb) >= 1 + 2 * DimBytes /\ sb[1] = "NAWS"
                            /\ R # zero /\ C # zero
                         THEN <<<<R, C>>>> ELSE <<>>
    BY Zenon DEF end_subneg
  <2> HIDE DEF R, C, zero
  <2> QED
    BY <1>2, <1>3, <1>4, <2>1, <2>2, Zenon
<1>6. Len(sb) <= MAX_SUBNEG_LEN
  BY <1>0, <1>2
<1>7. feed(FreshParser, Subnegotiation(sb)) = Yield(FreshParser, <<>>, end_subneg(sb), <<>>)
  BY <1>2, <1>6, SubnegRead
<1> QED
  BY <1>5, <1>7, Zenon DEF sb

\* Options: a negotiation is answered as negotiate says, at once, and leaves
\* nothing behind for the next one.
THEOREM OptionsAreAnswered ==
  ASSUME NEW cmd \in Negotiations, {"IAC", cmd} \subseteq Bytes, NEW opt \in Bytes
  PROVE  feed(FreshParser, <<"IAC", cmd>> \o <<opt>>)
         = Yield(FreshParser, <<>>, <<>>, negotiate(cmd, opt))
<1> DEFINE mid == [state |-> "iac", cmd |-> "none", sb |-> <<>>]
           asked == [state |-> "opt", cmd |-> cmd, sb |-> <<>>]
<1>0. FreshParser \in Parsers /\ "IAC" \in Bytes /\ cmd \in Bytes
  BY FreshType
<1>1. feed(FreshParser, <<"IAC">>) = Nothing(mid)
  <2>1. feed(FreshParser, <<"IAC">>) = FeedByte(Nothing(FreshParser), "IAC")
    BY <1>0, FeedOne
  <2> QED
    BY <2>1 DEF FeedByte, InData, Nothing, Yield, FreshParser
<1>2. feed(FreshParser, <<"IAC">>).p = mid
  BY <1>1 DEF Nothing, Yield
<1>3. <<"IAC">> \in Seq(Bytes) /\ <<cmd>> \in Seq(Bytes) /\ <<opt>> \in Seq(Bytes)
  BY <1>0
<1>4. mid \in Parsers
  BY <1>0, <1>2, <1>3, FeedType
<1>5. feed(mid, <<cmd>>) = Nothing(asked)
  <2>1. feed(mid, <<cmd>>) = FeedByte(Nothing(mid), cmd)
    BY <1>0, <1>4, FeedOne
  <2> QED
    BY <2>1 DEF FeedByte, InIac, Negotiations, Nothing, Yield
<1>6. feed(FreshParser, <<"IAC", cmd>>) = Nothing(asked)
  <2>1. feed(FreshParser, <<"IAC", cmd>>) = Join(Nothing(mid), feed(mid, <<cmd>>))
    BY <1>0, <1>1, <1>2, FeedTwo
  <2>2. feed(mid, <<cmd>>) \in Yields
    BY <1>3, <1>4, FeedType
  <2> QED
    BY <1>5, <2>1, <2>2, JoinNothing
<1>7. <<"IAC", cmd>> \in Seq(Bytes) /\ feed(FreshParser, <<"IAC", cmd>>).p = asked
  BY <1>0, <1>6 DEF Nothing, Yield
<1>8. asked \in Parsers
  BY <1>0, <1>7, FeedType
<1>9. feed(asked, <<opt>>) = Yield(FreshParser, <<>>, <<>>, negotiate(cmd, opt))
  <2> DEFINE r == Nothing(asked)
  <2>1. feed(asked, <<opt>>) = FeedByte(r, opt)
    BY <1>8, FeedOne
  <2>2. /\ r.p.state = "opt" /\ r.p.cmd = cmd /\ r.data = <<>> /\ r.resizes = <<>> /\ r.replies = <<>>
        /\ [r.p EXCEPT !.cmd = "none", !.state = "data"] = FreshParser
    <3>1. r.p = asked /\ r.data = <<>> /\ r.resizes = <<>> /\ r.replies = <<>>
      BY DEF Nothing, Yield
    <3>2. [asked EXCEPT !.cmd = "none", !.state = "data"] = FreshParser
      BY <1>8, ParserExcept DEF FreshParser
    <3>3. asked.state = "opt" /\ asked.cmd = cmd
      OBVIOUS
    <3> HIDE DEF r, asked
    <3> QED
      BY <3>1, <3>2, <3>3
  <2>3. <<>> \o negotiate(cmd, opt) = negotiate(cmd, opt)
    BY NegotiateType, ConcatEmptySeq
  <2> HIDE DEF r
  <2>4. FeedByte(r, opt) = InOpt(r, opt)
    BY <2>2 DEF FeedByte
  <2>5. InOpt(r, opt) = Yield([r.p EXCEPT !.cmd = "none", !.state = "data"],
                              r.data, r.resizes, r.replies \o negotiate(r.p.cmd, opt))
    BY DEF InOpt
  <2> QED
    BY <2>1, <2>2, <2>3, <2>4, <2>5, Zenon
<1>10. feed(asked, <<opt>>) \in Yields
  BY <1>3, <1>8, FeedType
<1> HIDE DEF asked
<1>11. feed(FreshParser, <<"IAC", cmd>> \o <<opt>>) = Join(Nothing(asked), feed(asked, <<opt>>))
  BY <1>0, <1>3, <1>6, <1>7, FeedCut, Zenon
<1> QED
  BY <1>9, <1>10, <1>11, JoinNothing, Zenon

-----------------------------------------------------------------------------
(* The loop.                                                               *)

Gone == {"closed", "reset"}

\* The state of the loop.  STDIN_EOF ends the watch on stdin, and only a
\* watched stdin is read.
LoopInv ==
  /\ kind \in Kinds /\ pc \in {"handshake", "select", "ping", "stdin", "sock", "done"}
  /\ ready \subseteq {"stdin", "sock"} /\ watch \in BOOLEAN
  /\ (result = "none") = (pc # "done")
  /\ unread \in Nat /\ typed \in Nat /\ taking \in BOOLEAN
  /\ kbd # <<>> => typed > 0
  /\ eofs \in 0..1 /\ (eofs = 1 => ~watch)
  /\ kind = "exec" => ~watch
  /\ kind # "telnet" => taking
  /\ pc = "stdin" => watch

\* The frames on their way.  Only the last may be other than output; EXIT has
\* all the output before it, and once sent it is there until it is read, or
\* a reset has overtaken it.
StreamInv ==
  /\ down \in Seq({"OUT", "EXIT", "ERROR", "BADEXIT", "CUT"})
  /\ outs \in Nat /\ shown \in Nat /\ shown <= outs /\ exited \in BOOLEAN
  /\ agent \in {"run", "over"} \cup Gone
  /\ agent = "run" \/ pc = "handshake" => ~exited
  /\ agent = "run" /\ pc # "done" => shown + Len(down) = outs
  /\ \A i \in 1..Len(down) :
       /\ down[i] = "OUT" => shown + i <= outs
       /\ down[i] # "OUT" => i = Len(down) /\ agent # "run" /\ (exited <=> down[i] = "EXIT")
       /\ down[i] = "EXIT" /\ pc # "done" => shown + i = outs + 1
  /\ exited /\ pc # "done" =>
       (down # <<>> /\ down[Len(down)] = "EXIT") \/ (agent = "reset" /\ unread > 0)
  /\ ResultTruthful /\ ExitSurvives

\* What has been forwarded, what the user meant, and what the bytes in between
\* will yield.
Forwarded == Yield(parser, stdin, sizes, replies)

Meant == Yield(FreshParser, meant.data, meant.sizes, meant.replies)

NoneInvented ==
  /\ IsPrefix(stdin, meant.data) /\ IsPrefix(sizes, meant.sizes)
  /\ IsPrefix(replies, meant.replies)

ForwardInv ==
  /\ Forwarded \in Yields /\ kbd \in Seq(Bytes)
  /\ meant \in [data : Seq(Bytes), sizes : Seq(SizePairs), replies : Seq(Refusals)]
  /\ NoneInvented
  /\ kind = "telnet" /\ pc # "done" => Join(Forwarded, feed(parser, kbd)) = Meant
  /\ kind # "telnet" =>
       /\ sizes = <<>> /\ replies = <<>> /\ parser = FreshParser
       /\ pc # "done" => meant = [data |-> stdin \o kbd, sizes |-> <<>>, replies |-> <<>>]

ClientInv == LoopInv /\ StreamInv /\ ForwardInv

\* What the loop does after it has read stdin: it goes on, or it ends.
WentOn ==
  /\ unread' \in Nat /\ unread' >= unread
  /\ \/ pc' \in {"sock", "select"} /\ result' = result
     \/ pc' = "done" /\ result' \in {"error", "closed"}
  /\ pc' = "done" /\ kind # "telnet" => unread' > 0

LEMMA WriteGoesOn ==
  ASSUME NEW n \in Nat, unread \in Nat, WriteFrames(n, Onward)
  PROVE  WentOn
BY DEF WriteFrames, Onward, GoTo, WentOn

LEMMA BridgeGoesOn ==
  ASSUME NEW n, NEW r \in Yields, r = feed(parser, SubSeq(kbd, 1, n)), Bridge(n),
         unread \in Nat, kind = "telnet"
  PROVE  /\ WentOn /\ parser' = r.p
         /\ \/ Forwarded' = Join(Forwarded, r)
            \/ pc' = "done" /\ UNCHANGED <<replies, sizes, stdin>>
<1> DEFINE k == Len(r.resizes) + (IF r.data = <<>> THEN 0 ELSE 1)
           Forward == /\ WriteFrames(k, Onward) /\ replies' = replies \o r.replies
                      /\ sizes' = sizes \o r.resizes /\ stdin' = stdin \o r.data
           Failed == End("error") /\ UNCHANGED <<replies, sizes, stdin, unread>>
<1>1. k \in Nat
  <2>1. r.resizes \in Seq(SizePairs)
    BY DEF Yields
  <2>2. Len(r.resizes) \in Nat
    BY <2>1, LenProperties
  <2>3. \A j \in Nat : j + 0 \in Nat /\ j + 1 \in Nat
    OBVIOUS
  <2> QED
    BY <2>2, <2>3, Zenon
<1>2. parser' = r.p /\ (Forward \/ Failed)
  BY Zenon DEF Bridge, SendTcp
<1> HIDE DEF k
<1>3. CASE Forward
  <2>1. WentOn
    BY <1>1, <1>3, WriteGoesOn
  <2>2. Forwarded' = Join(Forwarded, r)
    BY <1>2, <1>3 DEF Forwarded, Join, Yield
  <2> QED
    BY <1>2, <2>1, <2>2
<1>4. CASE Failed
  BY <1>2, <1>4 DEF Failed, End, WentOn
<1> QED
  BY <1>2, <1>3, <1>4

LEMMA ReadGoesOn ==
  ASSUME LoopInv, ForwardInv, ReadStdin
  PROVE  /\ WentOn /\ ready' = {} /\ UNCHANGED <<shown, down>>
         /\ watch' \in BOOLEAN /\ eofs' \in 0..1 /\ (eofs' = 1 => ~watch')
         /\ kbd # <<>> \/ kbd' = <<>>
<1>0. kbd \in Seq(Bytes) /\ Len(kbd) \in Nat
  BY LenProperties DEF ForwardInv
<1>1. PICK n \in 0..Len(kbd) :
        /\ (n = 0) = (kbd = <<>>) /\ kbd' = SubSeq(kbd, n + 1, Len(kbd))
        /\ IF kind = "shell" THEN ShellStdin(n) ELSE TelnetStdin(n)
  BY Zenon DEF ReadStdin
<1>2. pc = "stdin" /\ watch /\ eofs = 0 /\ kind \in {"shell", "telnet"} /\ unread \in Nat
  BY ClientAssumption DEF LoopInv, ReadStdin
<1>3. ready' = {} /\ UNCHANGED <<shown, down>>
  BY DEF ReadStdin
<1>4. kbd # <<>> \/ kbd' = <<>>
  BY <1>0, <1>1, EmptySeq
<1>5. CASE kind = "shell"
  <2>1. WentOn
    BY <1>1, <1>2, <1>5, WriteGoesOn DEF ShellStdin
  <2>2. watch' = (n > 0) /\ eofs' = IF n = 0 THEN 1 ELSE 0
    BY <1>1, <1>2, <1>5 DEF ShellStdin
  <2>3. (n > 0) \in BOOLEAN /\ (n = 0 => ~(n > 0))
    OBVIOUS
  <2>4. watch' \in BOOLEAN /\ (n = 0 => ~watch') /\ eofs' = IF n = 0 THEN 1 ELSE 0
    BY <2>2, <2>3, Zenon
  <2>5. watch' \in BOOLEAN /\ eofs' \in 0..1 /\ (eofs' = 1 => ~watch')
    <3>1. CASE n = 0
      BY <2>4, <3>1
    <3>2. CASE n > 0
      BY <2>4, <3>2
    <3> QED
      BY <3>1, <3>2
  <2> QED
    BY <1>3, <1>4, <2>1, <2>5, Zenon
<1>6. CASE kind = "telnet"
  <2>0. UNCHANGED <<watch, eofs>>
    BY <1>1, <1>6 DEF TelnetStdin
  <2>1. CASE n = 0
    <3>1. End("closed") /\ unread' = unread
      BY <1>1, <1>6, <2>1 DEF TelnetStdin
    <3>2. WentOn
      BY <1>2, <1>6, <3>1 DEF WentOn, End
    <3> QED
      BY <1>2, <1>3, <1>4, <2>0, <3>2
  <2>2. CASE n > 0
    <3> DEFINE r == feed(parser, SubSeq(kbd, 1, n))
    <3>1. SubSeq(kbd, 1, n) \in Seq(Bytes)
      BY <1>0, <2>2
    <3>2. r \in Yields
      BY <3>1, FeedType DEF ForwardInv, Forwarded, Yield, Yields
    <3>3. Bridge(n)
      BY <1>1, <1>6, <2>2 DEF TelnetStdin
    <3>4. WentOn
      BY <1>2, <1>6, <3>2, <3>3, BridgeGoesOn
    <3> QED
      BY <1>2, <1>3, <1>4, <2>0, <3>4
  <2> QED
    BY <1>0, <2>1, <2>2
<1> QED
  BY <1>2, <1>5, <1>6

LEMMA LoopInit ==
  Init => LoopInv
<1> SUFFICES ASSUME Init
             PROVE  LoopInv
  OBVIOUS
<1>1. watch \in BOOLEAN /\ (kind = "exec" => ~watch)
  BY Zenon DEF Init
<1> QED
  BY <1>1 DEF Init, LoopInv

LEMMA LoopStep ==
  ASSUME LoopInv, ForwardInv, [Next]_vars
  PROVE  LoopInv'
<1> USE DEF LoopInv
<1>1. CASE User
  <2>0. /\ UNCHANGED <<kind, pc, ready, watch, result, unread, eofs>>
    BY <1>1 DEF User, loopVars, sentVars
  <2>1. CASE Type
    BY <2>0, <2>1 DEF Type
  <2>2. CASE Leave
    BY <2>0, <2>2 DEF Leave
  <2>3. CASE Stall
    BY <2>0, <2>3 DEF Stall
  <2> QED
    BY <1>1, <2>1, <2>2, <2>3 DEF User
<1>2. CASE Agent
  <2>0. /\ UNCHANGED <<kind, pc, ready, watch, result, eofs, typed, taking, kbd>>
    BY <1>2 DEF Agent, userVars, loopVars, sentVars
  <2>1. unread' \in Nat
    BY <1>2 DEF Agent, AgentReads, AgentOutput, AgentEnds, AgentCloses, AgentDies
  <2> QED
    BY <2>0, <2>1
<1>3. CASE Client
  <2>0. UNCHANGED <<kind, taking, typed>>
    BY <1>3 DEF Client
  <2>1. CASE Handshake
    BY <2>0, <2>1 DEF Handshake, WriteFrames, End, GoTo, sentVars
  <2>2. CASE Select
    <3>1. Readable \subseteq {"stdin", "sock"} /\ ("stdin" \in Readable => watch)
      BY DEF Readable
    <3>2. /\ pc' \in {"ping", "stdin", "sock"} /\ (pc' = "stdin" => "stdin" \in Readable)
          /\ result' = result /\ ready' = Readable /\ pc = "select"
          /\ UNCHANGED <<watch, eofs, unread, kbd>>
      BY <2>2 DEF Select, GoTo, sentVars
    <3> QED
      BY <2>0, <3>1, <3>2
  <2>3. CASE Ping
    BY <2>0, <2>3 DEF Ping, WriteFrames, GoTo, sentVars
  <2>4. CASE ReadStdin
    <3>1. pc = "stdin"
      BY <2>4 DEF ReadStdin
    <3> QED
      BY <2>0, <2>4, <3>1, ReadGoesOn DEF WentOn
  <2>5. CASE ReadSock
    <3>1. /\ ready' = {} /\ UNCHANGED <<watch, eofs, unread, kbd>>
          /\ \/ pc' = "select" /\ result' = result
             \/ pc' = "done" /\ result' # "none"
      BY <2>5 DEF ReadSock, SendTcp, End, GoTo, Outcome, sentVars
    <3> QED
      BY <2>0, <2>5, <3>1 DEF ReadSock
  <2> QED
    BY <1>3, <2>1, <2>2, <2>3, <2>4, <2>5 DEF Client
<1>4. CASE Signal
  BY <1>4 DEF Signal, Winch, loopVars, sentVars
<1>5. CASE UNCHANGED vars
  BY <1>5 DEF vars, userVars, agentVars, loopVars, sentVars
<1> QED
  BY <1>1, <1>2, <1>3, <1>4, <1>5 DEF Next, Done

LEMMA StreamInit ==
  Init => StreamInv
<1> SUFFICES ASSUME Init
             PROVE  StreamInv
  OBVIOUS
<1>1. down = <<>> /\ outs = 0 /\ shown = 0 /\ exited = FALSE /\ agent = "run"
  BY DEF Init
<1>2. ResultTruthful /\ ExitSurvives
  BY DEF Init, ResultTruthful, ExitSurvives
<1>3. exited \in BOOLEAN /\ ~exited
  BY <1>1
<1>4. <<>> \in Seq({"OUT", "EXIT", "ERROR", "BADEXIT", "CUT"}) /\ Len(<<>>) = 0
  BY EmptySeq
<1> QED
  BY <1>1, <1>2, <1>3, <1>4 DEF StreamInv

\* A client that goes on leaves the stream alone: it can only write more.
LEMMA StreamKept ==
  ASSUME StreamInv, LoopInv, unread' \in Nat, unread' >= unread,
         pc # "done", pc' = "handshake" => pc = "handshake",
         UNCHANGED <<kind, down, outs, shown, exited, agent>>,
         \/ result' = result /\ pc' # "done"
         \/ result' \in {"error", "closed"} /\ (pc' = "done" /\ kind # "telnet" => ~exited \/ unread' > 0)
  PROVE  StreamInv'
<1>1. result = "none" /\ unread \in Nat
  BY DEF LoopInv
<1>2. ResultTruthful' /\ ExitSurvives'
  BY <1>1 DEF ResultTruthful, ExitSurvives
<1> QED
  BY <1>1, <1>2 DEF StreamInv

LEMMA StreamStepAgent ==
  ASSUME StreamInv, LoopInv, Agent
  PROVE  StreamInv'
<1> DEFINE Frames == {"OUT", "EXIT", "ERROR", "BADEXIT", "CUT"}
<1>1. /\ UNCHANGED <<kind, pc, shown, result>> /\ pc \notin {"handshake", "done"}
      /\ result = "none" /\ unread \in Nat
  BY DEF Agent, loopVars, LoopInv
<1>2. ResultTruthful' /\ ExitSurvives'
  BY <1>1 DEF ResultTruthful, ExitSurvives
<1>3. down \in Seq(Frames) /\ Len(down) \in Nat
  BY LenProperties DEF StreamInv
<1>4. ASSUME NEW f \in Frames
      PROVE  /\ Append(down, f) \in Seq(Frames) /\ Len(Append(down, f)) = Len(down) + 1
             /\ Append(down, f)[Len(down) + 1] = f
             /\ \A i \in 1..Len(down) : Append(down, f)[i] = down[i]
  <2> HIDE DEF Frames
  <2> QED
    BY <1>3, AppendProperties
<1>5. CASE AgentReads
  BY <1>1, <1>2, <1>5 DEF AgentReads, StreamInv
<1>6. CASE AgentOutput
  <2>1. /\ agent = "run" /\ outs' = outs + 1 /\ down' = Append(down, "OUT")
        /\ UNCHANGED <<exited, agent>> /\ ~exited
    BY <1>6 DEF AgentOutput, StreamInv
  <2>2. down' \in Seq(Frames) /\ Len(down') = Len(down) + 1 /\ down'[Len(down) + 1] = "OUT"
        /\ \A i \in 1..Len(down) : down'[i] = down[i]
    BY <1>4, <2>1
  <2> QED
    BY <1>1, <1>2, <1>3, <2>1, <2>2 DEF StreamInv
<1>7. CASE AgentEnds
  <2>1. PICK f \in {"EXIT", "ERROR", "BADEXIT"} : down' = Append(down, f) /\ exited' = (f = "EXIT")
    BY <1>7 DEF AgentEnds
  <2>2. agent = "run" /\ agent' = "over" /\ UNCHANGED <<unread, outs>> /\ ~exited
    BY <1>7 DEF AgentEnds, StreamInv
  <2>3. down' \in Seq(Frames) /\ Len(down') = Len(down) + 1 /\ down'[Len(down) + 1] = f
        /\ \A i \in 1..Len(down) : down'[i] = down[i] /\ down[i] = "OUT"
    BY <1>4, <2>1, <2>2 DEF StreamInv
  <2>4. exited' \in BOOLEAN /\ (exited' <=> f = "EXIT")
    BY <2>1, Zenon
  <2> QED
    BY <1>1, <1>2, <1>3, <2>1, <2>2, <2>3, <2>4 DEF StreamInv
<1>8. CASE AgentCloses
  <2>1. agent = "over" /\ UNCHANGED <<unread, outs, exited>>
    BY <1>8 DEF AgentCloses
  <2>2. CASE unread = 0 /\ agent' = "closed" /\ UNCHANGED down
    BY <1>1, <1>2, <1>3, <2>1, <2>2 DEF StreamInv, Gone
  <2>3. CASE unread > 0 /\ agent' = "reset" /\ down' = down
    BY <1>1, <1>2, <1>3, <2>1, <2>3 DEF StreamInv, Gone
  <2>4. CASE unread > 0 /\ agent' = "reset" /\ down' = <<>>
    <3>1. down' \in Seq(Frames) /\ Len(down') = 0
      BY <2>4
    <3> QED
      BY <1>1, <1>2, <2>1, <2>4, <3>1 DEF StreamInv, Gone
  <2> QED
    BY <1>8, <2>2, <2>3, <2>4 DEF AgentCloses
<1>9. CASE AgentDies
  <2>1. agent = "run" /\ agent' = "closed" /\ UNCHANGED <<unread, outs, exited>> /\ ~exited
    BY <1>9 DEF AgentDies, StreamInv
  <2>2. CASE down' = down
    BY <1>1, <1>2, <1>3, <2>1, <2>2 DEF StreamInv, Gone
  <2>3. CASE down' = Append(down, "CUT")
    <3>1. down' \in Seq(Frames) /\ Len(down') = Len(down) + 1 /\ down'[Len(down) + 1] = "CUT"
          /\ \A i \in 1..Len(down) : down'[i] = down[i] /\ down[i] = "OUT"
      BY <1>4, <2>1, <2>3 DEF StreamInv
    <3> QED
      BY <1>1, <1>2, <1>3, <2>1, <3>1 DEF StreamInv, Gone
  <2> QED
    BY <1>9, <2>2, <2>3 DEF AgentDies
<1> QED
  BY <1>5, <1>6, <1>7, <1>8, <1>9 DEF Agent

LEMMA Outcomes ==
  ASSUME kind \in {"exec", "shell", "telnet"}
  PROVE  /\ Outcome("CUT") = "error" /\ Outcome("RESET") = "error"
         /\ Outcome("EXIT") = IF kind = "telnet" THEN "closed" ELSE "exit"
         /\ Outcome("ERROR") \in {"closed", "error", "one"}
         /\ \A f \in {"NONE", "BADEXIT"} :
              Outcome(f) \in {"closed", "error"} \/ (Outcome(f) = "zero" /\ kind = "shell")
<1>1. Outcome("CUT") = "error" /\ Outcome("RESET") = "error"
  BY DEF Outcome
<1>2. Outcome("EXIT") = IF kind = "telnet" THEN "closed" ELSE "exit"
  BY DEF Outcome
<1>3. Outcome("ERROR") \in {"closed", "error", "one"}
  BY DEF Outcome
<1>4. Outcome("NONE") \in {"closed", "error"} \/ (Outcome("NONE") = "zero" /\ kind = "shell")
  BY DEF Outcome
<1>5. Outcome("BADEXIT") \in {"closed", "error"} \/ (Outcome("BADEXIT") = "zero" /\ kind = "shell")
  BY DEF Outcome
<1> QED
  BY <1>1, <1>2, <1>3, <1>4, <1>5

LEMMA StreamStepSock ==
  ASSUME StreamInv, LoopInv, ReadSock, UNCHANGED <<kind, taking, outs, exited, agent>>
  PROVE  StreamInv'
<1> DEFINE Frames == {"OUT", "EXIT", "ERROR", "BADEXIT", "CUT"}
<1>1. PICK f \in Frames \cup {"NONE", "RESET"} :
        /\ ReadFrame(f)
        /\ IF f # "OUT" THEN End(Outcome(f)) /\ UNCHANGED shown
           ELSE SendTcp(shown' = shown + 1 /\ GoTo("select"), UNCHANGED shown /\ End("error"))
  BY Zenon DEF ReadSock
<1>2. pc = "sock" /\ result = "none" /\ unread' = unread /\ unread \in Nat
  BY DEF ReadSock, LoopInv
<1>3. down \in Seq(Frames) /\ Len(down) \in Nat
  BY LenProperties DEF StreamInv
<1>7. /\ outs \in Nat /\ shown \in Nat /\ shown <= outs /\ exited \in BOOLEAN
  BY <1>2 DEF StreamInv
<1>4. kind \in {"exec", "shell", "telnet"}
  BY ClientAssumption DEF LoopInv
<1>5. CASE down = <<>>
  <2>1. f = (IF agent = "closed" THEN "NONE" ELSE "RESET") /\ down' = down
    BY <1>1, <1>5 DEF ReadFrame
  <2>2. pc' = "done" /\ result' = Outcome(f) /\ shown' = shown
    BY <1>1, <2>1 DEF End
  <2>3. result' \in {"error", "closed"} \/ (f = "NONE" /\ kind = "shell" /\ result' = "zero")
    <3>1. f = "RESET" \/ f = "NONE"
      BY <2>1
    <3> QED
      BY <1>4, <2>2, <3>1, Outcomes
  <2>4. exited => agent = "reset" /\ unread > 0
    BY <1>2, <1>5 DEF StreamInv
  <2>5. ResultTruthful' /\ ExitSurvives'
    BY <1>2, <2>1, <2>3, <2>4 DEF ResultTruthful, ExitSurvives
  <2> QED
    BY <1>2, <2>1, <2>2, <2>5 DEF StreamInv
<1>6. CASE down # <<>>
  <2> DEFINE m == Len(down)
             n == Len(down')
  <2>0. down[1] = f /\ down' = Tail(down)
    BY <1>1, <1>6 DEF ReadFrame
  <2>1. /\ down' \in Seq(Frames) /\ m \in Nat /\ n \in Nat /\ m = n + 1
        /\ \A i \in 1..n : down'[i] = down[i + 1]
    <3> HIDE DEF Frames
    <3> QED
      BY <1>3, <1>6, <2>0, HeadTailProperties, EmptySeq
  <2>2. /\ agent = "run" => shown + m = outs
        /\ \A i \in 1..m :
             /\ down[i] = "OUT" => shown + i <= outs
             /\ down[i] # "OUT" => i = m /\ agent # "run" /\ (exited <=> down[i] = "EXIT")
             /\ down[i] = "EXIT" => shown + i = outs + 1
        /\ exited => down[m] = "EXIT" \/ (agent = "reset" /\ unread > 0)
    BY <1>2 DEF StreamInv
  <2>3. f \in Frames
    <3>1. down[1] \in Frames
      BY <1>3, <2>1
    <3> QED
      BY <2>0, <3>1
  <2>4. CASE f = "OUT" /\ taking
    <3>1. shown' = shown + 1 /\ pc' = "select" /\ result' = "none"
      BY <1>1, <1>2, <2>4 DEF SendTcp, GoTo
    <3>2. ResultTruthful' /\ ExitSurvives'
      BY <3>1 DEF ResultTruthful, ExitSurvives
    <3>3. /\ shown' \in Nat /\ shown' <= outs /\ (agent = "run" => shown' + n = outs)
          /\ \A i \in 1..n :
               /\ down'[i] = "OUT" => shown' + i <= outs
               /\ down'[i] # "OUT" => i = n /\ agent # "run" /\ (exited <=> down'[i] = "EXIT")
               /\ down'[i] = "EXIT" => shown' + i = outs + 1
          /\ exited => (n # 0 /\ down'[n] = "EXIT") \/ (agent = "reset" /\ unread > 0)
      <4> HIDE DEF m, n, Frames
      <4>1. shown' \in Nat /\ shown' <= outs /\ (agent = "run" => shown' + n = outs)
        BY <1>7, <2>0, <2>1, <2>2, <2>4, <3>1
      <4>2. ASSUME NEW i \in 1..n
            PROVE  /\ down'[i] = "OUT" => shown' + i <= outs
                   /\ down'[i] # "OUT" => i = n /\ agent # "run" /\ (exited <=> down'[i] = "EXIT")
                   /\ down'[i] = "EXIT" => shown' + i = outs + 1
        <5>1. i + 1 \in 1..m /\ down'[i] = down[i + 1] /\ (i + 1 = m => i = n)
          BY <2>1
        <5>2. shown' + i = shown + (i + 1)
          BY <1>7, <3>1
        <5> QED
          BY <2>2, <5>1, <5>2
      <4>3. exited => (n # 0 /\ down'[n] = "EXIT") \/ (agent = "reset" /\ unread > 0)
        <5>1. down[m] = "EXIT" => n # 0 /\ n \in 1..n
          BY <2>0, <2>1, <2>4
        <5>2. n \in 1..n => down'[n] = down[m]
          BY <2>1
        <5> QED
          BY <2>2, <5>1, <5>2
      <4> QED
        BY <4>1, <4>2, <4>3
    <3>4. n # 0 => down' # <<>>
      BY EmptySeq
    <3> QED
      BY <1>2, <1>7, <2>1, <3>1, <3>2, <3>3, <3>4 DEF StreamInv
  <2>5. CASE ~(f = "OUT" /\ taking)
    <3>1. pc' = "done" /\ shown' = shown /\ result' = IF f = "OUT" THEN "error" ELSE Outcome(f)
      BY <1>1, <2>5 DEF SendTcp, End
    <3>2. /\ f # "OUT" => (exited <=> f = "EXIT") /\ (f = "EXIT" => shown = outs)
          /\ \A i \in 1..n :
               /\ down'[i] = "OUT" => shown + i <= outs
               /\ down'[i] # "OUT" => i = n /\ agent # "run" /\ (exited <=> down'[i] = "EXIT")
      <4> HIDE DEF m, n, Frames
      <4>1. f # "OUT" => (exited <=> f = "EXIT") /\ (f = "EXIT" => shown = outs)
        <5>1. 1 \in 1..m
          BY <2>1
        <5> QED
          BY <1>7, <2>0, <2>2, <5>1
      <4>2. ASSUME NEW i \in 1..n
            PROVE  /\ down'[i] = "OUT" => shown + i <= outs
                   /\ down'[i] # "OUT" => i = n /\ agent # "run" /\ (exited <=> down'[i] = "EXIT")
        <5>1. i + 1 \in 1..m /\ down'[i] = down[i + 1] /\ (i + 1 = m => i = n)
          BY <2>1
        <5>2. shown + (i + 1) <= outs => shown + i <= outs
          BY <1>7
        <5> QED
          BY <2>2, <5>1, <5>2
      <4> QED
        BY <4>1, <4>2
    <3>3. f = "OUT" => kind = "telnet"
      BY <2>5 DEF LoopInv
    <3>4. ResultTruthful' /\ ExitSurvives'
      <4>1. CASE f = "OUT"
        BY <3>1, <3>3, <4>1 DEF ResultTruthful, ExitSurvives
      <4>2. CASE f # "OUT"
        <5>1. \/ f = "EXIT" /\ result' \in {"exit", "closed"} /\ (kind # "telnet" => result' = "exit")
              \/ f # "EXIT" /\ result' \in {"error", "one", "closed"}
              \/ f # "EXIT" /\ result' = "zero" /\ kind = "shell"
          BY <1>4, <2>3, <3>1, <4>2, Outcomes
        <5> QED
          BY <3>1, <3>2, <4>2, <5>1 DEF ResultTruthful, ExitSurvives
      <4> QED
        BY <4>1, <4>2
    <3> QED
      BY <1>2, <1>7, <2>1, <3>1, <3>2, <3>4 DEF StreamInv
  <2> QED
    BY <2>4, <2>5
<1> QED
  BY <1>5, <1>6

LEMMA StreamStep ==
  ASSUME StreamInv, LoopInv, ForwardInv, [Next]_vars
  PROVE  StreamInv'
<1>0. unread \in Nat /\ (result = "none" <=> pc # "done")
  BY DEF LoopInv
<1>1. CASE User
  BY <1>0, <1>1, StreamKept DEF User, agentVars, loopVars
<1>2. CASE Agent
  BY <1>2, StreamStepAgent
<1>3. CASE Client
  <2>0. UNCHANGED <<kind, taking, outs, exited, agent>>
    BY <1>3 DEF Client
  <2>1. CASE Handshake
    <3>1. ~exited /\ pc = "handshake"
      BY <2>1 DEF Handshake, StreamInv
    <3> QED
      BY <1>0, <2>0, <2>1, <3>1, StreamKept DEF Handshake, WriteFrames, End, GoTo
  <2>2. CASE Select
    BY <1>0, <2>0, <2>2, StreamKept DEF Select, GoTo
  <2>3. CASE Ping
    BY <1>0, <2>0, <2>3, StreamKept DEF Ping, WriteFrames, GoTo
  <2>4. CASE ReadStdin
    <3>1. pc = "stdin" /\ WentOn /\ UNCHANGED <<shown, down>>
      BY <2>4, ReadGoesOn DEF ReadStdin
    <3> QED
      BY <1>0, <2>0, <3>1, StreamKept DEF WentOn
  <2>5. CASE ReadSock
    BY <2>0, <2>5, StreamStepSock
  <2> QED
    BY <1>3, <2>1, <2>2, <2>3, <2>4, <2>5 DEF Client
<1>4. CASE Signal
  BY <1>0, <1>4, StreamKept DEF Signal, Winch, loopVars
<1>5. CASE UNCHANGED vars
  BY <1>5 DEF vars, userVars, agentVars, loopVars, StreamInv, ResultTruthful, ExitSurvives
<1> QED
  BY <1>1, <1>2, <1>3, <1>4, <1>5 DEF Next, Done

-----------------------------------------------------------------------------
(* What is forwarded.                                                      *)

LEMMA PrefixOf ==
  ASSUME NEW S, NEW a \in Seq(S), NEW b \in Seq(S)
  PROVE  IsPrefix(a, a \o b)
<1>1. Len(a) \in Nat /\ Len(b) \in Nat /\ Len(a \o b) = Len(a) + Len(b) /\ a \o b \in Seq(S)
  BY LenProperties, ConcatProperties
<1>2. \A i \in 1..Len(a) : (a \o b)[i] = a[i]
  BY ConcatProperties
<1>3. SubSeq(a, 1, Len(a)) = SubSeq(a \o b, 1, Len(a))
  BY <1>1, <1>2
<1> QED
  BY <1>1, <1>3 DEF IsPrefix

LEMMA PrefixGrows ==
  ASSUME NEW S, NEW a \in Seq(S), NEW b \in Seq(S), NEW c \in Seq(S), IsPrefix(a, b)
  PROVE  IsPrefix(a, b \o c)
<1>1. Len(a) \in Nat /\ Len(b) \in Nat /\ Len(c) \in Nat /\ Len(b \o c) = Len(b) + Len(c)
  BY LenProperties, ConcatProperties
<1>2. Len(a) <= Len(b) /\ SubSeq(a, 1, Len(a)) = SubSeq(b, 1, Len(a))
  BY DEF IsPrefix
<1>3. \A i \in 1..Len(b) : (b \o c)[i] = b[i]
  BY ConcatProperties
<1>4. SubSeq(b, 1, Len(a)) = SubSeq(b \o c, 1, Len(a))
  BY <1>1, <1>2, <1>3
<1> QED
  BY <1>1, <1>2, <1>4 DEF IsPrefix

\* What comes first in a join is a prefix of it.
LEMMA JoinedPrefix ==
  ASSUME NEW q \in Yields, NEW x \in Yields
  PROVE  /\ IsPrefix(q.data, Join(q, x).data) /\ IsPrefix(q.resizes, Join(q, x).resizes)
         /\ IsPrefix(q.replies, Join(q, x).replies)
<1>1. /\ q.data \in Seq(Bytes) /\ q.resizes \in Seq(SizePairs) /\ q.replies \in Seq(Refusals)
      /\ x.data \in Seq(Bytes) /\ x.resizes \in Seq(SizePairs) /\ x.replies \in Seq(Refusals)
  BY DEF Yields
<1>2. /\ IsPrefix(q.data, q.data \o x.data) /\ IsPrefix(q.resizes, q.resizes \o x.resizes)
      /\ IsPrefix(q.replies, q.replies \o x.replies)
  BY <1>1, PrefixOf
<1> QED
  BY <1>2 DEF Join

LEMMA ForwardInit ==
  Init => ForwardInv
<1> SUFFICES ASSUME Init
             PROVE  ForwardInv
  OBVIOUS
<1>1. /\ stdin = <<>> /\ sizes = <<>> /\ replies = <<>> /\ kbd = <<>> /\ parser = FreshParser
      /\ meant = [data |-> <<>>, sizes |-> <<>>, replies |-> <<>>]
  BY DEF Init
<1>2. Forwarded = Nothing(FreshParser) /\ Meant = Nothing(FreshParser)
  BY <1>1 DEF Forwarded, Meant, Nothing
<1>3. Nothing(FreshParser) \in Yields /\ feed(FreshParser, <<>>) = Nothing(FreshParser)
  BY FreshType, NothingType, FeedEmpty
<1>4. Nothing(FreshParser).p = FreshParser
  BY DEF Nothing, Yield
<1>5. Join(Forwarded, feed(parser, kbd)) = Meant
  BY <1>1, <1>2, <1>3, <1>4, JoinNothing
<1>6. NoneInvented
  BY <1>1, EmptySeq DEF NoneInvented, IsPrefix
<1>7. /\ meant \in [data : Seq(Bytes), sizes : Seq(SizePairs), replies : Seq(Refusals)]
      /\ kbd \in Seq(Bytes)
  BY <1>1, EmptySeq
<1>8. meant = [data |-> stdin \o kbd, sizes |-> <<>>, replies |-> <<>>]
  <2>1. <<>> \o <<>> = <<>>
    BY EmptySeq, ConcatEmptySeq
  <2> QED
    BY <1>1, <2>1
<1> QED
  BY <1>1, <1>2, <1>3, <1>5, <1>6, <1>7, <1>8 DEF ForwardInv

LEMMA ForwardStepType ==
  ASSUME ForwardInv, LoopInv, Type, UNCHANGED <<kind, pc, parser, stdin, sizes, replies>>
  PROVE  ForwardInv'
<1>1. PICK t \in Tokens :
        /\ kind = "shell" => t.data = t.enc /\ t.sizes = <<>> /\ t.replies = <<>>
        /\ kbd' = kbd \o t.enc
        /\ meant' = [data |-> meant.data \o t.data, sizes |-> meant.sizes \o t.sizes,
                      replies |-> meant.replies \o t.replies]
  BY Zenon DEF Type
<1> DEFINE y == Yield(FreshParser, t.data, t.sizes, t.replies)
<1>2. t.enc \in Seq(Bytes) /\ feed(FreshParser, t.enc) = y
  BY TokensAssumption
<1>3. y \in Yields
  BY <1>2, FreshType, FeedType
<1>4. t.data \in Seq(Bytes) /\ t.sizes \in Seq(SizePairs) /\ t.replies \in Seq(Refusals)
  BY <1>3 DEF Yield, Yields
<1>5. /\ Forwarded \in Yields /\ kbd \in Seq(Bytes)
      /\ meant \in [data : Seq(Bytes), sizes : Seq(SizePairs), replies : Seq(Refusals)]
  BY DEF ForwardInv
<1>6. parser \in Parsers
  BY <1>5 DEF Forwarded, Yield, Yields
<1>7. /\ meant.data \in Seq(Bytes) /\ meant.sizes \in Seq(SizePairs) /\ meant.replies \in Seq(Refusals)
      /\ stdin \in Seq(Bytes) /\ sizes \in Seq(SizePairs) /\ replies \in Seq(Refusals)
  BY <1>5 DEF Forwarded, Yield, Yields
<1>8. /\ kbd' \in Seq(Bytes) /\ meant.data \o t.data \in Seq(Bytes)
      /\ meant.sizes \o t.sizes \in Seq(SizePairs) /\ meant.replies \o t.replies \in Seq(Refusals)
  BY <1>1, <1>2, <1>4, <1>5, <1>7, ConcatProperties
<1>9. meant' \in [data : Seq(Bytes), sizes : Seq(SizePairs), replies : Seq(Refusals)]
  BY <1>1, <1>8
<1>10. Forwarded' = Forwarded
  BY DEF Forwarded
<1>11. NoneInvented'
  <2>1. IsPrefix(stdin, meant.data) /\ IsPrefix(sizes, meant.sizes) /\ IsPrefix(replies, meant.replies)
    BY DEF ForwardInv, NoneInvented
  <2>2. IsPrefix(stdin, meant.data \o t.data)
    BY <1>4, <1>7, <2>1, PrefixGrows
  <2>3. IsPrefix(sizes, meant.sizes \o t.sizes)
    BY <1>4, <1>7, <2>1, PrefixGrows
  <2>4. IsPrefix(replies, meant.replies \o t.replies)
    BY <1>4, <1>7, <2>1, PrefixGrows
  <2>5. /\ meant'.data = meant.data \o t.data /\ meant'.sizes = meant.sizes \o t.sizes
        /\ meant'.replies = meant.replies \o t.replies
    BY <1>1
  <2> QED
    BY <2>2, <2>3, <2>4, <2>5 DEF NoneInvented
<1>12. ASSUME kind = "telnet", pc # "done"
       PROVE  Join(Forwarded, feed(parser, kbd'))  = Meant'
  <2> DEFINE x == feed(parser, kbd)
  <2>1. Join(Forwarded, x) = Meant
    BY <1>12 DEF ForwardInv
  <2>2. x \in Yields
    BY <1>5, <1>6, FeedType
  <2>3. x.p = FreshParser
    <3>1. Join(Forwarded, x).p = x.p
      BY DEF Join
    <3>2. Meant.p = FreshParser
      BY DEF Meant, Yield
    <3> QED
      BY <2>1, <3>1, <3>2, Zenon
  <2>4. feed(parser, kbd \o t.enc) = Join(x, feed(x.p, t.enc))
    BY <1>2, <1>5, <1>6, FeedCut, Zenon
  <2>5. feed(parser, kbd') = Join(x, y)
    BY <1>1, <1>2, <2>3, <2>4, Zenon
  <2>6. Join(Forwarded, Join(x, y)) = Join(Join(Forwarded, x), y)
    BY <1>3, <1>5, <2>2, JoinAssociative, Zenon
  <2>7. Join(Meant, y) = Meant'
    BY <1>1 DEF Join, Meant, Yield
  <2> QED
    BY <2>1, <2>5, <2>6, <2>7, Zenon
<1>13. ASSUME kind # "telnet", pc # "done"
       PROVE  meant' = [data |-> stdin \o kbd', sizes |-> <<>>, replies |-> <<>>]
  <2>0. kind = "shell"
    BY <1>13, ClientAssumption DEF Type, LoopInv
  <2>1. t.data = t.enc /\ t.sizes = <<>> /\ t.replies = <<>>
    BY <1>1, <2>0
  <2>2. meant = [data |-> stdin \o kbd, sizes |-> <<>>, replies |-> <<>>]
    BY <1>13 DEF ForwardInv
  <2>3. meant.data = stdin \o kbd /\ meant.sizes = <<>> /\ meant.replies = <<>>
    BY <2>2
  <2>4. <<>> \o <<>> = <<>>
    BY EmptySeq, ConcatEmptySeq
  <2>5. meant.data \o t.data = stdin \o kbd'
    <3>1. \A a, b, c \in Seq(Bytes) : (a \o b) \o c = a \o (b \o c)
      BY Associative
    <3>2. (stdin \o kbd) \o t.enc = stdin \o (kbd \o t.enc)
      BY <1>2, <1>5, <1>7, <3>1, Zenon
    <3> QED
      BY <1>1, <2>1, <2>3, <3>2, Zenon
  <2> QED
    BY <1>1, <2>1, <2>3, <2>4, <2>5, Zenon
<1>14. kind # "telnet" => sizes = <<>> /\ replies = <<>> /\ parser = FreshParser
  BY DEF ForwardInv
<1>15. Forwarded' \in Yields
  BY <1>5, <1>10
<1> HIDE DEF y
<1>16. kind = "telnet" /\ pc # "done" => Join(Forwarded', feed(parser, kbd')) = Meant'
  BY <1>10, <1>12, Zenon
<1> QED
  BY <1>8, <1>9, <1>11, <1>13, <1>14, <1>15, <1>16, Zenon DEF ForwardInv

LEMMA ForwardStepRead ==
  ASSUME ForwardInv, LoopInv, ReadStdin, UNCHANGED <<kind, meant>>
  PROVE  ForwardInv'
<1>0. /\ Forwarded \in Yields /\ kbd \in Seq(Bytes) /\ Len(kbd) \in Nat
      /\ meant \in [data : Seq(Bytes), sizes : Seq(SizePairs), replies : Seq(Refusals)]
  BY LenProperties DEF ForwardInv
<1>1. PICK n \in 0..Len(kbd) :
        /\ (n = 0) = (kbd = <<>>) /\ kbd' = SubSeq(kbd, n + 1, Len(kbd))
        /\ IF kind = "shell" THEN ShellStdin(n) ELSE TelnetStdin(n)
  BY Zenon DEF ReadStdin
<1> DEFINE c == SubSeq(kbd, 1, n)
           d == SubSeq(kbd, n + 1, Len(kbd))
<1>2. c \in Seq(Bytes) /\ d \in Seq(Bytes) /\ kbd = c \o d
  <2>1. 1 \in 1..(Len(kbd) + 1) /\ n \in (1 - 1)..Len(kbd) /\ Len(kbd) \in n..Len(kbd)
    BY <1>0
  <2>2. c \in Seq(Bytes) /\ d \in Seq(Bytes)
    BY <1>0
  <2>3. SubSeq(kbd, 1, Len(kbd)) = kbd
    BY <1>0
  <2>4. c \o d = SubSeq(kbd, 1, Len(kbd))
    BY <1>0, <2>1, ConcatAdjacentSubSeq, Zenon
  <2> QED
    BY <2>2, <2>3, <2>4, Zenon
<1> HIDE DEF c, d
<1>3. pc = "stdin" /\ kind \in {"shell", "telnet"} /\ unread \in Nat
  BY ClientAssumption DEF LoopInv, ReadStdin
<1>4. /\ parser \in Parsers /\ stdin \in Seq(Bytes) /\ sizes \in Seq(SizePairs)
      /\ replies \in Seq(Refusals)
  BY <1>0 DEF Forwarded, Yield, Yields
<1>5. kbd' = d
  BY <1>1 DEF d
<1>6. NoneInvented
  BY DEF ForwardInv
<1>7. CASE kind = "shell"
  <2>1. stdin' = stdin \o c /\ UNCHANGED <<parser, replies, sizes>>
    BY <1>1, <1>7 DEF ShellStdin, c
  <2>2. /\ meant = [data |-> stdin \o kbd, sizes |-> <<>>, replies |-> <<>>]
        /\ sizes = <<>> /\ replies = <<>> /\ parser = FreshParser
    BY <1>3, <1>7 DEF ForwardInv
  <2>3. stdin \o c \in Seq(Bytes)
    BY <1>2, <1>4, ConcatProperties
  <2>4. stdin \o kbd = (stdin \o c) \o d
    <3>1. \A u, v, w \in Seq(Bytes) : (u \o v) \o w = u \o (v \o w)
      BY Associative
    <3>2. (stdin \o c) \o d = stdin \o (c \o d)
      BY <1>2, <1>4, <3>1, Zenon
    <3> QED
      BY <1>2, <3>2, Zenon
  <2>5. Forwarded' \in Yields
    BY <1>4, <2>1, <2>3 DEF Forwarded, Yield, Yields
  <2>6. meant' = [data |-> stdin' \o kbd', sizes |-> <<>>, replies |-> <<>>]
    BY <1>5, <2>1, <2>2, <2>4, Zenon
  <2>7. NoneInvented'
    <3>1. IsPrefix(stdin', stdin' \o kbd')
      BY <1>2, <1>5, <2>1, <2>3, PrefixOf
    <3>2. meant'.data = stdin' \o kbd' /\ UNCHANGED <<sizes, replies, meant>>
      BY <2>1, <2>6
    <3> QED
      BY <1>6, <3>1, <3>2 DEF NoneInvented
  <2> QED
    BY <1>0, <1>2, <1>5, <1>7, <2>1, <2>2, <2>5, <2>6, <2>7 DEF ForwardInv
<1>8. CASE kind = "telnet"
  <2>1. CASE n = 0
    <3>1. pc' = "done" /\ UNCHANGED <<parser, replies, sizes, stdin>>
      BY <1>1, <1>8, <2>1 DEF TelnetStdin, End
    <3> QED
      BY <1>0, <1>2, <1>5, <1>6, <1>8, <3>1 DEF ForwardInv, Forwarded, NoneInvented
  <2>2. CASE n > 0
    <3> DEFINE r == feed(parser, c)
    <3>1. r \in Yields /\ r.p \in Parsers
      BY <1>2, <1>4, FeedType, Zenon
    <3>2. Bridge(n)
      BY <1>1, <1>8, <2>2 DEF TelnetStdin
    <3>3. /\ parser' = r.p
          /\ \/ Forwarded' = Join(Forwarded, r)
             \/ pc' = "done" /\ UNCHANGED <<replies, sizes, stdin>>
      BY <1>3, <1>8, <3>1, <3>2, BridgeGoesOn DEF c
    <3>4. CASE Forwarded' = Join(Forwarded, r)
      <4>1. Forwarded' \in Yields
        BY <1>0, <3>1, <3>4, JoinType
      <4>2. feed(parser, kbd) = Join(r, feed(r.p, d))
        BY <1>2, <1>4, FeedCut, Zenon
      <4>3. feed(r.p, d) \in Yields
        BY <1>2, <3>1, FeedType, Zenon
      <4>4. Join(Forwarded, feed(parser, kbd)) = Meant
        BY <1>3, <1>8 DEF ForwardInv
      <4>5. Join(Join(Forwarded, r), feed(r.p, d)) = Join(Forwarded, Join(r, feed(r.p, d)))
        BY <1>0, <3>1, <4>3, JoinAssociative, Zenon
      <4>6. Meant' = Meant
        BY DEF Meant
      <4>7. Join(Forwarded', feed(parser', kbd')) = Meant'
        BY <1>5, <3>3, <3>4, <4>2, <4>4, <4>5, <4>6, Zenon
      <4>8. NoneInvented'
        <5> DEFINE q == Forwarded'
                   x == feed(r.p, d)
        <5>1. Join(q, x) = Meant'
          BY <3>4, <4>2, <4>4, <4>5, <4>6, Zenon
        <5>2. q.data = stdin' /\ q.resizes = sizes' /\ q.replies = replies'
          BY DEF Forwarded, Yield
        <5>3. /\ Meant'.data = meant'.data /\ Meant'.resizes = meant'.sizes
              /\ Meant'.replies = meant'.replies
          BY DEF Meant, Yield
        <5> HIDE DEF q, x
        <5>4. IsPrefix(q.data, Join(q, x).data) /\ IsPrefix(q.resizes, Join(q, x).resizes)
              /\ IsPrefix(q.replies, Join(q, x).replies)
          BY <4>1, <4>3, JoinedPrefix, Zenon DEF q, x
        <5> QED
          BY <5>1, <5>2, <5>3, <5>4, Zenon DEF NoneInvented
      <4> QED
        BY <1>0, <1>2, <1>5, <1>8, <4>1, <4>7, <4>8 DEF ForwardInv
    <3>5. CASE pc' = "done" /\ UNCHANGED <<replies, sizes, stdin>>
      <4>1. Forwarded' \in Yields
        BY <1>4, <3>1, <3>3, <3>5 DEF Forwarded, Yield, Yields
      <4> QED
        BY <1>0, <1>2, <1>5, <1>6, <1>8, <3>5, <4>1 DEF ForwardInv, NoneInvented
    <3> QED
      BY <3>3, <3>4, <3>5
  <2> QED
    BY <1>0, <2>1, <2>2
<1> QED
  BY <1>3, <1>7, <1>8

\* A step that neither types nor forwards.
LEMMA ForwardKept ==
  ASSUME ForwardInv, pc' # "done" => pc # "done",
         UNCHANGED <<kind, parser, stdin, sizes, replies, kbd, meant>>
  PROVE  ForwardInv'
<1>1. Forwarded' = Forwarded /\ Meant' = Meant /\ (NoneInvented' <=> NoneInvented)
  BY DEF Forwarded, Meant, NoneInvented
<1> QED
  BY <1>1 DEF ForwardInv

LEMMA ForwardStep ==
  ASSUME ForwardInv, LoopInv, [Next]_vars
  PROVE  ForwardInv'
<1>1. CASE User
  <2>0. UNCHANGED <<kind, pc, parser, stdin, sizes, replies>>
    BY <1>1 DEF User, loopVars, sentVars
  <2>1. CASE Type
    BY <2>0, <2>1, ForwardStepType
  <2>2. CASE Leave
    BY <2>0, <2>2, ForwardKept DEF Leave
  <2>3. CASE Stall
    BY <2>0, <2>3, ForwardKept DEF Stall
  <2> QED
    BY <1>1, <2>1, <2>2, <2>3 DEF User
<1>2. CASE Agent
  BY <1>2, ForwardKept DEF Agent, userVars, loopVars, sentVars
<1>3. CASE Client
  <2>0. UNCHANGED <<kind, meant>>
    BY <1>3 DEF Client
  <2>1. CASE Handshake
    BY <2>0, <2>1, ForwardKept DEF Handshake, sentVars
  <2>2. CASE Select
    BY <2>0, <2>2, ForwardKept DEF Select, sentVars
  <2>3. CASE Ping
    BY <2>0, <2>3, ForwardKept DEF Ping, sentVars
  <2>4. CASE ReadStdin
    BY <2>0, <2>4, ForwardStepRead
  <2>5. CASE ReadSock
    BY <2>0, <2>5, ForwardKept DEF ReadSock, sentVars
  <2> QED
    BY <1>3, <2>1, <2>2, <2>3, <2>4, <2>5 DEF Client
<1>4. CASE Signal
  BY <1>4, ForwardKept DEF Signal, Winch, loopVars, sentVars
<1>5. CASE UNCHANGED vars
  BY <1>5, ForwardKept DEF vars, userVars, loopVars, sentVars
<1> QED
  BY <1>1, <1>2, <1>3, <1>4, <1>5 DEF Next, Done

\* A refusal needs no reply.
LEMMA NoReplyToRefusal ==
  ASSUME NEW x \in Refusals
  PROVE  negotiate(x[1], x[2]) = <<>>
BY DEF Refusals, negotiate

LEMMA ForwardProvides ==
  ForwardInv => TypedForwarded
<1> SUFFICES ASSUME ForwardInv
             PROVE  TypedForwarded
  OBVIOUS
<1>1. /\ Forwarded \in Yields
      /\ meant \in [data : Seq(Bytes), sizes : Seq(SizePairs), replies : Seq(Refusals)]
  BY DEF ForwardInv
<1>2. parser \in Parsers /\ replies \in Seq(Refusals) /\ stdin \in Seq(Bytes)
  BY <1>1 DEF Forwarded, Yield, Yields
<1>3. ASSUME kbd = <<>>, pc = "select"
      PROVE  meant = [data |-> stdin, sizes |-> sizes, replies |-> replies]
  <2>1. CASE kind = "telnet"
    <3>1. Join(Forwarded, Nothing(parser)) = Meant
      BY <1>2, <1>3, <2>1, FeedEmpty DEF ForwardInv
    <3>2. Forwarded.p = parser
      BY DEF Forwarded, Yield
    <3>3. Forwarded = Meant
      BY <1>1, <3>1, <3>2, JoinNothing
    <3> QED
      BY <1>1, <3>3 DEF Forwarded, Meant, Yield
  <2>2. CASE kind # "telnet"
    <3>1. /\ meant = [data |-> stdin \o <<>>, sizes |-> <<>>, replies |-> <<>>]
          /\ sizes = <<>> /\ replies = <<>>
      BY <1>3, <2>2 DEF ForwardInv
    <3>2. stdin \o <<>> = stdin
      BY <1>2, ConcatEmptySeq
    <3> QED
      BY <3>1, <3>2
  <2> QED
    BY <2>1, <2>2
<1>4. ASSUME NEW i \in DOMAIN replies
      PROVE  negotiate(replies[i][1], replies[i][2]) = <<>>
  <2>1. replies[i] \in Refusals
    BY <1>2
  <2> QED
    BY <2>1, NoReplyToRefusal
<1> QED
  BY <1>3, <1>4 DEF TypedForwarded, ForwardInv, NoneInvented

-----------------------------------------------------------------------------
LEMMA ClientInvariant == Spec => []ClientInv
<1>1. Init => ClientInv
  BY LoopInit, StreamInit, ForwardInit DEF ClientInv
<1>2. ClientInv /\ [Next]_vars => ClientInv'
  BY LoopStep, StreamStep, ForwardStep DEF ClientInv
<1> QED
  BY <1>1, <1>2, PTL DEF Spec

\* The loop of each client keeps its state well formed, and writes STDIN_EOF
\* at most once: after it stdin is not watched any more (run_shell).
THEOREM ClientTypeCorrect == Spec => []TypeOK
<1>1. ClientInv => TypeOK
  <2> SUFFICES ASSUME ClientInv
               PROVE  TypeOK
    OBVIOUS
  <2>1. ParserTypeOK(parser)
    BY DEF ClientInv, ForwardInv, Forwarded, Yield, Yields, Parsers
  <2> QED
    BY <2>1 DEF ClientInv, LoopInv, StreamInv, TypeOK
<1> QED
  BY <1>1, ClientInvariant, PTL

\* The client reports the command's exit code only when the agent sent it and
\* all output has been passed on, and 0 of its own only from the shell, for a
\* stream without EXIT (_collect_result, run_shell).
THEOREM ResultIsTruthful == Spec => []ResultTruthful
<1>1. ClientInv => ResultTruthful
  BY DEF ClientInv, StreamInv
<1> QED
  BY <1>1, ClientInvariant, PTL

\* An EXIT that was sent is reported unless the client wrote to an agent that
\* had stopped reading (run_shell, _collect_result).
THEOREM ExitIsReported == Spec => []ExitSurvives
<1>1. ClientInv => ExitSurvives
  BY DEF ClientInv, StreamInv
<1> QED
  BY <1>1, ClientInvariant, PTL

\* Whatever the tokens are and however their bytes are cut into chunks, the
\* guest gets what the user meant, and no reply asks for a reply (feed,
\* bridge, _negotiate).
THEOREM TypedIsForwarded == Spec => []TypedForwarded
<1>1. ClientInv => TypedForwarded
  BY ForwardProvides DEF ClientInv
<1> QED
  BY <1>1, ClientInvariant, PTL
=============================================================================
