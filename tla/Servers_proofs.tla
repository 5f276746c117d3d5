--------------------------- MODULE Servers_proofs ---------------------------
(***************************************************************************)
(* The TCP servers of the two controllers.                                 *)
(*                                                                         *)
(* TcpLines, port 5000 of phase 1: for any lines, sizes and chunks, no     *)
(* command is obeyed more often than it was sent, a loss damages one line, *)
(* and without a loss the lines are taken in order.  The three proofs look *)
(* at Wire, the unfinished line and the stream behind it, as one sequence: *)
(* receiving leaves it alone or makes a hole in it, a line is added at its *)
(* end and taken from its front.                                           *)
(*                                                                         *)
(* EthServers, phase 2: what a server that gives up leaves behind, for any *)
(* servers, whatever the calls of the library                              *)
(* return.  The two specifications share no name.                          *)
(***************************************************************************)
EXTENDS TcpLines, EthServers, Integers, FiniteSetTheorems, FunctionTheorems,
        SequenceTheorems, WellFoundedInduction, TLAPS

-----------------------------------------------------------------------------
(* Sequences                                                               *)

NatLess == {p \in Nat \X Nat : p[1] < p[2]}

LEMMA NatLessWF == IsWellFoundedOn(NatLess, Nat)
  BY NatLessThanWellFounded DEF OpToRel, NatLess

\* A set of naturals has a least element: what First chooses exists.
LEMMA Least ==
  ASSUME NEW S, S \subseteq Nat, S # {}
  PROVE  \E x \in S : \A y \in S : x <= y
<1>1. PICK x \in S : \A y \in S : ~(<<y, x>> \in NatLess)
  BY NatLessWF, WFMin
<1>2. ASSUME NEW y \in S PROVE x <= y
  <2>1. ~(<<y, x>> \in NatLess)
    BY <1>1
  <2>2. x \in Nat /\ y \in Nat /\ <<y, x>> \in Nat \X Nat
    OBVIOUS
  <2>3. ~(y < x)
    BY <2>1, <2>2 DEF NatLess
  <2>4. QED BY <2>2, <2>3
<1>3. QED BY <1>2

LEMMA FirstIs ==
  ASSUME NEW D, NEW l \in Seq(D), NEW S, Has(l, S)
  PROVE  /\ First(l, S) \in 1 .. Len(l) /\ l[First(l, S)] \in S
         /\ \A j \in 1 .. First(l, S) - 1 : l[j] \notin S
<1> DEFINE P == {i \in 1 .. Len(l) : l[i] \in S}
<1>1. P \subseteq Nat /\ P # {} /\ DOMAIN l = 1 .. Len(l)
  BY DEF Has
<1>2. PICK i \in P : \A j \in P : i <= j
  BY <1>1, Least
<1>3. i \in DOMAIN l /\ l[i] \in S /\ \A j \in 1 .. i - 1 : l[j] \notin S
  BY <1>1, <1>2
<1>4. QED BY <1>1, <1>3 DEF First

LEMMA Concat ==
  ASSUME NEW D, NEW s \in Seq(D), NEW t \in Seq(D)
  PROVE /\ s \o t \in Seq(D) /\ Len(s \o t) = Len(s) + Len(t)
        /\ \A j \in 1 .. Len(s) : (s \o t)[j] = s[j]
        /\ \A j \in 1 .. Len(t) : (s \o t)[Len(s) + j] = t[j]
  OBVIOUS

LEMMA Sub ==
  ASSUME NEW D, NEW s \in Seq(D), NEW a \in Nat \ {0}, NEW b \in Nat, b <= Len(s),
         a <= b + 1
  PROVE /\ SubSeq(s, a, b) \in Seq(D) /\ Len(SubSeq(s, a, b)) = b - a + 1
        /\ \A j \in 1 .. b - a + 1 : SubSeq(s, a, b)[j] = s[a + j - 1]
  OBVIOUS

LEMMA SameSeq ==
  ASSUME NEW D, NEW s \in Seq(D), NEW t \in Seq(D), Len(s) = Len(t),
         \A j \in 1 .. Len(s) : s[j] = t[j]
  PROVE s = t
  OBVIOUS

-----------------------------------------------------------------------------
(* The types                                                               *)

OnWire == Byte \cup {NL}

LEMMA LineType ==
  /\ \A l \in Line : l \in Seq(Byte) /\ l # <<>>
  /\ NL \notin Byte
  BY TcpLinesAssumption

LEMMA Constants ==
  /\ Cap \in Nat \ {0} /\ LineCap \in Nat \ {0}
  /\ MaxChunk \in Nat \ {0}
  BY TcpLinesAssumption

LEMMA NewlineIs ==
  ASSUME NEW b \in Seq(OnWire), Has(b, {NL})
  PROVE  /\ First(b, {NL}) \in 1 .. Len(b)
         /\ b[First(b, {NL})] = NL
         /\ SubSeq(b, 1, First(b, {NL}) - 1) \in Seq(Byte)
         /\ Len(SubSeq(b, 1, First(b, {NL}) - 1)) = First(b, {NL}) - 1
         /\ \A j \in 1 .. First(b, {NL}) - 1 :
              b[j] # NL /\ SubSeq(b, 1, First(b, {NL}) - 1)[j] = b[j]
         /\ Behind(b, First(b, {NL})) \in Seq(OnWire)
         /\ Len(Behind(b, First(b, {NL}))) = Len(b) - First(b, {NL})
         /\ \A j \in 1 .. Len(b) - First(b, {NL}) :
              Behind(b, First(b, {NL}))[j] = b[j + First(b, {NL})]
<1>1. PICK i \in 1 .. Len(b) :
        /\ i = First(b, {NL}) /\ b[i] = NL /\ \A j \in 1 .. i - 1 : b[j] # NL
  BY FirstIs
<1>2. i - 1 \in Nat /\ i - 1 <= Len(b) /\ i + 1 \in Nat \ {0} /\ i + 1 <= Len(b) + 1
  OBVIOUS
<1>3. /\ SubSeq(b, 1, i - 1) \in Seq(OnWire) /\ Len(SubSeq(b, 1, i - 1)) = i - 1
      /\ \A j \in 1 .. i - 1 : SubSeq(b, 1, i - 1)[j] = b[j]
  BY <1>2, Sub
<1>4. \A j \in 1 .. i - 1 : SubSeq(b, 1, i - 1)[j] \in Byte
  <2> TAKE j \in 1 .. i - 1
  <2>1. j \in 1 .. Len(b) /\ b[j] \in OnWire
    OBVIOUS
  <2>2. QED BY <1>1, <1>3, <2>1 DEF OnWire
<1>5. SubSeq(b, 1, i - 1) \in Seq(Byte)
  BY <1>2, <1>3, <1>4
<1>6. /\ Behind(b, i) \in Seq(OnWire) /\ Len(Behind(b, i)) = Len(b) - i
      /\ \A j \in 1 .. Len(b) - i : Behind(b, i)[j] = b[j + i]
  BY <1>2, Sub DEF Behind
<1>7. QED BY <1>1, <1>3, <1>5, <1>6

LEMMA Appended ==
  ASSUME NEW S, NEW s \in Seq(S), NEW x \in S PROVE Append(s, x) \in Seq(S)
  OBVIOUS

LEMMA CountedType ==
  ASSUME NEW n \in [Command -> Nat], NEW l PROVE Counted(n, l) \in [Command -> Nat]
  BY DEF Counted

LEMMA InitType == Init => TypeOK
<1> SUFFICES ASSUME Init PROVE TypeOK
  OBVIOUS
<1> USE DEF Init
<1>1. /\ stream \in Seq(Byte \cup {NL}) /\ recv_buffer \in Seq(Byte \cup {NL})
      /\ sent \in Seq(Line) /\ taken \in Seq(Seq(Byte))
  OBVIOUS
<1>2. Len(recv_buffer) < Cap
  BY Constants
<1>3. asked \in [Command -> Nat] /\ obeyed \in [Command -> Nat]
  OBVIOUS
<1>4. losses \in Nat /\ pc \in {"accept", "recv", "parse"}
  OBVIOUS
<1>5. clean \in BOOLEAN /\ up \in BOOLEAN
  OBVIOUS
<1>6. QED BY ONLY <1>1, <1>2, <1>3, <1>4, <1>5 DEF TypeOK

LEMMA NetworkType ==
  ASSUME TypeOK, Connect \/ Break \/ \E l \in Line : SendLine(l)
  PROVE  TypeOK'
<1> USE DEF TypeOK
<1>1. CASE Connect
  BY <1>1 DEF Connect
<1>2. CASE Break
  <2>1. \A k \in 0 .. Len(stream) : SubSeq(stream, 1, k) \in Seq(OnWire)
    BY Sub DEF OnWire
  <2>2. QED BY <1>2, <2>1 DEF Break, OnWire
<1>3. ASSUME NEW l \in Line, SendLine(l) PROVE TypeOK'
  <2>1. l \o <<NL>> \in Seq(OnWire) /\ l \in Seq(OnWire)
    BY LineType DEF OnWire
  <2>2. stream' \in Seq(OnWire)
    BY <1>3, <2>1, LineType DEF SendLine, OnWire
  <2>3. asked' \in [Command -> Nat]
    BY <1>3, CountedType DEF SendLine
  <2>4. QED BY <1>3, <2>2, <2>3 DEF SendLine, OnWire
<1>4. QED BY <1>1, <1>2, <1>3

\* The line that is taken, and what is behind it.
LEMMA TakenType ==
  ASSUME TypeOK, Has(recv_buffer, {NL})
  PROVE  /\ SubSeq(recv_buffer, 1, First(recv_buffer, {NL}) - 1) \in Seq(Byte)
         /\ Behind(recv_buffer, First(recv_buffer, {NL})) \in Seq(OnWire)
         /\ Len(Behind(recv_buffer, First(recv_buffer, {NL}))) <= Len(recv_buffer)
<1>1. recv_buffer \in Seq(OnWire) /\ Len(recv_buffer) \in Nat
  BY DEF TypeOK, OnWire
<1>2. PICK i \in 1 .. Len(recv_buffer) : i = First(recv_buffer, {NL})
  BY <1>1, NewlineIs
<1>3. /\ SubSeq(recv_buffer, 1, i - 1) \in Seq(Byte)
      /\ Behind(recv_buffer, i) \in Seq(OnWire)
      /\ Len(Behind(recv_buffer, i)) = Len(recv_buffer) - i
  BY <1>1, <1>2, NewlineIs
<1>4. Len(recv_buffer) - i <= Len(recv_buffer)
  OBVIOUS
<1>5. QED BY <1>2, <1>3, <1>4

LEMMA ServerType == ASSUME TypeOK, Server PROVE TypeOK'
<1> USE DEF TypeOK
<1>1. ASSUME NEW n \in 1 .. MaxChunk, Recv(n) PROVE TypeOK'
  <2>1. /\ stream' \in Seq(OnWire)
        /\ SubSeq(stream, 1, n) \in Seq(OnWire) /\ Len(SubSeq(stream, 1, n)) = n
    BY <1>1, Sub, Constants DEF Recv, OnWire
  <2>2. CASE /\ Fits(n) /\ recv_buffer' = recv_buffer \o SubSeq(stream, 1, n)
             /\ pc' = "parse" /\ UNCHANGED <<clean, losses>>
    <3>1. recv_buffer' \in Seq(OnWire) /\ Len(recv_buffer') = Len(recv_buffer) + n
      BY <2>1, <2>2, Concat DEF OnWire
    <3>2. QED BY <1>1, <2>1, <2>2, <3>1 DEF Recv, OnWire, Fits
  <2>3. CASE /\ ~Fits(n) /\ clean' = FALSE /\ losses' = losses + 1
             /\ UNCHANGED <<pc, recv_buffer>>
    <3>1. losses' \in Nat
      BY <2>3
    <3>2. QED BY <1>1, <2>1, <2>3, <3>1 DEF Recv, OnWire
  <2>4. QED BY <1>1, <2>2, <2>3 DEF Recv
<1>2. CASE Closed
  BY <1>2 DEF Closed
<1>3. CASE ParseEnds
  BY <1>3 DEF ParseEnds
<1>4. CASE Skip
  <2>1. recv_buffer' = Behind(recv_buffer, First(recv_buffer, {NL}))
    BY <1>4 DEF Skip
  <2>2. recv_buffer' \in Seq(OnWire) /\ Len(recv_buffer') <= Len(recv_buffer)
    BY <1>4, <2>1, TakenType DEF Skip
  <2>3. QED BY <1>4, <2>2, Constants DEF Skip, OnWire
<1>5. CASE TakeLine
  <2> DEFINE i == First(recv_buffer, {NL})
             l == SubSeq(recv_buffer, 1, i - 1)
  <2>1. /\ recv_buffer' = Behind(recv_buffer, i)
        /\ taken' = Append(taken, l) /\ obeyed' = Counted(obeyed, l)
    BY <1>5 DEF TakeLine
  <2>2. /\ recv_buffer' \in Seq(OnWire) /\ Len(recv_buffer') <= Len(recv_buffer)
        /\ l \in Seq(Byte)
    BY <1>5, <2>1, TakenType DEF TakeLine
  <2> HIDE DEF l, i
  <2>3. taken' \in Seq(Seq(Byte)) /\ obeyed' \in [Command -> Nat]
    <3>1. taken \in Seq(Seq(Byte)) /\ obeyed \in [Command -> Nat]
      OBVIOUS
    <3>2. QED BY ONLY <2>1, <2>2, <3>1, CountedType, Appended
  <2>4. UNCHANGED <<stream, up, sent, asked, losses>> /\ pc' = "parse" /\ clean' = TRUE
    BY <1>5 DEF TakeLine, NextLine
  <2>5. Len(recv_buffer') < Cap
    BY <2>2, Constants
  <2>6. QED BY <2>2, <2>3, <2>4, <2>5 DEF OnWire
<1>6. QED BY <1>1, <1>2, <1>3, <1>4, <1>5 DEF Server

LEMMA NextType == TypeOK /\ [Next]_vars => TypeOK'
<1>1. TypeOK /\ UNCHANGED vars => TypeOK'
  BY DEF TypeOK, vars
<1>2. QED BY <1>1, NetworkType, ServerType DEF Next

\* Every variable keeps its type, and the buffer never overflows: a chunk is
\* appended only when it fits (tcp_server.c:96-98).
THEOREM TypeCorrect == Spec => []TypeOK
  BY InitType, NextType, PTL DEF Spec

-----------------------------------------------------------------------------
(* What is on its way: the unfinished line and the stream behind it        *)

Wire == recv_buffer \o stream

\* v is w with line l and a newline behind it ...
Grown(w, v, l) ==
  /\ Len(v) = Len(w) + (Len(l) + 1)
  /\ \A j \in 1 .. Len(w) : v[j] = w[j]
  /\ \A j \in 1 .. Len(l) : v[Len(w) + j] = l[j]
  /\ v[Len(w) + (Len(l) + 1)] = NL

\* ... or what w begins with ...
Shorter(w, v) == Len(v) <= Len(w) /\ \A j \in 1 .. Len(v) : v[j] = w[j]

\* ... or w without the n bytes behind the first b ...
Holed(w, v, b, n) ==
  /\ b <= Len(v) /\ Len(w) = Len(v) + n
  /\ \A j \in 1 .. b : v[j] = w[j]
  /\ \A j \in b + 1 .. Len(v) : v[j] = w[j + n]

\* ... or without its first i.
Shifted(w, v, i) ==
  /\ Len(w) = Len(v) + i
  /\ \A j \in 1 .. Len(v) : v[j] = w[j + i]

LEMMA GrownIs ==
  ASSUME NEW b \in Seq(OnWire), NEW s \in Seq(OnWire), NEW l \in Seq(OnWire)
  PROVE  Grown(b \o s, b \o ((s \o l) \o <<NL>>), l)
<1>1. NL \in OnWire
  BY DEF OnWire
<1> DEFINE v == b \o ((s \o l) \o <<NL>>)
<1>2. /\ (s \o l) \o <<NL>> \in Seq(OnWire) /\ b \o s \in Seq(OnWire)
      /\ Len((s \o l) \o <<NL>>) = Len(s) + Len(l) + 1 /\ Len(b \o s) = Len(b) + Len(s)
  BY <1>1
<1>3. Len(v) = Len(b \o s) + (Len(l) + 1)
  BY <1>2
<1>4. \A j \in 1 .. Len(b \o s) : v[j] = (b \o s)[j]
  BY <1>1
<1>5. \A j \in 1 .. Len(l) : v[Len(b \o s) + j] = l[j]
  BY <1>1
<1>6. v[Len(b \o s) + (Len(l) + 1)] = NL
  BY <1>1
<1>7. QED BY <1>3, <1>4, <1>5, <1>6 DEF Grown

LEMMA ShorterIs ==
  ASSUME NEW b \in Seq(OnWire), NEW s \in Seq(OnWire), NEW k \in 0 .. Len(s)
  PROVE  Shorter(b \o s, b \o SubSeq(s, 1, k))
  BY DEF Shorter

Joined(s, t) == s \o t

LEMMA Associative ==
  ASSUME NEW D, NEW s \in Seq(D), NEW t \in Seq(D), NEW u \in Seq(D)
  PROVE  Joined(Joined(s, t), u) = Joined(s, Joined(t, u))
  BY ConcatAssociative DEF Joined

LEMMA MovedIs ==
  ASSUME NEW D, NEW b \in Seq(D), NEW s \in Seq(D), NEW n \in 1 .. Len(s)
  PROVE  (b \o SubSeq(s, 1, n)) \o SubSeq(s, n + 1, Len(s)) = b \o s
<1> DEFINE p == SubSeq(s, 1, n)
           q == SubSeq(s, n + 1, Len(s))
<1>1. 1 \in 1 .. Len(s) + 1 /\ n \in 1 - 1 .. Len(s) /\ Len(s) \in n .. Len(s)
  OBVIOUS
<1>2. p \o q = SubSeq(s, 1, Len(s))
  BY <1>1, ConcatAdjacentSubSeq
<1>3. p \o q = s /\ p \in Seq(D) /\ q \in Seq(D)
  BY <1>2, SubSeqFull
<1> HIDE DEF p, q
<1>4. Joined(p, q) = s
  BY <1>3 DEF Joined
<1>5. Joined(Joined(b, p), q) = Joined(b, s)
  BY <1>3, <1>4, Associative
<1>6. QED BY <1>5 DEF Joined, p, q

LEMMA HoledIs ==
  ASSUME NEW b \in Seq(OnWire), NEW s \in Seq(OnWire), NEW n \in 1 .. Len(s)
  PROVE  Holed(b \o s, b \o SubSeq(s, n + 1, Len(s)), Len(b), n)
<1> DEFINE t == SubSeq(s, n + 1, Len(s))
<1>1. /\ t \in Seq(OnWire) /\ Len(t) = Len(s) - n
      /\ \A j \in 1 .. Len(t) : t[j] = s[j + n]
  OBVIOUS
<1>2. Len(b) \in Nat /\ Len(s) \in Nat
  OBVIOUS
<1> HIDE DEF t
<1>3. Len(b) <= Len(b \o t) /\ Len(b \o s) = Len(b \o t) + n
  <2>1. Len(b \o t) = Len(b) + Len(t) /\ Len(b \o s) = Len(b) + Len(s)
    BY <1>1, Concat
  <2>2. QED BY <1>1, <1>2, <2>1
<1>4. \A j \in 1 .. Len(b) : (b \o t)[j] = (b \o s)[j]
  BY <1>1, <1>2
<1>5. \A j \in Len(b) + 1 .. Len(b \o t) : (b \o t)[j] = (b \o s)[j + n]
  BY <1>1, <1>2
<1>6. QED BY <1>3, <1>4, <1>5 DEF Holed, t

LEMMA ShiftedIs ==
  ASSUME NEW b \in Seq(OnWire), NEW s \in Seq(OnWire), NEW i \in 1 .. Len(b)
  PROVE  Shifted(b \o s, Behind(b, i) \o s, i)
<1> DEFINE t == Behind(b, i)
<1>1. /\ t \in Seq(OnWire) /\ Len(t) = Len(b) - i
      /\ \A j \in 1 .. Len(t) : t[j] = b[j + i]
  BY DEF Behind
<1>2. Len(b) \in Nat /\ Len(s) \in Nat
  OBVIOUS
<1> HIDE DEF t
<1>3. Len(b \o s) = Len(t \o s) + i
  <2>1. Len(t \o s) = Len(t) + Len(s) /\ Len(b \o s) = Len(b) + Len(s)
    BY <1>1, Concat
  <2>2. QED BY <1>1, <1>2, <2>1
<1>4. \A j \in 1 .. Len(t \o s) : (t \o s)[j] = (b \o s)[j + i]
  BY <1>1, <1>2
<1>5. QED BY <1>3, <1>4 DEF Shifted, t

LEMMA BytesAre ==
  TypeOK => /\ recv_buffer \in Seq(OnWire) /\ stream \in Seq(OnWire)
            /\ Len(recv_buffer) \in Nat /\ Len(stream) \in Nat
            /\ Wire \in Seq(OnWire) /\ Len(Wire) \in Nat
            /\ Len(Wire) = Len(recv_buffer) + Len(stream)
            /\ \A j \in 1 .. Len(recv_buffer) : Wire[j] = recv_buffer[j]
            /\ \A j \in 1 .. Len(Wire) : Wire[j] \in OnWire
<1>1. ASSUME NEW b \in Seq(OnWire), NEW s \in Seq(OnWire)
      PROVE  /\ Len(b) \in Nat /\ Len(s) \in Nat
             /\ b \o s \in Seq(OnWire) /\ Len(b \o s) \in Nat
             /\ Len(b \o s) = Len(b) + Len(s)
             /\ \A j \in 1 .. Len(b) : (b \o s)[j] = b[j]
             /\ \A j \in 1 .. Len(b \o s) : (b \o s)[j] \in OnWire
  OBVIOUS
<1>2. TypeOK => recv_buffer \in Seq(OnWire) /\ stream \in Seq(OnWire)
  BY DEF TypeOK, OnWire
<1>3. QED BY <1>1, <1>2 DEF Wire

LEMMA WireTypeNext == TypeOK' => Wire' \in Seq(OnWire)
<1>1. ASSUME TypeOK' PROVE Wire' = recv_buffer' \o stream'
  BY DEF Wire
<1>2. ASSUME TypeOK' PROVE recv_buffer' \in Seq(OnWire) /\ stream' \in Seq(OnWire)
  BY <1>2 DEF TypeOK, OnWire
<1>3. QED BY <1>1, <1>2, Concat

\* A line is sent behind everything else.
LEMMA WireGrows ==
  ASSUME TypeOK, NEW l \in Line, SendLine(l) PROVE Grown(Wire, Wire', l)
<1>1. l \in Seq(OnWire)
  BY LineType DEF OnWire
<1>2. Wire' = recv_buffer \o ((stream \o l) \o <<NL>>)
  BY DEF SendLine, Wire
<1>3. QED BY <1>1, <1>2, BytesAre, GrownIs DEF Wire

LEMMA WireShortens == ASSUME TypeOK, Break PROVE Shorter(Wire, Wire')
<1>1. PICK k \in 0 .. Len(stream) : Wire' = recv_buffer \o SubSeq(stream, 1, k)
  BY DEF Break, Wire
<1>2. QED BY <1>1, BytesAre, ShorterIs DEF Wire

\* A chunk that fits moves on; one that does not fit is missing.
Kept(n) ==
  /\ recv_buffer' = recv_buffer \o SubSeq(stream, 1, n)
  /\ pc' = "parse" /\ UNCHANGED <<clean, losses>>
Dropped(n) == clean' = FALSE /\ losses' = losses + 1 /\ UNCHANGED <<pc, recv_buffer>>

LEMMA RecvIs ==
  ASSUME TypeOK, NEW n \in 1 .. MaxChunk, Recv(n)
  PROVE  /\ n \in 1 .. Len(stream)
         /\ Len(stream') = Len(stream) - n
         /\ \/ Kept(n) /\ Wire' = Wire
            \/ Dropped(n) /\ Holed(Wire, Wire', Len(recv_buffer), n)
<1>1. n \in 1 .. Len(stream) /\ stream' = SubSeq(stream, n + 1, Len(stream))
  BY BytesAre, Constants DEF Recv
<1>2. Len(stream') = Len(stream) - n
  BY <1>1, BytesAre
<1>3. CASE Kept(n)
  <2>1. Wire' = (recv_buffer \o SubSeq(stream, 1, n)) \o SubSeq(stream, n + 1, Len(stream))
    BY <1>1, <1>3 DEF Kept, Wire
  <2>2. QED BY <1>1, <1>2, <1>3, <2>1, BytesAre, MovedIs DEF Wire
<1>4. CASE Dropped(n)
  <2>1. Wire' = recv_buffer \o SubSeq(stream, n + 1, Len(stream))
    BY <1>1, <1>4 DEF Dropped, Wire
  <2>2. QED BY <1>1, <1>2, <1>4, <2>1, BytesAre, HoledIs DEF Wire
<1>5. QED BY <1>3, <1>4 DEF Recv, Kept, Dropped

\* The parser cuts the wire behind the first newline, at i.
Cuts(i) ==
  /\ i \in 1 .. Len(recv_buffer) /\ i \in 1 .. Len(Wire)
  /\ Wire[i] = NL /\ \A j \in 1 .. i - 1 : Wire[j] # NL
  /\ Shifted(Wire, Wire', i)

\* Both ways to do so, and the line that the second obeys.
LEMMA SkipIs ==
  ASSUME TypeOK, Skip
  PROVE  \E i \in Nat : Cuts(i) /\ (i = 1 \/ i > LineCap)
<1>1. PICK i \in 1 .. Len(recv_buffer) :
        /\ i = First(recv_buffer, {NL}) /\ recv_buffer[i] = NL
        /\ \A j \in 1 .. i - 1 : recv_buffer[j] # NL
  BY BytesAre, NewlineIs DEF Skip
<1>2. Wire' = Behind(recv_buffer, i) \o stream /\ (i = 1 \/ i > LineCap)
  BY <1>1 DEF Skip, Wire
<1>3. Shifted(Wire, Wire', i)
  BY <1>2, BytesAre, ShiftedIs DEF Wire
<1>4. i \in Nat /\ i \in 1 .. Len(Wire) /\ \A j \in 1 .. i : j \in 1 .. Len(recv_buffer)
  BY BytesAre
<1>5. \A j \in 1 .. i : Wire[j] = recv_buffer[j]
  BY <1>4, BytesAre
<1>6. Wire[i] = NL /\ \A j \in 1 .. i - 1 : Wire[j] # NL
  <2>1. i \in 1 .. i /\ \A j \in 1 .. i - 1 : j \in 1 .. i
    BY <1>4
  <2>2. QED BY <1>1, <1>5, <2>1
<1>7. QED BY <1>2, <1>3, <1>4, <1>6 DEF Cuts

LEMMA TakeIs ==
  ASSUME TypeOK, TakeLine
  PROVE  \E i \in Nat, l \in Seq(Byte) :
           /\ Cuts(i) /\ i <= LineCap
           /\ Len(l) = i - 1 /\ \A j \in 1 .. i - 1 : l[j] = Wire[j]
           /\ taken' = Append(taken, l) /\ obeyed' = Counted(obeyed, l)
<1>1. PICK i \in 1 .. Len(recv_buffer) :
        /\ i = First(recv_buffer, {NL}) /\ recv_buffer[i] = NL
        /\ \A j \in 1 .. i - 1 : recv_buffer[j] # NL
  BY BytesAre, NewlineIs DEF TakeLine
<1>2. PICK l \in Seq(Byte) :
        /\ l = SubSeq(recv_buffer, 1, i - 1)
        /\ Len(l) = i - 1 /\ \A j \in 1 .. i - 1 : l[j] = recv_buffer[j]
  BY <1>1, BytesAre, NewlineIs DEF TakeLine
<1>3. /\ Wire' = Behind(recv_buffer, i) \o stream /\ i <= LineCap
      /\ taken' = Append(taken, l) /\ obeyed' = Counted(obeyed, l)
  BY <1>1, <1>2 DEF TakeLine, Wire
<1>4. Shifted(Wire, Wire', i)
  BY <1>3, BytesAre, ShiftedIs DEF Wire
<1>5. i \in Nat /\ i \in 1 .. Len(Wire) /\ \A j \in 1 .. i : j \in 1 .. Len(recv_buffer)
  BY BytesAre
<1>6. \A j \in 1 .. i : Wire[j] = recv_buffer[j]
  BY <1>5, BytesAre
<1>7. Wire[i] = NL /\ \A j \in 1 .. i - 1 : Wire[j] # NL /\ l[j] = Wire[j]
  <2>1. i \in 1 .. i /\ \A j \in 1 .. i - 1 : j \in 1 .. i
    BY <1>5
  <2>2. QED BY <1>1, <1>2, <1>6, <2>1
<1>8. QED BY <1>2, <1>3, <1>4, <1>5, <1>7 DEF Cuts

-----------------------------------------------------------------------------
(* A loss damages one line                                                 *)

\* What is behind position p of w is a line and its newline, or its beginning.
Fits1(w, p, l) ==
  /\ \A j \in 1 .. Len(l) : p + j <= Len(w) => w[p + j] = l[j]
  /\ p + (Len(l) + 1) <= Len(w) => w[p + (Len(l) + 1)] = NL
StartsLine(w, p) == \E l \in Line : Fits1(w, p, l)

LEMMA FitsAs ==
  ASSUME NEW w \in Seq(OnWire), NEW v \in Seq(OnWire), NEW p \in Nat, NEW q \in Nat,
         NEW l \in Line, Fits1(w, q, l),
         \A k \in 1 .. Len(l) + 1 :
           p + k <= Len(v) => q + k <= Len(w) /\ v[p + k] = w[q + k]
  PROVE  Fits1(v, p, l)
<1>1. Len(l) \in Nat
  BY LineType
<1>2. ASSUME NEW j \in 1 .. Len(l), p + j <= Len(v) PROVE v[p + j] = l[j]
  <2>1. j \in 1 .. Len(l) + 1
    BY <1>1
  <2>2. q + j <= Len(w) /\ v[p + j] = w[q + j]
    BY <1>2, <2>1
  <2>3. QED BY <2>2 DEF Fits1
<1>3. ASSUME p + (Len(l) + 1) <= Len(v) PROVE v[p + (Len(l) + 1)] = NL
  <2>1. Len(l) + 1 \in 1 .. Len(l) + 1
    BY <1>1
  <2>2. q + (Len(l) + 1) <= Len(w) /\ v[p + (Len(l) + 1)] = w[q + (Len(l) + 1)]
    BY <1>3, <2>1
  <2>3. QED BY <2>2 DEF Fits1
<1>4. QED BY <1>2, <1>3 DEF Fits1

LEMMA FitsShorter ==
  ASSUME NEW w \in Seq(OnWire), NEW v \in Seq(OnWire), Shorter(w, v),
         NEW p \in Nat, NEW l \in Line, Fits1(w, p, l)
  PROVE  Fits1(v, p, l)
<1>1. Len(l) \in Nat /\ Len(w) \in Nat /\ Len(v) \in Nat
  BY LineType
<1>2. ASSUME NEW k \in 1 .. Len(l) + 1, p + k <= Len(v)
      PROVE  p + k <= Len(w) /\ v[p + k] = w[p + k]
  BY <1>1, <1>2 DEF Shorter
<1>3. QED BY <1>2, FitsAs

LEMMA FitsGrown ==
  ASSUME NEW w \in Seq(OnWire), NEW v \in Seq(OnWire), NEW m \in Line, Grown(w, v, m),
         NEW p \in Nat, NEW l \in Line, Fits1(w, p, l), p + (Len(l) + 1) <= Len(w)
  PROVE  Fits1(v, p, l)
<1>1. Len(l) \in Nat /\ Len(w) \in Nat
  BY LineType
<1>2. ASSUME NEW k \in 1 .. Len(l) + 1
      PROVE  p + k <= Len(w) /\ v[p + k] = w[p + k]
  <2>1. p + k \in 1 .. Len(w)
    BY <1>1
  <2>2. QED BY <2>1 DEF Grown
<1>3. QED BY <1>2, FitsAs

LEMMA FitsNew ==
  ASSUME NEW w \in Seq(OnWire), NEW v \in Seq(OnWire), NEW l \in Line, Grown(w, v, l)
  PROVE  Fits1(v, Len(w), l)
<1>1. Len(l) \in Nat /\ Len(w) \in Nat /\ Len(v) \in Nat
  BY LineType
<1>2. QED BY <1>1 DEF Fits1, Grown

LEMMA FitsMoved ==
  ASSUME NEW w \in Seq(OnWire), NEW v \in Seq(OnWire), NEW p \in Nat, NEW n \in Nat,
         Len(w) = Len(v) + n, \A j \in p + 1 .. Len(v) : v[j] = w[j + n],
         NEW l \in Line, Fits1(w, p + n, l)
  PROVE  Fits1(v, p, l)
<1>1. Len(l) \in Nat /\ Len(w) \in Nat /\ Len(v) \in Nat
  BY LineType
<1>2. PICK q \in Nat : q = p + n
  OBVIOUS
<1>3. ASSUME NEW k \in 1 .. Len(l) + 1, p + k <= Len(v)
      PROVE  q + k <= Len(w) /\ v[p + k] = w[q + k]
  <2>1. p + k \in p + 1 .. Len(v) /\ (p + k) + n = q + k
    BY <1>1, <1>2, <1>3
  <2>2. v[p + k] = w[(p + k) + n]
    BY <2>1
  <2>3. QED BY <1>1, <1>2, <1>3, <2>1, <2>2
<1>4. QED BY <1>2, <1>3, FitsAs

\* A line stays where it begins, whatever happens to the wire behind it.
LEMMA StartsShorter ==
  ASSUME NEW w \in Seq(OnWire), NEW v \in Seq(OnWire), Shorter(w, v),
         NEW p \in Nat, StartsLine(w, p)
  PROVE  StartsLine(v, p)
  BY FitsShorter DEF StartsLine

LEMMA StartsGrown ==
  ASSUME NEW w \in Seq(OnWire), NEW v \in Seq(OnWire), NEW m \in Line, Grown(w, v, m),
         NEW p \in Nat, p < Len(w), StartsLine(w, p), w[Len(w)] = NL
  PROVE  StartsLine(v, p)
<1>1. PICK l \in Line : Fits1(w, p, l)
  BY DEF StartsLine
<1>2. /\ Len(l) \in Nat /\ Len(w) \in Nat /\ \A j \in 1 .. Len(l) : l[j] # NL
  BY LineType
<1>3. p + (Len(l) + 1) <= Len(w)
  <2> SUFFICES ASSUME Len(w) < p + (Len(l) + 1) PROVE FALSE
    BY <1>2
  <2>1. PICK j \in 1 .. Len(l) : p + j = Len(w)
    <3>1. Len(w) - p \in 1 .. Len(l) /\ p + (Len(w) - p) = Len(w)
      BY <1>2
    <3>2. QED BY <3>1
  <2>2. w[p + j] = l[j]
    BY <1>1, <1>2, <2>1 DEF Fits1
  <2>3. QED BY <1>2, <2>1, <2>2
<1>4. Fits1(v, p, l)
  BY <1>1, <1>3, FitsGrown
<1>5. QED BY <1>4 DEF StartsLine

LEMMA StartsNew ==
  ASSUME NEW w \in Seq(OnWire), NEW v \in Seq(OnWire), NEW l \in Line, Grown(w, v, l)
  PROVE  /\ StartsLine(v, Len(w))
         /\ \A p \in Len(w) + 1 .. Len(v) - 1 : v[p] # NL
<1>1. /\ Len(l) \in Nat /\ Len(w) \in Nat /\ Len(v) \in Nat
      /\ \A j \in 1 .. Len(l) : l[j] # NL
  BY LineType
<1>2. ASSUME NEW p \in Len(w) + 1 .. Len(v) - 1 PROVE v[p] # NL
  <2>1. PICK j \in 1 .. Len(l) : p = Len(w) + j
    <3>1. p - Len(w) \in 1 .. Len(l) /\ p = Len(w) + (p - Len(w))
      BY <1>1 DEF Grown
    <3>2. QED BY <3>1
  <2>2. QED BY <1>1, <2>1 DEF Grown
<1>3. Fits1(v, Len(w), l)
  BY FitsNew
<1>4. QED BY <1>2, <1>3 DEF StartsLine

LEMMA StartsMoved ==
  ASSUME NEW w \in Seq(OnWire), NEW v \in Seq(OnWire), NEW p \in Nat, NEW n \in Nat,
         Len(w) = Len(v) + n, \A j \in p + 1 .. Len(v) : v[j] = w[j + n],
         StartsLine(w, p + n)
  PROVE  StartsLine(v, p)
<1>1. PICK l \in Line : Fits1(w, p + n, l)
  BY DEF StartsLine
<1>2. Fits1(v, p, l)
  BY <1>1, FitsMoved
<1>3. QED BY <1>2 DEF StartsLine

\* What is in front of the first newline is the line.
LEMMA StartTaken ==
  ASSUME NEW w \in Seq(OnWire), NEW i \in 1 .. Len(w), w[i] = NL,
         \A j \in 1 .. i - 1 : w[j] # NL, NEW l \in Line, Fits1(w, 0, l)
  PROVE  Len(l) = i - 1 /\ \A j \in 1 .. Len(l) : w[j] = l[j]
<1>1. Len(l) \in Nat /\ Len(w) \in Nat /\ \A j \in 1 .. Len(l) : l[j] # NL
  BY LineType
<1>2. ASSUME NEW j \in 1 .. Len(l), j <= Len(w) PROVE w[j] = l[j]
  <2>1. 0 + j = j
    OBVIOUS
  <2>2. QED BY <1>2, <2>1 DEF Fits1
<1>3. Len(l) + 1 <= Len(w) => w[Len(l) + 1] = NL
  <2>1. 0 + (Len(l) + 1) = Len(l) + 1
    BY <1>1
  <2>2. QED BY <2>1 DEF Fits1
<1>4. ~(i <= Len(l))
  BY <1>1, <1>2
<1>5. ~(Len(l) + 1 < i)
  <2> SUFFICES ASSUME Len(l) + 1 < i PROVE FALSE
    OBVIOUS
  <2>1. Len(l) + 1 \in 1 .. i - 1 /\ Len(l) + 1 <= Len(w)
    BY <1>1
  <2>2. QED BY <1>3, <2>1
<1>6. QED BY <1>1, <1>2, <1>4, <1>5

\* A line begins behind position p: at the front, or behind a newline.
Begins(p) == (p = 0 /\ clean) \/ (p > 0 /\ Wire[p] = NL)

Searched == pc # "parse" => \A j \in 1 .. Len(recv_buffer) : recv_buffer[j] # NL
Idle == pc = "accept" => ~up /\ stream = <<>> /\ (clean => recv_buffer = <<>>)
Ends ==
  up => \/ Len(Wire) = 0 \/ Wire[Len(Wire)] = NL
        \/ stream = <<>> /\ ~clean /\ pc # "parse"
Starts == \A p \in 0 .. Len(Wire) - 1 : Begins(p) => StartsLine(Wire, p)

ResyncInv == Searched /\ Idle /\ Ends /\ Starts

LEMMA InitResync == Init => ResyncInv
<1> SUFFICES ASSUME Init PROVE ResyncInv
  OBVIOUS
<1>1. recv_buffer = <<>> /\ stream = <<>> /\ Wire = <<>>
  BY DEF Init, Wire
<1>2. Len(Wire) = 0 /\ Len(recv_buffer) = 0
  BY <1>1
<1>3. up = FALSE /\ pc = "accept"
  BY DEF Init
<1>4. QED BY <1>1, <1>2, <1>3 DEF ResyncInv, Searched, Idle, Ends, Starts

LEMMA ResyncConnect ==
  ASSUME TypeOK, ResyncInv, Connect PROVE ResyncInv'
<1>1. UNCHANGED <<stream, recv_buffer, clean>> /\ pc = "accept" /\ pc' = "recv"
  BY DEF Connect
<1>2. Wire' = Wire
  BY <1>1 DEF Wire
<1>3. Searched'
  BY <1>1 DEF ResyncInv, Searched
<1>4. Ends'
  <2>1. stream = <<>> /\ (clean => recv_buffer = <<>>)
    BY <1>1 DEF ResyncInv, Idle
  <2>2. CASE clean
    <3>1. Len(Wire) = 0
      BY <2>1, <2>2 DEF Wire
    <3>2. QED BY <1>2, <3>1 DEF Ends
  <2>3. CASE ~clean
    BY <1>1, <2>1, <2>3 DEF Ends
  <2>4. QED BY <2>2, <2>3
<1>5. Starts'
  BY <1>1, <1>2 DEF ResyncInv, Starts, Begins
<1>6. QED BY <1>1, <1>3, <1>4, <1>5 DEF ResyncInv, Idle

LEMMA ResyncSend ==
  ASSUME TypeOK, TypeOK', ResyncInv, NEW l \in Line, SendLine(l) PROVE ResyncInv'
<1>1. up /\ UNCHANGED <<up, pc, recv_buffer, clean>> /\ pc # "accept"
  BY DEF SendLine, ResyncInv, Idle
<1>2. Grown(Wire, Wire', l) /\ Wire \in Seq(OnWire) /\ Wire' \in Seq(OnWire)
  BY WireGrows, BytesAre, WireTypeNext
<1>3. Len(l) \in Nat /\ Len(Wire) \in Nat /\ Len(Wire') = Len(Wire) + (Len(l) + 1)
  BY <1>2, LineType DEF Grown
<1>4. Ends'
  BY <1>2, <1>3 DEF Ends, Grown
<1>5. ASSUME NEW p \in 0 .. Len(Wire') - 1, Begins(p)' PROVE StartsLine(Wire', p)
  <2>1. CASE p = Len(Wire)
    BY <1>2, <2>1, StartsNew
  <2>2. CASE p > Len(Wire)
    <3>1. p \in Len(Wire) + 1 .. Len(Wire') - 1 /\ p > 0
      BY <1>3, <2>2
    <3>2. (Wire')[p] # NL
      BY <1>2, <3>1, StartsNew
    <3>3. QED BY <1>5, <3>1, <3>2 DEF Begins
  <2>3. CASE p < Len(Wire)
    <3>1. p \in Nat /\ p \in 0 .. Len(Wire) - 1 /\ (p > 0 => p \in 1 .. Len(Wire))
      BY <1>3, <2>3
    <3>2. Begins(p)
      BY <1>1, <1>2, <1>5, <3>1 DEF Begins, Grown
    <3>3. StartsLine(Wire, p)
      BY <3>1, <3>2 DEF ResyncInv, Starts
    <3>4. Wire[Len(Wire)] = NL
      <4>1. ASSUME stream = <<>>, ~clean, pc # "parse" PROVE FALSE
        <5>1. p > 0 /\ Wire[p] = NL
          BY <3>2, <4>1 DEF Begins
        <5>2. Len(Wire) = Len(recv_buffer) /\ p \in 1 .. Len(recv_buffer)
          BY <3>1, <4>1, <5>1, BytesAre
        <5>3. recv_buffer[p] = NL
          BY <5>1, <5>2, BytesAre
        <5>4. QED BY <4>1, <5>2, <5>3 DEF ResyncInv, Searched
      <4>2. Len(Wire) # 0
        BY <1>3, <2>3
      <4>3. QED BY <1>1, <4>1, <4>2 DEF ResyncInv, Ends
    <3>5. QED BY <1>2, <2>3, <3>1, <3>3, <3>4, StartsGrown
  <2>4. QED BY <1>3, <2>1, <2>2, <2>3
<1>6. Searched' /\ Idle'
  BY <1>1 DEF ResyncInv, Searched, Idle
<1>7. QED BY <1>4, <1>5, <1>6 DEF ResyncInv, Starts

LEMMA ResyncBreak ==
  ASSUME TypeOK, TypeOK', ResyncInv, Break PROVE ResyncInv'
<1>1. up /\ up' = FALSE /\ UNCHANGED <<pc, recv_buffer, clean>> /\ pc # "accept"
  BY DEF Break, ResyncInv, Idle
<1>2. Shorter(Wire, Wire') /\ Wire \in Seq(OnWire) /\ Wire' \in Seq(OnWire)
  BY WireShortens, BytesAre, WireTypeNext
<1>3. Len(Wire) \in Nat /\ Len(Wire') \in Nat /\ Len(Wire') <= Len(Wire)
  BY <1>2 DEF Shorter
<1>4. ASSUME NEW p \in 0 .. Len(Wire') - 1, Begins(p)' PROVE StartsLine(Wire', p)
  <2>1. p \in Nat /\ p \in 0 .. Len(Wire) - 1 /\ (p > 0 => p \in 1 .. Len(Wire'))
    BY <1>3
  <2>2. Begins(p)
    BY <1>1, <1>2, <1>4, <2>1 DEF Begins, Shorter
  <2>3. QED BY <1>2, <2>1, <2>2, StartsShorter DEF ResyncInv, Starts
<1>5. Searched' /\ Idle' /\ Ends'
  BY <1>1 DEF ResyncInv, Searched, Idle, Ends
<1>6. QED BY <1>4, <1>5 DEF ResyncInv, Starts

LEMMA ResyncRecv ==
  ASSUME TypeOK, TypeOK', ResyncInv, NEW n \in 1 .. MaxChunk, Recv(n) PROVE ResyncInv'
<1>1. pc = "recv" /\ UNCHANGED up
  BY DEF Recv
<1>2. /\ n \in 1 .. Len(stream) /\ Len(stream) \in Nat /\ stream # <<>>
      /\ Len(stream') = Len(stream) - n
  BY RecvIs, BytesAre
<1>3. CASE Kept(n) /\ Wire' = Wire
  <2>1. pc' = "parse" /\ UNCHANGED clean /\ Wire' = Wire
    BY <1>3 DEF Kept
  <2>2. Ends'
    BY <1>1, <1>2, <2>1 DEF ResyncInv, Ends
  <2>3. Starts'
    BY <2>1 DEF ResyncInv, Starts, Begins
  <2>4. Searched' /\ Idle'
    BY <2>1 DEF Searched, Idle
  <2>5. QED BY <2>2, <2>3, <2>4 DEF ResyncInv
<1>4. CASE Dropped(n) /\ Holed(Wire, Wire', Len(recv_buffer), n)
  <2>1. ~clean' /\ UNCHANGED <<pc, recv_buffer>> /\ n \in Nat
    BY <1>4 DEF Dropped
  <2>2. /\ Wire \in Seq(OnWire) /\ Wire' \in Seq(OnWire) /\ Len(recv_buffer) \in Nat
        /\ Len(Wire) \in Nat /\ Len(Wire') \in Nat /\ Len(Wire) = Len(Wire') + n
        /\ Len(Wire) = Len(recv_buffer) + Len(stream)
    BY <1>4, BytesAre, WireTypeNext DEF Holed
  <2>3. Searched' /\ Idle'
    BY <1>1, <2>1 DEF ResyncInv, Searched, Idle
  <2>4. Ends'
    <3>1. CASE Len(stream') = 0
      <4>1. stream' = <<>>
        <5>1. stream' \in Seq(OnWire)
          BY DEF TypeOK, OnWire
        <5>2. QED BY <3>1, <5>1
      <4>2. QED BY <1>1, <2>1, <4>1 DEF Ends
    <3>2. CASE Len(stream') # 0
      <4>1. /\ Len(Wire') \in Len(recv_buffer) + 1 .. Len(Wire')
            /\ Len(Wire') + n = Len(Wire) /\ Len(Wire) # 0
        BY <1>2, <2>2, <3>2
      <4>2. (Wire')[Len(Wire')] = Wire[Len(Wire)]
        <5>1. (Wire')[Len(Wire')] = Wire[Len(Wire') + n]
          BY <1>4, <4>1 DEF Holed
        <5>2. QED BY <4>1, <5>1
      <4>3. QED BY <1>1, <1>2, <4>1, <4>2 DEF ResyncInv, Ends
    <3>3. QED BY <3>1, <3>2
  <2>5. ASSUME NEW p \in 0 .. Len(Wire') - 1, Begins(p)' PROVE StartsLine(Wire', p)
    <3>1. p > 0 /\ (Wire')[p] = NL
      BY <2>1, <2>5 DEF Begins
    <3>2. /\ p \in Nat /\ p \in 1 .. Len(Wire')
          /\ p + n \in 0 .. Len(Wire) - 1 /\ p + n \in Nat
      BY <2>1, <2>2, <3>1
    <3>3. p > Len(recv_buffer)
      <4> SUFFICES ASSUME p <= Len(recv_buffer) PROVE FALSE
        BY <2>2, <3>2
      <4>1. p \in 1 .. Len(recv_buffer)
        BY <2>2, <3>2
      <4>2. (Wire')[p] = Wire[p] /\ Wire[p] = recv_buffer[p]
        BY <1>4, <4>1, BytesAre DEF Holed
      <4>3. QED BY <1>1, <3>1, <4>1, <4>2 DEF ResyncInv, Searched
    <3>4. (Wire')[p] = Wire[p + n]
      <4>1. p \in Len(recv_buffer) + 1 .. Len(Wire')
        BY <2>2, <3>2, <3>3
      <4>2. QED BY <1>4, <4>1 DEF Holed
    <3>5. StartsLine(Wire, p + n)
      <4>1. Begins(p + n)
        BY <2>1, <3>1, <3>2, <3>4 DEF Begins
      <4>2. QED BY <3>2, <4>1 DEF ResyncInv, Starts
    <3>6. \A j \in p + 1 .. Len(Wire') : (Wire')[j] = Wire[j + n]
      <4> TAKE j \in p + 1 .. Len(Wire')
      <4>1. j \in Len(recv_buffer) + 1 .. Len(Wire')
        BY <2>2, <3>2, <3>3
      <4>2. QED BY <1>4, <4>1 DEF Holed
    <3>7. QED BY <2>1, <2>2, <3>2, <3>5, <3>6, StartsMoved
  <2>6. QED BY <2>3, <2>4, <2>5 DEF ResyncInv, Starts
<1>5. QED BY <1>3, <1>4, RecvIs

LEMMA ResyncCut ==
  ASSUME TypeOK, TypeOK', ResyncInv, NEW i \in Nat, Cuts(i),
         pc = "parse", pc' = "parse", clean' = TRUE, UNCHANGED <<stream, up>>
  PROVE  ResyncInv'
<1>1. /\ Wire \in Seq(OnWire) /\ Wire' \in Seq(OnWire)
      /\ Len(Wire) \in Nat /\ Len(Wire') \in Nat
      /\ i \in 1 .. Len(Wire) /\ Wire[i] = NL /\ Len(Wire) = Len(Wire') + i
      /\ \A j \in 1 .. Len(Wire') : (Wire')[j] = Wire[j + i]
  BY BytesAre, WireTypeNext DEF Cuts, Shifted
<1>2. Searched' /\ Idle'
  BY DEF Searched, Idle
<1>3. Ends'
  <2>1. up => Wire[Len(Wire)] = NL
    BY <1>1 DEF ResyncInv, Ends
  <2>2. Len(Wire') # 0 => (Wire')[Len(Wire')] = Wire[Len(Wire)]
    BY <1>1
  <2>3. QED BY <2>1, <2>2 DEF Ends
<1>4. ASSUME NEW p \in 0 .. Len(Wire') - 1, Begins(p)' PROVE StartsLine(Wire', p)
  <2>1. /\ p \in Nat /\ p + i \in Nat /\ p + i > 0 /\ p + i \in 0 .. Len(Wire) - 1
        /\ (p > 0 => p \in 1 .. Len(Wire'))
    BY <1>1
  <2>2. Wire[p + i] = NL
    <3>1. CASE p = 0
      BY <1>1, <3>1
    <3>2. CASE p > 0
      BY <1>1, <1>4, <2>1, <3>2 DEF Begins
    <3>3. QED BY <2>1, <3>1, <3>2
  <2>3. StartsLine(Wire, p + i)
    BY <2>1, <2>2 DEF ResyncInv, Starts, Begins
  <2>4. \A j \in p + 1 .. Len(Wire') : (Wire')[j] = Wire[j + i]
    BY <1>1, <2>1
  <2>5. QED BY <1>1, <2>1, <2>3, <2>4, StartsMoved
<1>5. QED BY <1>2, <1>3, <1>4 DEF ResyncInv, Starts

\* What the server and the pedals' task do without a byte moving.
LEMMA ResyncStill ==
  ASSUME TypeOK, ResyncInv,
         Closed \/ ParseEnds \/ UNCHANGED vars
  PROVE  ResyncInv'
<1>1. CASE Closed
  <2>1. /\ UNCHANGED <<stream, recv_buffer, up>> /\ pc = "recv" /\ pc' = "accept"
        /\ ~up /\ stream = <<>> /\ clean' = (clean /\ recv_buffer = <<>>)
    BY <1>1 DEF Closed
  <2>2. Wire' = Wire /\ (clean' => clean)
    BY <2>1 DEF Wire
  <2>3. Searched' /\ Idle' /\ Ends'
    BY <2>1 DEF ResyncInv, Searched, Idle, Ends
  <2>4. Starts'
    BY <2>2 DEF ResyncInv, Starts, Begins
  <2>5. QED BY <2>3, <2>4 DEF ResyncInv
<1>2. CASE ParseEnds
  <2>1. /\ UNCHANGED <<stream, recv_buffer, up, clean>> /\ pc = "parse" /\ pc' = "recv"
        /\ ~Has(recv_buffer, {NL})
    BY <1>2 DEF ParseEnds
  <2>2. Wire' = Wire
    BY <2>1 DEF Wire
  <2>3. Searched'
    BY <2>1, BytesAre DEF Searched, Has
  <2>4. Idle' /\ Ends' /\ Starts'
    BY <2>1, <2>2 DEF ResyncInv, Idle, Ends, Starts, Begins
  <2>5. QED BY <2>3, <2>4 DEF ResyncInv
<1>3. CASE UNCHANGED vars
  <2>1. UNCHANGED <<stream, recv_buffer, up, clean, pc>>
    BY <1>3 DEF vars
  <2>2. Wire' = Wire
    BY <2>1 DEF Wire
  <2>3. QED BY <2>1, <2>2 DEF ResyncInv, Searched, Idle, Ends, Starts, Begins
<1>4. QED BY <1>1, <1>2, <1>3

LEMMA NextResync ==
  ASSUME TypeOK, TypeOK', ResyncInv, [Next]_vars PROVE ResyncInv'
<1>1. CASE Skip
  BY <1>1, SkipIs, ResyncCut DEF Skip
<1>2. CASE TakeLine
  BY <1>2, TakeIs, ResyncCut DEF TakeLine, NextLine
<1>3. QED
  BY <1>1, <1>2, ResyncConnect, ResyncSend, ResyncBreak, ResyncRecv, ResyncStill
     DEF Next, Server

LEMMA ResyncInvariance == Spec => []ResyncInv
  BY InitResync, NextResync, TypeCorrect, PTL DEF Spec

\* A loss damages one line: the next is taken as it was sent, on the same
\* connection or the next, however the stream is cut (tcp_server.c:87, 96, 102).
THEOREM ResyncAfterLoss == Spec => Resync
<1>1. TypeOK /\ ResyncInv /\ [Next]_vars =>
        [taken' # taken /\ clean => taken'[Len(taken')] \in Line]_vars
  <2> SUFFICES ASSUME TypeOK, ResyncInv, Next, taken' # taken, clean
               PROVE  taken'[Len(taken')] \in Line
    OBVIOUS
  <2>1. TakeLine
    BY DEF Next, Server, Connect, Break, Recv, ParseEnds, Skip, Closed,
       SendLine
  <2>2. PICK i \in Nat, l \in Seq(Byte) :
          /\ Cuts(i) /\ Len(l) = i - 1 /\ \A j \in 1 .. i - 1 : l[j] = Wire[j]
          /\ taken' = Append(taken, l)
    BY <2>1, TakeIs
  <2>3. /\ Wire \in Seq(OnWire) /\ i \in 1 .. Len(Wire) /\ Wire[i] = NL
        /\ \A j \in 1 .. i - 1 : Wire[j] # NL
    BY <2>2, BytesAre DEF Cuts
  <2>4. 0 \in 0 .. Len(Wire) - 1 /\ Begins(0)
    BY <2>3 DEF Begins
  <2>5. PICK m \in Line : Fits1(Wire, 0, m)
    BY <2>4 DEF ResyncInv, Starts, StartsLine
  <2>6. Len(m) = i - 1 /\ \A j \in 1 .. Len(m) : Wire[j] = m[j]
    BY <2>3, <2>5, StartTaken
  <2>7. l = m
    <3>1. m \in Seq(Byte) /\ Len(l) = Len(m) /\ \A j \in 1 .. Len(l) : l[j] = m[j]
      BY <2>2, <2>6, LineType
    <3>2. QED BY <3>1, SameSeq
  <2>8. taken'[Len(taken')] = l
    <3>1. taken \in Seq(Seq(Byte))
      BY DEF TypeOK
    <3>2. QED BY ONLY <2>2, <3>1
  <2>9. QED BY <2>5, <2>7, <2>8
<1>2. QED
  BY <1>1, ResyncInvariance, TypeCorrect, PTL DEF Spec, Resync

-----------------------------------------------------------------------------
(* Nothing is obeyed more often than it was sent                           *)

\* Positions of w that hold command c, a newline between any two of them: so
\* many lines at least hold c.
Apart(w, c, T) ==
  /\ T \subseteq 1 .. Len(w) /\ \A p \in T : w[p] = c
  /\ \A p, q \in T : p < q => \E r \in p .. q : w[r] = NL

\* What was obeyed and what is still on its way was asked for.
AskedFor(c) ==
  \A T \in SUBSET (1 .. Len(Wire)) :
    Apart(Wire, c, T) => obeyed[c] + Cardinality(T) <= asked[c]
AskInv == \A c \in Command : AskedFor(c)

LEMMA FiniteApart ==
  ASSUME NEW w \in Seq(OnWire), NEW T \in SUBSET (1 .. Len(w))
  PROVE  IsFiniteSet(T) /\ Cardinality(T) \in Nat
<1>1. Len(w) \in Int /\ 1 \in Int
  OBVIOUS
<1>2. IsFiniteSet(1 .. Len(w))
  BY ONLY <1>1, FS_Interval
<1>3. IsFiniteSet(T)
  BY ONLY <1>2, FS_Subset
<1>4. QED BY ONLY <1>3, FS_CardinalityType

Image(f, T) == {f[p] : p \in T}

\* The same positions, wherever the bytes have moved to.
LEMMA ApartMoved ==
  ASSUME NEW w \in Seq(OnWire), NEW v \in Seq(OnWire), NEW c, NEW T, Apart(v, c, T),
         NEW f \in [1 .. Len(v) -> 1 .. Len(w)],
         \A p \in 1 .. Len(v) : w[f[p]] = v[p],
         \A p, q \in 1 .. Len(v) : p < q => f[p] < f[q]
  PROVE  Apart(w, c, Image(f, T)) /\ Cardinality(Image(f, T)) = Cardinality(T)
<1> DEFINE U == {f[p] : p \in T}
           g == [p \in T |-> f[p]]
<1>1. T \in SUBSET (1 .. Len(v)) /\ Len(v) \in Nat /\ Len(w) \in Nat
  BY DEF Apart
<1>2. \A p, q \in T : f[p] = f[q] => p = q
  <2> SUFFICES ASSUME NEW p \in T, NEW q \in T, f[p] = f[q] PROVE p = q
    OBVIOUS
  <2>1. /\ p \in 1 .. Len(v) /\ q \in 1 .. Len(v)
        /\ f[p] \in 1 .. Len(w) /\ f[q] \in 1 .. Len(w)
    BY <1>1
  <2>2. ~(p < q) /\ ~(q < p)
    BY <2>1
  <2>3. QED BY <2>1, <2>2
<1>3. g \in Bijection(T, U)
  <2>1. g \in [T -> U] /\ \A a, b \in T : g[a] = g[b] => a = b
    BY <1>2
  <2>2. \A u \in U : \E p \in T : g[p] = u
    OBVIOUS
  <2>3. QED BY ONLY <2>1, <2>2, Fun_IsBij
<1>4. Cardinality(U) = Cardinality(T)
  <2>1. IsFiniteSet(T)
    BY ONLY <1>1, FiniteApart
  <2>2. ExistsBijection(T, U)
    BY <1>3, Fun_ExistsBij
  <2>3. QED BY ONLY <2>1, <2>2, FS_Bijection
<1>5. U \subseteq 1 .. Len(w) /\ \A u \in U : w[u] = c
  <2> SUFFICES ASSUME NEW p \in T PROVE f[p] \in 1 .. Len(w) /\ w[f[p]] = c
    OBVIOUS
  <2>1. p \in 1 .. Len(v) /\ v[p] = c
    BY DEF Apart
  <2>2. QED BY <2>1
<1>6. ASSUME NEW x \in U, NEW y \in U, x < y PROVE \E r \in x .. y : w[r] = NL
  <2>1. PICK p \in T, q \in T : x = f[p] /\ y = f[q]
    OBVIOUS
  <2>2. /\ p \in 1 .. Len(v) /\ q \in 1 .. Len(v)
        /\ f[p] \in 1 .. Len(w) /\ f[q] \in 1 .. Len(w)
    BY <1>1
  <2>3. p < q
    <3>1. ~(q < p) /\ p # q
      BY <1>6, <2>1, <2>2
    <3>2. QED BY <2>2, <3>1
  <2>4. PICK r \in p .. q : v[r] = NL
    BY <2>3 DEF Apart
  <2>5. r \in 1 .. Len(v) /\ f[r] \in 1 .. Len(w)
    BY <2>2
  <2>6. f[p] <= f[r] /\ f[r] <= f[q]
    BY <2>2, <2>5
  <2>7. QED BY <2>1, <2>2, <2>4, <2>5, <2>6
<1>7. QED BY <1>4, <1>5, <1>6 DEF Apart, Image

LEMMA ApartShorter ==
  ASSUME NEW w \in Seq(OnWire), NEW v \in Seq(OnWire), Shorter(w, v),
         NEW c, NEW T, Apart(v, c, T)
  PROVE  Apart(w, c, T)
<1>1. Len(v) \in Nat /\ Len(w) \in Nat /\ Len(v) <= Len(w)
      /\ \A j \in 1 .. Len(v) : v[j] = w[j]
  BY DEF Shorter
<1>2. T \subseteq 1 .. Len(v) /\ T \subseteq 1 .. Len(w)
  BY <1>1 DEF Apart
<1>3. ASSUME NEW p \in T, NEW q \in T, p < q PROVE \E r \in p .. q : w[r] = NL
  <2>1. PICK r \in p .. q : v[r] = NL
    BY <1>3 DEF Apart
  <2>2. r \in 1 .. Len(v)
    BY <1>1, <1>2
  <2>3. QED BY <1>1, <2>1, <2>2
<1>4. QED BY <1>1, <1>2, <1>3 DEF Apart

LEMMA ApartHoled ==
  ASSUME NEW w \in Seq(OnWire), NEW v \in Seq(OnWire), NEW b \in Nat, NEW n \in Nat,
         Holed(w, v, b, n), NEW c, NEW T, Apart(v, c, T)
  PROVE  \E U \in SUBSET (1 .. Len(w)) : Apart(w, c, U) /\ Cardinality(U) = Cardinality(T)
<1> DEFINE f == [p \in 1 .. Len(v) |-> IF p <= b THEN p ELSE p + n]
<1>0. w \in Seq(OnWire) /\ v \in Seq(OnWire) /\ Apart(v, c, T)
  OBVIOUS
<1>1. Len(v) \in Nat /\ Len(w) = Len(v) + n
  BY DEF Holed
<1>2. f \in [1 .. Len(v) -> 1 .. Len(w)]
  BY <1>1
<1>3. \A p \in 1 .. Len(v) : w[f[p]] = v[p]
  <2> TAKE p \in 1 .. Len(v)
  <2>1. CASE p <= b
    BY <1>1, <2>1 DEF Holed
  <2>2. CASE ~(p <= b)
    <3>1. p \in b + 1 .. Len(v)
      BY <1>1, <2>2
    <3>2. QED BY <2>2, <3>1 DEF Holed
  <2>3. QED BY <2>1, <2>2
<1>4. \A p, q \in 1 .. Len(v) : p < q => f[p] < f[q]
  BY <1>1
<1> HIDE DEF f
<1>5. Apart(w, c, Image(f, T)) /\ Cardinality(Image(f, T)) = Cardinality(T)
  BY ONLY <1>0, <1>2, <1>3, <1>4, ApartMoved
<1>6. Image(f, T) \in SUBSET (1 .. Len(w))
  BY <1>5 DEF Apart
<1>7. QED BY <1>5, <1>6

\* A line is cut from the front, and the command at a that it holds, if any.
LEMMA ApartShifted ==
  ASSUME NEW w \in Seq(OnWire), NEW v \in Seq(OnWire), NEW i \in 1 .. Len(w),
         Shifted(w, v, i), w[i] = NL, NEW c, NEW T, Apart(v, c, T)
  PROVE  /\ \E U \in SUBSET (1 .. Len(w)) :
              Apart(w, c, U) /\ Cardinality(U) = Cardinality(T)
         /\ \A a \in 1 .. i - 1 : w[a] = c =>
              \E U \in SUBSET (1 .. Len(w)) :
                Apart(w, c, U) /\ Cardinality(U) = Cardinality(T) + 1
<1> DEFINE f == [p \in 1 .. Len(v) |-> p + i]
           U == Image(f, T)
<1>0. w \in Seq(OnWire) /\ v \in Seq(OnWire) /\ Apart(v, c, T)
  OBVIOUS
<1>1. Len(v) \in Nat /\ Len(w) = Len(v) + i /\ i \in Nat
  BY DEF Shifted
<1>2. /\ f \in [1 .. Len(v) -> 1 .. Len(w)] /\ \A p \in 1 .. Len(v) : w[f[p]] = v[p]
      /\ \A p, q \in 1 .. Len(v) : p < q => f[p] < f[q]
      /\ \A p \in 1 .. Len(v) : f[p] > i
  BY <1>1 DEF Shifted
<1>3. T \subseteq 1 .. Len(v)
  BY DEF Apart
<1> HIDE DEF f
<1>4. Apart(w, c, U) /\ Cardinality(U) = Cardinality(T)
  BY ONLY <1>0, <1>2, ApartMoved
<1>5. U \in SUBSET (1 .. Len(w)) /\ \A u \in U : u > i
  BY <1>2, <1>3 DEF Image
<1>6. ASSUME NEW a \in 1 .. i - 1, w[a] = c
      PROVE  \E X \in SUBSET (1 .. Len(w)) :
               Apart(w, c, X) /\ Cardinality(X) = Cardinality(T) + 1
  <2> HIDE DEF U
  <2>1. a \notin U /\ a \in 1 .. Len(w) /\ a < i
    BY <1>1, <1>5
  <2>2. IsFiniteSet(U)
    BY ONLY <1>5, FiniteApart
  <2>3. Cardinality(U \cup {a}) = Cardinality(T) + 1
    BY ONLY <1>4, <2>1, <2>2, FS_AddElement
  <2>4. ASSUME NEW p \in U \cup {a}, NEW q \in U \cup {a}, p < q
        PROVE  \E r \in p .. q : w[r] = NL
    <3>1. CASE p \in U
      <4>1. q \in U
        <5>1. p > i /\ p \in 1 .. Len(w)
          BY <1>5, <3>1
        <5>2. q # a
          BY <1>1, <2>1, <2>4, <5>1
        <5>3. QED BY <5>2
      <4>2. QED BY <1>4, <2>4, <3>1, <4>1 DEF Apart
    <3>2. CASE p = a
      <4>1. q \in U /\ q > i /\ q \in 1 .. Len(w)
        <5>1. q # a
          BY <2>1, <2>4, <3>2
        <5>2. QED BY <1>5, <5>1
      <4>2. i \in p .. q
        BY <1>1, <2>1, <3>2, <4>1
      <4>3. QED BY <4>2
    <3>3. QED BY <3>1, <3>2
  <2>5. \A p \in U \cup {a} : p \in 1 .. Len(w) /\ w[p] = c
    BY <1>4, <1>6, <2>1 DEF Apart
  <2>6. Apart(w, c, U \cup {a}) /\ U \cup {a} \in SUBSET (1 .. Len(w))
    BY <2>4, <2>5 DEF Apart
  <2>7. QED BY <2>3, <2>6
<1>7. QED BY <1>4, <1>5, <1>6

\* A line that is sent adds one position at most, and none without the command.
LEMMA ApartGrown ==
  ASSUME NEW w \in Seq(OnWire), NEW v \in Seq(OnWire), NEW l \in Line, Grown(w, v, l),
         NEW c \in Command, NEW T, Apart(v, c, T)
  PROVE  \E U \in SUBSET (1 .. Len(w)) :
           /\ Apart(w, c, U)
           /\ Cardinality(T) <= Cardinality(U) + (IF Has(l, {c}) THEN 1 ELSE 0)
<1> DEFINE U == T \cap (1 .. Len(w))
<1>1. /\ Len(l) \in Nat /\ Len(w) \in Nat /\ Len(v) \in Nat
      /\ Len(v) = Len(w) + (Len(l) + 1) /\ DOMAIN l = 1 .. Len(l)
      /\ \A j \in 1 .. Len(l) : l[j] # NL
  BY LineType DEF Grown
<1>2. T \subseteq 1 .. Len(v) /\ U \in SUBSET (1 .. Len(w)) /\ c # NL
  BY LineType DEF Apart, Byte
<1>3. Apart(w, c, U)
  <2>1. \A p \in U : p \in 1 .. Len(w) /\ w[p] = v[p] /\ v[p] = c
    BY DEF Apart, Grown
  <2>2. ASSUME NEW p \in U, NEW q \in U, p < q PROVE \E r \in p .. q : w[r] = NL
    <3>1. PICK r \in p .. q : v[r] = NL
      BY <2>2 DEF Apart
    <3>2. r \in 1 .. Len(w)
      BY <1>1, <2>1
    <3>3. QED BY <3>1, <3>2 DEF Grown
  <2>3. QED BY <1>2, <2>1, <2>2 DEF Apart
<1>4. ASSUME NEW p \in T, p \notin U
      PROVE  \E j \in 1 .. Len(l) : p = Len(w) + j /\ l[j] = c
  <2>1. p \in 1 .. Len(v) /\ ~(p <= Len(w)) /\ v[p] = c
    BY <1>1, <1>2, <1>4 DEF Apart
  <2>2. PICK j \in Nat : j = p - Len(w)
    <3>1. p - Len(w) \in Nat
      BY <1>1, <2>1
    <3>2. QED BY <3>1
  <2>3. j \in 1 .. Len(l) + 1 /\ p = Len(w) + j
    BY <1>1, <2>1, <2>2
  <2>4. j # Len(l) + 1
    BY <1>1, <1>2, <2>1, <2>3 DEF Grown
  <2>5. j \in 1 .. Len(l)
    BY <1>1, <2>3, <2>4
  <2>6. QED BY <2>1, <2>3, <2>5 DEF Grown
<1>5. ASSUME NEW p \in T, NEW q \in T, p \notin U, q \notin U, p < q PROVE FALSE
  <2>1. PICK r \in p .. q : v[r] = NL
    BY <1>5 DEF Apart
  <2>2. PICK j \in 1 .. Len(l) : p = Len(w) + j
    BY <1>4, <1>5
  <2>3. PICK k \in 1 .. Len(l) : q = Len(w) + k
    BY <1>4, <1>5
  <2>4. PICK h \in 1 .. Len(l) : r = Len(w) + h
    <3>1. r - Len(w) \in 1 .. Len(l) /\ r = Len(w) + (r - Len(w))
      BY <1>1, <2>2, <2>3
    <3>2. QED BY <3>1
  <2>5. QED BY <1>1, <2>1, <2>4 DEF Grown
<1>6. IsFiniteSet(U) /\ Cardinality(U) \in Nat
  BY ONLY <1>2, FiniteApart
<1> HIDE DEF U
<1>7. CASE T \subseteq U
  <2>1. Cardinality(T) <= Cardinality(U) /\ IsFiniteSet(T)
    BY ONLY <1>6, <1>7, FS_Subset
  <2>2. Cardinality(T) \in Nat
    BY ONLY <2>1, FS_CardinalityType
  <2>3. Cardinality(T) <= Cardinality(U) + (IF Has(l, {c}) THEN 1 ELSE 0)
    BY <1>6, <2>1, <2>2
  <2>4. QED BY <1>2, <1>3, <2>3
<1>8. CASE ~(T \subseteq U)
  <2>1. PICK x \in T : x \notin U
    BY <1>8
  <2>2. PICK j \in 1 .. Len(l) : l[j] = c
    BY <1>4, <2>1
  <2>3. Has(l, {c})
    BY <1>1, <2>2 DEF Has
  <2>4. T \subseteq U \cup {x}
    <3> SUFFICES ASSUME NEW p \in T, p \notin U, p # x PROVE FALSE
      OBVIOUS
    <3>1. p \in 1 .. Len(v) /\ x \in 1 .. Len(v)
      BY <1>2
    <3>2. p < x \/ x < p
      BY <3>1
    <3>3. QED BY <1>5, <2>1, <3>2
  <2>5. IsFiniteSet(U \cup {x}) /\ Cardinality(U \cup {x}) = Cardinality(U) + 1
    BY ONLY <1>6, <2>1, FS_AddElement
  <2>6. Cardinality(T) <= Cardinality(U) + 1
    BY ONLY <2>4, <2>5, FS_Subset
  <2>7. QED BY <1>2, <1>3, <2>3, <2>6
<1>9. QED BY <1>7, <1>8

LEMMA CountedIs ==
  ASSUME NEW n \in [Command -> Nat], NEW l, NEW c \in Command
  PROVE  Counted(n, l)[c] = n[c] + (IF Has(l, {c}) THEN 1 ELSE 0)
<1>1. n[c] \in Nat
  OBVIOUS
<1>2. Counted(n, l)[c] = IF Has(l, {c}) THEN n[c] + 1 ELSE n[c]
  BY DEF Counted
<1>3. CASE Has(l, {c})
  BY <1>2, <1>3
<1>4. CASE ~Has(l, {c})
  BY <1>1, <1>2, <1>4
<1>5. QED BY <1>3, <1>4

LEMMA InitAsk == Init => AskInv
<1> SUFFICES ASSUME Init, NEW c \in Command PROVE AskedFor(c)
  BY DEF AskInv
<1>1. Len(Wire) = 0
  BY DEF Init, Wire
<1>2. obeyed[c] = 0 /\ asked[c] = 0
  BY DEF Init
<1>3. \A T \in SUBSET (1 .. Len(Wire)) : Cardinality(T) = 0
  <2>1. 1 .. Len(Wire) = {}
    BY <1>1
  <2>2. QED BY ONLY <2>1, FS_EmptySet
<1>4. QED BY <1>2, <1>3 DEF AskedFor

\* What a step has to show: a position for everything still to be obeyed.
LEMMA AskedStill ==
  ASSUME TypeOK, TypeOK', NEW c \in Command, AskedFor(c),
         \A T \in SUBSET (1 .. Len(Wire')) : Apart(Wire', c, T) =>
           \E U \in SUBSET (1 .. Len(Wire)) :
             /\ Apart(Wire, c, U)
             /\ Cardinality(T) + (obeyed'[c] - obeyed[c])
                  <= Cardinality(U) + (asked'[c] - asked[c])
  PROVE  AskedFor(c)'
<1>1. /\ asked[c] \in Nat /\ obeyed[c] \in Nat /\ asked'[c] \in Nat /\ obeyed'[c] \in Nat
      /\ Wire \in Seq(OnWire) /\ Wire' \in Seq(OnWire)
  BY BytesAre, WireTypeNext DEF TypeOK
<1>2. ASSUME NEW T \in SUBSET (1 .. Len(Wire')), Apart(Wire', c, T)
      PROVE  obeyed'[c] + Cardinality(T) <= asked'[c]
  <2>1. PICK U \in SUBSET (1 .. Len(Wire)) :
          /\ Apart(Wire, c, U)
          /\ Cardinality(T) + (obeyed'[c] - obeyed[c])
               <= Cardinality(U) + (asked'[c] - asked[c])
    BY <1>2
  <2>2. Cardinality(T) \in Nat /\ Cardinality(U) \in Nat
    BY ONLY <1>1, FiniteApart
  <2>3. obeyed[c] + Cardinality(U) <= asked[c]
    BY <2>1 DEF AskedFor
  <2>4. QED BY ONLY <1>1, <2>1, <2>2, <2>3
<1>3. QED BY <1>2 DEF AskedFor

\* Steps that leave the counts alone.
LEMMA AskedSame ==
  ASSUME TypeOK, TypeOK', NEW c \in Command, AskedFor(c), UNCHANGED <<asked, obeyed>>,
         \A T \in SUBSET (1 .. Len(Wire')) : Apart(Wire', c, T) =>
           \E U \in SUBSET (1 .. Len(Wire)) :
             Apart(Wire, c, U) /\ Cardinality(U) = Cardinality(T)
  PROVE  AskedFor(c)'
<1>1. asked[c] \in Nat /\ obeyed[c] \in Nat /\ Wire' \in Seq(OnWire)
  BY WireTypeNext DEF TypeOK
<1>2. \A T \in SUBSET (1 .. Len(Wire')) : Cardinality(T) \in Nat
  BY ONLY <1>1, FiniteApart
<1>3. asked'[c] - asked[c] = 0 /\ obeyed'[c] - obeyed[c] = 0
  BY <1>1
<1>4. \A T \in SUBSET (1 .. Len(Wire')) : Apart(Wire', c, T) =>
        \E U \in SUBSET (1 .. Len(Wire)) :
          /\ Apart(Wire, c, U)
          /\ Cardinality(T) + (obeyed'[c] - obeyed[c])
               <= Cardinality(U) + (asked'[c] - asked[c])
  BY <1>2, <1>3
<1>5. QED BY <1>4, AskedStill

LEMMA AskedSend ==
  ASSUME TypeOK, TypeOK', NEW c \in Command, AskedFor(c), NEW l \in Line, SendLine(l)
  PROVE  AskedFor(c)'
<1>1. Grown(Wire, Wire', l) /\ Wire \in Seq(OnWire) /\ Wire' \in Seq(OnWire)
  BY WireGrows, BytesAre, WireTypeNext
<1> DEFINE k == IF Has(l, {c}) THEN 1 ELSE 0
<1>2. asked[c] \in Nat /\ obeyed[c] \in Nat /\ k \in Nat
  BY DEF TypeOK
<1>3. asked'[c] = asked[c] + k /\ obeyed'[c] = obeyed[c]
  <2>1. asked \in [Command -> Nat] /\ asked' = Counted(asked, l) /\ obeyed' = obeyed
    BY DEF SendLine, TypeOK
  <2>2. QED BY <2>1, CountedIs
<1>4. ASSUME NEW T \in SUBSET (1 .. Len(Wire')), Apart(Wire', c, T)
      PROVE  \E U \in SUBSET (1 .. Len(Wire)) :
               Apart(Wire, c, U) /\ Cardinality(T) <= Cardinality(U) + k
  BY <1>1, <1>4, ApartGrown
<1> HIDE DEF k
<1>5. \A T \in SUBSET (1 .. Len(Wire')) : Cardinality(T) \in Nat
  BY ONLY <1>1, FiniteApart
<1>6. asked'[c] - asked[c] = k /\ obeyed'[c] - obeyed[c] = 0
  BY <1>2, <1>3
<1>7. \A T \in SUBSET (1 .. Len(Wire')) : Apart(Wire', c, T) =>
        \E U \in SUBSET (1 .. Len(Wire)) :
          /\ Apart(Wire, c, U)
          /\ Cardinality(T) + (obeyed'[c] - obeyed[c])
               <= Cardinality(U) + (asked'[c] - asked[c])
  BY <1>4, <1>5, <1>6
<1>8. QED BY <1>7, AskedStill

LEMMA AskedBreak ==
  ASSUME TypeOK, TypeOK', NEW c \in Command, AskedFor(c), Break
  PROVE  AskedFor(c)'
<1>1. Shorter(Wire, Wire') /\ Wire \in Seq(OnWire) /\ Wire' \in Seq(OnWire)
  BY WireShortens, BytesAre, WireTypeNext
<1>2. ASSUME NEW T \in SUBSET (1 .. Len(Wire')), Apart(Wire', c, T)
      PROVE  \E U \in SUBSET (1 .. Len(Wire)) :
               Apart(Wire, c, U) /\ Cardinality(U) = Cardinality(T)
  <2>1. Apart(Wire, c, T)
    BY <1>1, <1>2, ApartShorter
  <2>2. QED BY <2>1 DEF Apart
<1>3. UNCHANGED <<asked, obeyed>>
  BY DEF Break
<1>4. QED BY <1>2, <1>3, AskedSame

LEMMA AskedRecv ==
  ASSUME TypeOK, TypeOK', NEW c \in Command, AskedFor(c), NEW n \in 1 .. MaxChunk, Recv(n)
  PROVE  AskedFor(c)'
<1>1. Wire \in Seq(OnWire) /\ Wire' \in Seq(OnWire) /\ Len(recv_buffer) \in Nat /\ n \in Nat
  BY BytesAre, WireTypeNext
<1>2. UNCHANGED <<asked, obeyed>>
  BY DEF Recv
<1>3. CASE Wire' = Wire
  BY <1>2, <1>3 DEF AskedFor
<1>4. CASE Holed(Wire, Wire', Len(recv_buffer), n)
  <2>1. ASSUME NEW T \in SUBSET (1 .. Len(Wire')), Apart(Wire', c, T)
        PROVE  \E U \in SUBSET (1 .. Len(Wire)) :
                 Apart(Wire, c, U) /\ Cardinality(U) = Cardinality(T)
    BY <1>1, <1>4, <2>1, ApartHoled
  <2>2. QED BY <1>2, <2>1, AskedSame
<1>5. QED BY <1>3, <1>4, RecvIs

LEMMA AskedSkip ==
  ASSUME TypeOK, TypeOK', NEW c \in Command, AskedFor(c), Skip
  PROVE  AskedFor(c)'
<1>1. PICK i \in Nat : Cuts(i)
  BY SkipIs
<1>2. /\ Wire \in Seq(OnWire) /\ Wire' \in Seq(OnWire)
      /\ i \in 1 .. Len(Wire) /\ Wire[i] = NL /\ Shifted(Wire, Wire', i)
  BY <1>1, BytesAre, WireTypeNext DEF Cuts
<1>3. ASSUME NEW T \in SUBSET (1 .. Len(Wire')), Apart(Wire', c, T)
      PROVE  \E U \in SUBSET (1 .. Len(Wire)) :
               Apart(Wire, c, U) /\ Cardinality(U) = Cardinality(T)
  BY <1>2, <1>3, ApartShifted
<1>4. UNCHANGED <<asked, obeyed>>
  BY DEF Skip
<1>5. QED BY <1>3, <1>4, AskedSame

LEMMA AskedTake ==
  ASSUME TypeOK, TypeOK', NEW c \in Command, AskedFor(c), TakeLine
  PROVE  AskedFor(c)'
<1>1. PICK i \in Nat, l \in Seq(Byte) :
        /\ Cuts(i) /\ Len(l) = i - 1 /\ \A j \in 1 .. i - 1 : l[j] = Wire[j]
        /\ obeyed' = Counted(obeyed, l)
  BY TakeIs
<1>2. /\ Wire \in Seq(OnWire) /\ Wire' \in Seq(OnWire)
      /\ i \in 1 .. Len(Wire) /\ Wire[i] = NL /\ Shifted(Wire, Wire', i)
  BY <1>1, BytesAre, WireTypeNext DEF Cuts
<1> DEFINE k == IF Has(l, {c}) THEN 1 ELSE 0
<1>3. asked[c] \in Nat /\ obeyed[c] \in Nat /\ k \in Nat
  BY DEF TypeOK
<1>4. obeyed'[c] = obeyed[c] + k /\ asked'[c] = asked[c]
  <2>1. obeyed \in [Command -> Nat] /\ asked' = asked
    BY DEF TakeLine, TypeOK
  <2>2. QED BY <1>1, <2>1, CountedIs
<1>5. ASSUME NEW T \in SUBSET (1 .. Len(Wire')), Apart(Wire', c, T)
      PROVE  \E U \in SUBSET (1 .. Len(Wire)) :
               Apart(Wire, c, U) /\ Cardinality(U) = Cardinality(T) + k
  <2>1. CASE Has(l, {c})
    <3>1. PICK a \in 1 .. i - 1 : Wire[a] = c
      BY <1>1, <2>1 DEF Has
    <3>2. QED BY <1>2, <1>5, <2>1, <3>1, ApartShifted
  <2>2. CASE ~Has(l, {c})
    <3>1. Cardinality(T) \in Nat
      BY ONLY <1>2, FiniteApart
    <3>2. QED BY <1>2, <1>5, <2>2, <3>1, ApartShifted
  <2>3. QED BY <2>1, <2>2
<1> HIDE DEF k
<1>6. \A T \in SUBSET (1 .. Len(Wire')) : Cardinality(T) \in Nat
  BY ONLY <1>2, FiniteApart
<1>7. obeyed'[c] - obeyed[c] = k /\ asked'[c] - asked[c] = 0
  BY <1>3, <1>4
<1>8. ASSUME NEW T \in SUBSET (1 .. Len(Wire')), Apart(Wire', c, T)
      PROVE  \E U \in SUBSET (1 .. Len(Wire)) :
               /\ Apart(Wire, c, U)
               /\ Cardinality(T) + (obeyed'[c] - obeyed[c])
                    <= Cardinality(U) + (asked'[c] - asked[c])
  BY <1>3, <1>5, <1>6, <1>7, <1>8
<1>9. QED BY <1>8, AskedStill

LEMMA NextAsk == ASSUME TypeOK, TypeOK', AskInv, [Next]_vars PROVE AskInv'
<1> SUFFICES ASSUME NEW c \in Command PROVE AskedFor(c)'
  BY DEF AskInv
<1>1. AskedFor(c)
  BY DEF AskInv
<1>2. CASE Connect \/ ParseEnds \/ Closed \/ UNCHANGED vars
  <2>1. UNCHANGED <<stream, recv_buffer, asked, obeyed>>
    BY <1>2 DEF Connect, ParseEnds, Closed, vars
  <2>2. QED BY <1>1, <2>1 DEF AskedFor, Wire
<1>3. QED
  BY <1>1, <1>2, AskedSend, AskedBreak, AskedRecv, AskedSkip, AskedTake DEF Next, Server

LEMMA AskInvariance == Spec => []AskInv
  BY InitAsk, NextAsk, TypeCorrect, PTL DEF Spec

\* However lines are cut, dropped and glued together, no command is obeyed
\* more often than it was sent (tcp_server.c:87-119, 156-173).
THEOREM ObeyedOnlyIfAsked == Spec => []ObeyedAtMostAsked
<1>1. ASSUME TypeOK, AskInv, NEW c \in Command PROVE obeyed[c] <= asked[c]
  <2>1. Apart(Wire, c, {}) /\ {} \in SUBSET (1 .. Len(Wire)) /\ Cardinality({}) = 0
    BY FS_EmptySet DEF Apart
  <2>2. obeyed[c] + 0 <= asked[c]
    BY <1>1, <2>1 DEF AskInv, AskedFor
  <2>3. obeyed[c] \in Nat
    BY <1>1 DEF TypeOK
  <2>4. QED BY <2>2, <2>3
<1>2. TypeOK /\ AskInv => ObeyedAtMostAsked
  BY <1>1 DEF ObeyedAtMostAsked
<1>3. QED BY <1>2, TypeCorrect, AskInvariance, PTL

-----------------------------------------------------------------------------
(* Without a loss the lines are taken in order                             *)

\* No line is so long that Skip would take it: tcp_server.c:105.
LinesAreShort == \A l \in Line : Len(l) < LineCap

\* Line t + k of s ends at e[k] of w.
Marks(e, w, t, s) ==
  /\ e \in [0 .. Len(s) - t -> Nat] /\ e[0] = 0
  /\ \A k \in 1 .. Len(s) - t :
       e[k] = e[k - 1] + (Len(s[t + k]) + 1) /\ Fits1(w, e[k - 1], s[t + k])
  /\ \A j, k \in 0 .. Len(s) - t : j <= k => e[j] <= e[k]

Pending(e) ==
  /\ Marks(e, Wire, Len(taken), sent)
  /\ Len(Wire) <= e[Len(sent) - Len(taken)]
  /\ up \/ pc = "accept" => Len(Wire) = e[Len(sent) - Len(taken)]

OrderInv ==
  losses = 0 =>
    /\ Len(taken) <= Len(sent)
    /\ \A j \in 1 .. Len(taken) : taken[j] = sent[j]
    /\ \E e : Pending(e)

LEMMA InitOrder == Init => OrderInv
<1> SUFFICES ASSUME Init PROVE OrderInv
  OBVIOUS
<1> DEFINE e == [k \in 0 .. 0 |-> 0]
<1>1. Len(Wire) = 0 /\ Len(taken) = 0 /\ Len(sent) = 0
  BY DEF Init, Wire
<1>2. e \in [0 .. 0 -> Nat] /\ e[0] = 0 /\ Len(sent) - Len(taken) = 0
  BY <1>1
<1>3. \A k \in 0 .. 0 : k = 0
  OBVIOUS
<1> HIDE DEF e
<1>4. Marks(e, Wire, Len(taken), sent)
  BY <1>2, <1>3 DEF Marks
<1>5. Pending(e)
  BY <1>1, <1>2, <1>4 DEF Pending
<1>6. QED BY <1>1, <1>5 DEF OrderInv

\* The type of what is sent and taken.
LEMMA HistoryIs ==
  TypeOK => /\ sent \in Seq(Line) /\ taken \in Seq(Seq(Byte)) /\ losses \in Nat
            /\ Len(sent) \in Nat /\ Len(taken) \in Nat
            /\ \A j \in 1 .. Len(sent) : sent[j] \in Line
  BY DEF TypeOK

LEMMA OrderSend ==
  ASSUME TypeOK, TypeOK', OrderInv, NEW l \in Line, SendLine(l) PROVE OrderInv'
<1> SUFFICES ASSUME losses = 0 PROVE OrderInv'
  BY DEF OrderInv, SendLine
<1>1. Grown(Wire, Wire', l) /\ Wire \in Seq(OnWire) /\ Wire' \in Seq(OnWire)
  BY WireGrows, BytesAre, WireTypeNext
<1>2. up /\ sent' = Append(sent, l) /\ UNCHANGED <<up, taken, pc>>
  BY DEF SendLine
<1>3. PICK e : Pending(e)
  BY DEF OrderInv
<1> DEFINE t == Len(taken)
           m == Len(sent) - t
<1>4. /\ t \in Nat /\ Len(sent) \in Nat /\ m \in Nat /\ t + m = Len(sent)
      /\ sent \in Seq(Line) /\ taken \in Seq(Seq(Byte))
      /\ \A j \in 1 .. Len(sent) : sent[j] \in Line
  BY HistoryIs DEF OrderInv
<1>5. /\ Len(sent') = Len(sent) + 1 /\ \A j \in 1 .. Len(sent) : sent'[j] = sent[j]
      /\ sent'[Len(sent) + 1] = l /\ Len(sent') - t = m + 1
  BY <1>2, <1>4
<1>6. /\ e \in [0 .. m -> Nat] /\ e[0] = 0 /\ Len(Wire) = e[m] /\ e[m] \in Nat
      /\ \A k \in 1 .. m :
           e[k] = e[k - 1] + (Len(sent[t + k]) + 1) /\ Fits1(Wire, e[k - 1], sent[t + k])
      /\ \A j, k \in 0 .. m : j <= k => e[j] <= e[k]
  BY <1>2, <1>3, <1>4 DEF Pending, Marks
<1> HIDE DEF m, t
<1>20. PICK f : f = [k \in 0 .. m + 1 |-> IF k <= m THEN e[k] ELSE e[m] + (Len(l) + 1)]
  OBVIOUS
<1>7. /\ f \in [0 .. m + 1 -> Nat] /\ f[m + 1] = e[m] + (Len(l) + 1)
      /\ \A k \in 0 .. m : f[k] = e[k]
  <2>1. Len(l) \in Nat
    BY LineType
  <2>2. QED BY <1>4, <1>6, <1>20, <2>1
<1>8. f[0] = 0 /\ Len(Wire') = f[m + 1]
  BY <1>1, <1>4, <1>6, <1>7 DEF Grown
<1>9. ASSUME NEW k \in 1 .. m + 1
      PROVE  /\ f[k] = f[k - 1] + (Len(sent'[t + k]) + 1)
             /\ Fits1(Wire', f[k - 1], sent'[t + k])
  <2>1. CASE k = m + 1
    <3>0. t \in Nat /\ m \in Nat /\ t + m = Len(sent)
      BY <1>4
    <3>1. k - 1 = m /\ m \in 0 .. m /\ t + k = Len(sent) + 1
      BY ONLY <2>1, <3>0
    <3>2. f[k - 1] = Len(Wire) /\ sent'[t + k] = l /\ f[k - 1] = e[m]
      BY <1>5, <1>6, <1>7, <3>1
    <3>3. QED BY <1>1, <1>7, <2>1, <3>2, FitsNew
  <2>2. CASE k # m + 1
    <3>1. /\ k \in 1 .. m /\ k - 1 \in 0 .. m /\ k \in 0 .. m /\ m \in 0 .. m
          /\ t + k \in 1 .. Len(sent) /\ k <= m
      BY <1>4, <2>2
    <3>2. /\ f[k] = e[k] /\ f[k - 1] = e[k - 1] /\ sent'[t + k] = sent[t + k]
          /\ sent[t + k] \in Line
      BY <1>4, <1>5, <1>7, <3>1
    <3>3. /\ e[k] = e[k - 1] + (Len(sent[t + k]) + 1) /\ Fits1(Wire, e[k - 1], sent[t + k])
          /\ e[k] <= Len(Wire) /\ e[k - 1] \in Nat
      BY <1>6, <3>1
    <3>4. e[k - 1] + (Len(sent[t + k]) + 1) <= Len(Wire)
      BY <3>3
    <3>5. Fits1(Wire', e[k - 1], sent[t + k])
      BY <1>1, <3>2, <3>3, <3>4, FitsGrown
    <3>6. QED BY <3>2, <3>3, <3>5
  <2>3. QED BY <2>1, <2>2
<1>10. ASSUME NEW j \in 0 .. m + 1, NEW k \in 0 .. m + 1, j <= k PROVE f[j] <= f[k]
  <2>1. Len(l) \in Nat /\ m \in 0 .. m
    BY <1>4, LineType
  <2>2. CASE k = m + 1
    <3>1. CASE j = m + 1
      BY <1>7, <2>2, <3>1
    <3>2. CASE j # m + 1
      <4>1. j \in 0 .. m /\ j <= m
        BY <1>4, <3>2
      <4>2. e[j] <= e[m] /\ e[j] \in Nat /\ f[j] = e[j]
        BY <1>6, <1>7, <2>1, <4>1
      <4>3. QED BY <1>6, <1>7, <2>1, <2>2, <4>2
    <3>3. QED BY <3>1, <3>2
  <2>3. CASE k # m + 1
    <3>1. j \in 0 .. m /\ k \in 0 .. m
      BY <1>4, <1>10, <2>3
    <3>2. QED BY <1>6, <1>7, <1>10, <3>1
  <2>4. QED BY <2>2, <2>3
<1>11. Marks(f, Wire', t, sent')
  BY <1>5, <1>7, <1>8, <1>9, <1>10 DEF Marks
<1>12. Len(taken') = t /\ Len(sent') - Len(taken') = m + 1
  BY <1>2, <1>5 DEF t
<1>13. Pending(f)'
  <2>1. Len(Wire') \in Nat
    BY <1>1
  <2>2. Marks(f, Wire', Len(taken'), sent')
    BY <1>11, <1>12
  <2>3. Len(Wire') = f[Len(sent') - Len(taken')]
    BY <1>8, <1>12
  <2>4. QED BY <2>1, <2>2, <2>3 DEF Pending
<1>14. Len(taken') <= Len(sent') /\ \A j \in 1 .. Len(taken') : taken'[j] = sent'[j]
  <2>1. Len(taken) <= Len(sent) /\ \A j \in 1 .. Len(taken) : taken[j] = sent[j]
    BY DEF OrderInv
  <2>2. t = Len(taken)
    BY DEF t
  <2>3. \A j \in 1 .. t : j \in 1 .. Len(sent)
    BY <1>4, <2>1, <2>2
  <2>4. Len(taken') <= Len(sent')
    BY <1>2, <1>4, <1>5, <2>1
  <2>5. ASSUME NEW j \in 1 .. Len(taken') PROVE taken'[j] = sent'[j]
    BY <1>2, <1>5, <2>1, <2>2, <2>3, <2>5
  <2>6. QED BY <2>4, <2>5
<1>15. QED BY <1>13, <1>14 DEF OrderInv

LEMMA OrderBreak ==
  ASSUME TypeOK, TypeOK', OrderInv, ResyncInv, Break PROVE OrderInv'
<1> SUFFICES ASSUME losses = 0 PROVE OrderInv'
  BY DEF OrderInv, Break
<1>1. Shorter(Wire, Wire') /\ Wire \in Seq(OnWire) /\ Wire' \in Seq(OnWire)
  BY WireShortens, BytesAre, WireTypeNext
<1>2. ~up' /\ pc' # "accept" /\ UNCHANGED <<sent, taken>>
  BY DEF Break, ResyncInv, Idle
<1>3. PICK e : Pending(e)
  BY DEF OrderInv
<1>4. /\ Len(taken) <= Len(sent) /\ Len(taken) \in Nat /\ Len(sent) \in Nat
      /\ \A k \in 1 .. Len(sent) - Len(taken) : sent[Len(taken) + k] \in Line
  <2>1. Len(taken) <= Len(sent)
    BY DEF OrderInv
  <2>2. QED BY <2>1, HistoryIs
<1>5. \A k \in 1 .. Len(sent) - Len(taken) : e[k - 1] \in Nat
  <2>1. e \in [0 .. Len(sent) - Len(taken) -> Nat]
    BY <1>3 DEF Pending, Marks
  <2>2. \A k \in 1 .. Len(sent) - Len(taken) : k - 1 \in 0 .. Len(sent) - Len(taken)
    BY <1>4
  <2>3. QED BY <2>1, <2>2
<1>6. Marks(e, Wire', Len(taken), sent)
  <2>1. \A k \in 1 .. Len(sent) - Len(taken) :
          Fits1(Wire, e[k - 1], sent[Len(taken) + k]) =>
            Fits1(Wire', e[k - 1], sent[Len(taken) + k])
    BY <1>1, <1>4, <1>5, FitsShorter
  <2>2. QED BY <1>3, <2>1 DEF Pending, Marks
<1>7. Len(Wire') <= e[Len(sent) - Len(taken)]
  <2>1. e[Len(sent) - Len(taken)] \in Nat
    <3>1. Len(sent) - Len(taken) \in 0 .. Len(sent) - Len(taken)
      BY <1>4
    <3>2. QED BY <1>3, <3>1 DEF Pending, Marks
  <2>2. Len(Wire) \in Nat /\ Len(Wire') \in Nat /\ Len(Wire') <= Len(Wire)
    BY <1>1 DEF Shorter
  <2>3. QED BY <1>3, <2>1, <2>2 DEF Pending
<1>8. Pending(e)'
  BY <1>2, <1>6, <1>7 DEF Pending
<1>9. QED BY <1>2, <1>8 DEF OrderInv

\* The line in front is the one that is due, and it is obeyed.
LEMMA FrontIsDue ==
  ASSUME TypeOK, NEW e, Pending(e), NEW i \in Nat, Cuts(i), Len(taken) <= Len(sent)
  PROVE  /\ Len(taken) + 1 \in 1 .. Len(sent)
         /\ Len(sent[Len(taken) + 1]) = i - 1
         /\ \A j \in 1 .. i - 1 : Wire[j] = sent[Len(taken) + 1][j]
         /\ e[1] = i
<1> DEFINE t == Len(taken)
           m == Len(sent) - t
<1>1. /\ t \in Nat /\ Len(sent) \in Nat /\ m \in Nat
      /\ \A j \in 1 .. Len(sent) : sent[j] \in Line
  BY HistoryIs
<1>2. /\ Wire \in Seq(OnWire) /\ i \in 1 .. Len(Wire) /\ Wire[i] = NL
      /\ \A j \in 1 .. i - 1 : Wire[j] # NL
  BY BytesAre DEF Cuts
<1>3. /\ e \in [0 .. m -> Nat] /\ e[0] = 0 /\ Len(Wire) <= e[m]
      /\ \A k \in 1 .. m :
           e[k] = e[k - 1] + (Len(sent[t + k]) + 1) /\ Fits1(Wire, e[k - 1], sent[t + k])
  BY DEF Pending, Marks
<1> HIDE DEF m
<1>4. m # 0
  <2>1. Len(Wire) \in Nat /\ Len(Wire) > 0
    BY <1>2
  <2>2. QED BY <1>3, <2>1
<1>5. 1 \in 1 .. m /\ t + 1 \in 1 .. Len(sent) /\ 1 - 1 = 0
  BY <1>1, <1>4 DEF m
<1>6. /\ e[1] = 0 + (Len(sent[t + 1]) + 1) /\ Fits1(Wire, 0, sent[t + 1])
      /\ sent[t + 1] \in Line
  BY <1>1, <1>3, <1>5
<1>7. /\ Len(sent[t + 1]) = i - 1
      /\ \A j \in 1 .. Len(sent[t + 1]) : Wire[j] = sent[t + 1][j]
  BY <1>2, <1>6, StartTaken
<1>8. e[1] = i
  <2>1. e[1] = 0 + ((i - 1) + 1)
    BY <1>6, <1>7
  <2>2. QED BY ONLY <1>2, <2>1
<1>9. \A j \in 1 .. i - 1 : Wire[j] = sent[t + 1][j]
  BY <1>7
<1>10. QED BY <1>5, <1>7, <1>8, <1>9

LEMMA Cancel ==
  ASSUME NEW a \in Nat, NEW b \in Nat, NEW n \in Nat, NEW i \in Nat,
         a + i = (b + i) + (n + 1)
  PROVE  a = b + (n + 1)
  OBVIOUS

LEMMA OrderTake ==
  ASSUME TypeOK, TypeOK', OrderInv, TakeLine PROVE OrderInv'
<1> SUFFICES ASSUME losses = 0 PROVE OrderInv'
  BY DEF OrderInv, TakeLine
<1>1. PICK i \in Nat, l \in Seq(Byte) :
        /\ Cuts(i) /\ Len(l) = i - 1 /\ \A j \in 1 .. i - 1 : l[j] = Wire[j]
        /\ taken' = Append(taken, l)
  BY TakeIs
<1>2. /\ Wire \in Seq(OnWire) /\ Wire' \in Seq(OnWire) /\ Len(Wire) \in Nat
      /\ Len(Wire') \in Nat /\ Len(Wire) = Len(Wire') + i
      /\ \A j \in 1 .. Len(Wire') : (Wire')[j] = Wire[j + i]
  BY <1>1, BytesAre, WireTypeNext DEF Cuts, Shifted
<1>3. UNCHANGED <<sent, up>> /\ pc' # "accept" /\ pc # "accept"
  BY DEF TakeLine, NextLine
<1>4. PICK e : Pending(e)
  BY DEF OrderInv
<1>5. Len(taken) <= Len(sent) /\ \A j \in 1 .. Len(taken) : taken[j] = sent[j]
  BY DEF OrderInv
<1>6. /\ Len(taken) + 1 \in 1 .. Len(sent) /\ Len(sent[Len(taken) + 1]) = i - 1
      /\ \A j \in 1 .. i - 1 : Wire[j] = sent[Len(taken) + 1][j]
      /\ e[1] = i
  BY <1>1, <1>4, <1>5, FrontIsDue
<1>7. /\ sent \in Seq(Line) /\ taken \in Seq(Seq(Byte)) /\ Len(sent) \in Nat
      /\ Len(taken) \in Nat /\ \A j \in 1 .. Len(sent) : sent[j] \in Line
  BY HistoryIs
<1>8. l = sent[Len(taken) + 1]
  <2>1. sent[Len(taken) + 1] \in Seq(Byte)
    BY <1>6, <1>7, LineType
  <2>2. \A j \in 1 .. Len(l) : l[j] = sent[Len(taken) + 1][j]
    BY <1>1, <1>6
  <2>3. QED BY <1>1, <1>6, <2>1, <2>2, SameSeq
<1>9. Len(taken') = Len(taken) + 1 /\ taken'[Len(taken) + 1] = l
      /\ \A j \in 1 .. Len(taken) : taken'[j] = taken[j]
  BY ONLY <1>1, <1>7
<1>10. Len(taken') <= Len(sent') /\ \A j \in 1 .. Len(taken') : taken'[j] = sent'[j]
  <2>1. Len(taken') <= Len(sent')
    BY <1>3, <1>6, <1>7, <1>9
  <2>2. ASSUME NEW j \in 1 .. Len(taken') PROVE taken'[j] = sent'[j]
    <3>1. j \in 1 .. Len(taken) \/ j = Len(taken) + 1
      BY <1>7, <1>9
    <3>2. QED BY <1>3, <1>5, <1>8, <1>9, <3>1
  <2>3. QED BY <2>1, <2>2
<1> DEFINE t == Len(taken)
           m == Len(sent) - t
<1>11. PICK f : f = [k \in 0 .. m - 1 |-> e[k + 1] - i]
  OBVIOUS
<1>12. t \in Nat /\ m \in Nat /\ m >= 1 /\ t + m = Len(sent) /\ Len(sent) - (t + 1) = m - 1
  BY <1>6, <1>7
<1>13. /\ e \in [0 .. m -> Nat] /\ e[0] = 0 /\ Len(Wire) <= e[m] /\ (up => Len(Wire) = e[m])
       /\ \A k \in 1 .. m :
            e[k] = e[k - 1] + (Len(sent[t + k]) + 1) /\ Fits1(Wire, e[k - 1], sent[t + k])
       /\ \A j, k \in 0 .. m : j <= k => e[j] <= e[k]
  BY <1>4 DEF Pending, Marks
<1>14. \A k \in 1 .. m : sent[t + k] \in Line
  <2>1. \A k \in 1 .. m : t + k \in 1 .. Len(sent)
    BY <1>12
  <2>2. QED BY <1>7, <2>1
<1> HIDE DEF t, m
<1>15. ASSUME NEW k \in 0 .. m - 1
       PROVE  k + 1 \in 0 .. m /\ e[k + 1] \in Nat /\ i <= e[k + 1]
              /\ f[k] = e[k + 1] - i /\ f[k] \in Nat /\ f[k] + i = e[k + 1]
  <2>1. k + 1 \in 0 .. m /\ 1 \in 0 .. m /\ 1 <= k + 1
    BY <1>12
  <2>2. e[k + 1] \in Nat /\ e[1] <= e[k + 1]
    BY <1>13, <2>1
  <2>3. i <= e[k + 1]
    BY <1>6, <2>2
  <2>4. f[k] = e[k + 1] - i
    BY <1>11
  <2>5. QED BY <2>1, <2>2, <2>3, <2>4
<1>16. f \in [0 .. m - 1 -> Nat]
  BY <1>11, <1>15
<1>17. f[0] = 0
  <2>1. 0 \in 0 .. m - 1 /\ 0 + 1 = 1
    BY <1>12
  <2>2. f[0] = e[1] - i
    BY <1>15, <2>1
  <2>3. QED BY <1>6, <2>2
<1>18. ASSUME NEW k \in 1 .. m - 1
       PROVE  /\ f[k] = f[k - 1] + (Len(sent[(t + 1) + k]) + 1)
              /\ Fits1(Wire', f[k - 1], sent[(t + 1) + k])
  <2>1. PICK h \in Int : h = k + 1
    OBVIOUS
  <2>2. /\ h \in 1 .. m /\ h - 1 = k /\ (t + 1) + k = t + h
        /\ k \in 0 .. m - 1 /\ k - 1 \in 0 .. m - 1 /\ (k - 1) + 1 = k
    BY <1>12, <2>1
  <2>3. e[h] = e[k] + (Len(sent[t + h]) + 1) /\ Fits1(Wire, e[k], sent[t + h])
    BY <1>13, <2>2
  <2>4. f[k] + i = e[h] /\ f[k - 1] + i = e[k] /\ f[k] \in Nat /\ f[k - 1] \in Nat
    BY <1>15, <2>1, <2>2
  <2>5. sent[t + h] \in Line /\ Len(sent[t + h]) \in Nat
    BY <1>14, <2>2, LineType
  <2>6. Fits1(Wire', f[k - 1], sent[t + h])
    <3>1. PICK p \in Nat : p = f[k - 1]
      BY <2>4
    <3>2. \A j \in p + 1 .. Len(Wire') : (Wire')[j] = Wire[j + i]
      BY <1>2
    <3>3. Fits1(Wire, p + i, sent[t + h])
      BY <2>3, <2>4, <3>1
    <3>4. QED BY <1>2, <2>5, <3>1, <3>2, <3>3, FitsMoved
  <2>7. f[k] = f[k - 1] + (Len(sent[t + h]) + 1)
    <3>1. f[k] + i = (f[k - 1] + i) + (Len(sent[t + h]) + 1)
      BY <2>3, <2>4
    <3>2. PICK a \in Nat, b \in Nat, n \in Nat :
            a = f[k] /\ b = f[k - 1] /\ n = Len(sent[t + h])
      BY ONLY <2>4, <2>5
    <3>3. a + i = (b + i) + (n + 1)
      BY ONLY <3>1, <3>2
    <3>4. a = b + (n + 1)
      BY <3>3, Cancel
    <3>5. QED BY ONLY <3>2, <3>4
  <2>8. sent[(t + 1) + k] = sent[t + h]
    BY <2>2
  <2>9. QED BY <2>6, <2>7, <2>8
<1>19. ASSUME NEW j \in 0 .. m - 1, NEW k \in 0 .. m - 1, j <= k PROVE f[j] <= f[k]
  <2>1. j + 1 \in 0 .. m /\ k + 1 \in 0 .. m /\ j + 1 <= k + 1
    BY <1>12, <1>19
  <2>2. e[j + 1] <= e[k + 1]
    BY <1>13, <2>1
  <2>3. QED BY <1>15, <2>2
<1>20. Marks(f, Wire', t + 1, sent)
  BY <1>12, <1>16, <1>17, <1>18, <1>19 DEF Marks
<1>21. Len(Wire') <= f[m - 1] /\ (up => Len(Wire') = f[m - 1])
  <2>1. m - 1 \in 0 .. m - 1 /\ (m - 1) + 1 = m
    BY <1>12
  <2>2. f[m - 1] + i = e[m] /\ e[m] \in Nat /\ f[m - 1] \in Nat
    BY <1>15, <2>1
  <2>3. QED BY <1>2, <1>13, <2>2
<1>22. Pending(f)'
  <2>1. Len(taken') = t + 1 /\ sent' = sent
    BY <1>3, <1>9 DEF t
  <2>2. QED BY <1>3, <1>12, <1>20, <1>21, <2>1 DEF Pending
<1>23. QED BY <1>10, <1>22 DEF OrderInv

LEMMA OrderSkip ==
  ASSUME TypeOK, LinesAreShort, OrderInv, Skip PROVE losses # 0
<1> SUFFICES ASSUME losses = 0 PROVE FALSE
  OBVIOUS
<1>1. PICK i \in Nat : Cuts(i) /\ (i = 1 \/ i > LineCap)
  BY SkipIs
<1>2. PICK e : Pending(e)
  BY DEF OrderInv
<1>3. Len(taken) <= Len(sent)
  BY DEF OrderInv
<1>4. Len(taken) + 1 \in 1 .. Len(sent) /\ Len(sent[Len(taken) + 1]) = i - 1
  BY <1>1, <1>2, <1>3, FrontIsDue
<1>5. sent[Len(taken) + 1] \in Line
  BY <1>4, HistoryIs
<1>6. PICK l \in Line : Len(l) = i - 1
  BY <1>4, <1>5
<1>7. Len(l) \in Nat /\ Len(l) # 0 /\ Len(l) < LineCap
  BY LineType DEF LinesAreShort
<1>8. QED BY <1>1, <1>6, <1>7, Constants

LEMMA NextOrder ==
  ASSUME TypeOK, TypeOK', ResyncInv, LinesAreShort, OrderInv, [Next]_vars PROVE OrderInv'
<1>1. ASSUME UNCHANGED <<recv_buffer, stream, sent, taken, losses>>,
             up' \/ pc' = "accept" => up \/ pc = "accept"
      PROVE  OrderInv'
  <2>1. Wire' = Wire
    BY <1>1 DEF Wire
  <2>2. ASSUME NEW e, Pending(e) PROVE Pending(e)'
    BY <1>1, <2>1, <2>2 DEF Pending
  <2>3. QED BY <1>1, <2>2 DEF OrderInv
<1>2. CASE Connect \/ ParseEnds \/ UNCHANGED vars
  BY <1>1, <1>2 DEF Connect, ParseEnds, vars
<1>3. losses \in Nat
  BY HistoryIs
<1>4. CASE Closed
  BY <1>3, <1>4 DEF Closed, OrderInv
<1>5. ASSUME NEW n \in 1 .. MaxChunk, Recv(n) PROVE OrderInv'
  <2>1. pc # "accept" /\ UNCHANGED <<up, sent, taken>>
    BY <1>5 DEF Recv
  <2>2. CASE Kept(n) /\ Wire' = Wire
    <3>1. ASSUME NEW e, Pending(e) PROVE Pending(e)'
      BY <2>1, <2>2, <3>1 DEF Pending, Kept
    <3>2. QED BY <2>1, <2>2, <3>1 DEF OrderInv, Kept
  <2>3. CASE Dropped(n)
    BY <1>3, <2>3 DEF Dropped, OrderInv
  <2>4. QED BY <1>5, <2>2, <2>3, RecvIs
<1>6. CASE Skip
  <2>1. losses # 0 /\ losses' = losses
    BY <1>6, OrderSkip DEF Skip
  <2>2. QED BY <2>1 DEF OrderInv
<1>7. QED
  BY <1>2, <1>4, <1>5, <1>6, OrderSend, OrderBreak, OrderTake DEF Next, Server

\* While chunks fit and no connection breaks, lines are taken in the order they
\* are sent and unchanged, however TCP cuts them (tcp_server.c:96-119), if none
\* is as long as the buffer it is copied to (tcp_server.c:105).
THEOREM TakenInOrder == LinesAreShort => (Spec => []InOrder)
<1> SUFFICES ASSUME LinesAreShort PROVE Spec => []InOrder
  OBVIOUS
<1>1. Spec => []OrderInv
  <2>1. TypeOK /\ TypeOK' /\ ResyncInv /\ OrderInv /\ [Next]_vars => OrderInv'
    BY NextOrder
  <2>2. QED BY <2>1, InitOrder, TypeCorrect, ResyncInvariance, PTL DEF Spec
<1>2. TypeOK /\ OrderInv => InOrder
  <2> SUFFICES ASSUME TypeOK, OrderInv, losses = 0 PROVE IsPrefix(taken, sent)
    BY DEF InOrder
  <2>1. Len(taken) <= Len(sent) /\ \A j \in 1 .. Len(taken) : taken[j] = sent[j]
    BY DEF OrderInv
  <2>2. sent \in Seq(Seq(Byte)) /\ taken \in Seq(Seq(Byte))
    BY LineType DEF TypeOK
  <2> DEFINE n == Len(taken)
             a == SubSeq(taken, 1, n)
             b == SubSeq(sent, 1, n)
  <2>3. n \in Nat /\ n <= Len(sent) /\ 1 <= n + 1 /\ (n - 1) + 1 = n
    BY <2>1, <2>2
  <2>4. a \in Seq(Seq(Byte)) /\ Len(a) = n /\ \A j \in 1 .. n : a[j] = taken[j]
    BY <2>2, <2>3
  <2>5. b \in Seq(Seq(Byte)) /\ Len(b) = n /\ \A j \in 1 .. n : b[j] = sent[j]
    BY <2>2, <2>3
  <2> HIDE DEF a, b
  <2>6. a = b
    BY <2>1, <2>4, <2>5, SameSeq
  <2>7. QED BY <2>1, <2>6 DEF IsPrefix, a, b
<1>3. QED BY <1>1, <1>2, TypeCorrect, PTL

-----------------------------------------------------------------------------
(* Phase 2: a server that gives up                                         *)

\* The places at which a server's socket is not open.
NotOpen == {"new", "reset", "socket", "deleted"}

PcType == eth_pc \in [EthServer -> Labels]
ChipType == sn_sr \in [EthServer -> Status]
HoldsWithin == \A t \in EthServer : owner = t => eth_pc[t] \in Locked
ClosedAtBothEnds == \A t \in EthServer : eth_pc[t] \in NotOpen => sn_sr[t] = "closed"

NoneIsNoServer == None \notin EthServer

EthInv == NoneIsNoServer /\ PcType /\ ChipType /\ HoldsWithin /\ ClosedAtBothEnds

USE DEF NoneIsNoServer, PcType, ChipType, HoldsWithin, ClosedAtBothEnds

LEMMA InitInv == EthInit => EthInv
<1>1. NoneIsNoServer
  BY EthServersAssumption DEF None
<1>2. QED BY <1>1 DEF EthInit, EthInv, Labels, Locked, Status, NotOpen

\* The chip's own steps start at a socket that is open.
LEMMA ClientKeeps ==
  ASSUME NEW t \in EthServer, EthInv, Client(t)
  PROVE  EthInv'
<1> USE DEF EthInv, Status0, ChipSteps, Status
<1>1. CASE Connects(t) BY <1>1 DEF Connects
<1>2. CASE Closes(t)   BY <1>2 DEF Closes
<1>3. CASE Breaks(t)   BY <1>3 DEF Breaks
<1>4. CASE Sends(t)    BY <1>4 DEF Sends
<1>5. QED BY <1>1, <1>2, <1>3, <1>4 DEF Client

LEMMA LockKeeps ==
  ASSUME NEW t \in EthServer, EthInv, wiz_lock(t)
  PROVE  EthInv'
  BY DEF EthInv, wiz_lock, chipVars

\* A section that moves to a place where its socket need not be closed, and
\* leaves each socket as it was, closed, or its own open.
LEMMA SectionKeeps ==
  ASSUME NEW t \in EthServer, EthInv, NEW l, NEW m \in Labels, Section(t, l, m),
         sn_sr' \in [EthServer -> Status],
         \A u \in EthServer : u # t => sn_sr'[u] \in {sn_sr[u], "closed"},
         m \in NotOpen => sn_sr'[t] = "closed"
  PROVE  EthInv'
<1>1. \A u \in EthServer : eth_pc'[u] = IF u = t THEN m ELSE eth_pc[u]
  BY DEF Section, Goto, EthInv
<1>2. owner = t /\ owner' = None
  BY DEF Section, wiz_unlock
<1>3. HoldsWithin'
  BY <1>2 DEF EthInv
<1>4. ClosedAtBothEnds'
  BY <1>1 DEF EthInv
<1>5. PcType'
  BY DEF Section, Goto, EthInv
<1>6. QED
  BY <1>3, <1>4, <1>5 DEF EthInv

\* The calls of a server that are made outside of a section.
LEMMA OutsideKeeps ==
  ASSUME NEW t \in EthServer, EthInv,
         Created(t) \/ Closing(t) \/ EthObey(t) \/ Due(t)
  PROVE  EthInv'
<1> USE DEF EthInv, At, Goto, Status0, Status, Labels, Locked,
        NotOpen, chipVars
<1>1. CASE Created(t) BY <1>1 DEF Created
<1>2. CASE Closing(t) BY <1>2 DEF Closing
<1>3. CASE EthObey(t)    BY <1>3 DEF EthObey, Read
<1>4. CASE Due(t)     BY <1>4 DEF Due
<1>5. QED BY <1>1, <1>2, <1>3, <1>4

LEMMA ServerKeeps ==
  ASSUME NEW t \in EthServer, EthInv, ServerStep(t)
  PROVE  EthInv'
<1> USE DEF LooksOnly, Status0, Status, Labels, Locked, NotOpen,
        chipVars, EthInv
<1>1. CASE Created(t) \/ Closing(t) \/ EthObey(t) \/ Due(t)
  BY <1>1, OutsideKeeps
<1>2. CASE Reset(t)      BY <1>2, SectionKeeps DEF Reset
<1>3. CASE Socket(t)
  <2>1. CASE Section(t, "socket", "listen") /\ Status0(t, "init")
    BY <2>1, SectionKeeps
  <2>2. CASE LooksOnly(t, "socket", "deleted")
    <3>1. sn_sr[t] = "closed"
      BY <2>2 DEF Section, At
    <3>2. QED BY <2>2, <3>1, SectionKeeps
  <2>3. QED BY <1>3, <2>1, <2>2 DEF Socket
<1>4. CASE Listen(t)
  BY <1>4, SectionKeeps DEF Listen, Listens, ListenFails
<1>5. CASE Look(t)       BY <1>5, SectionKeeps DEF Look
<1>6. CASE Again(t)
  BY <1>6, SectionKeeps DEF Again, Listens, ListenFails
<1>7. CASE Serve(t)      BY <1>7, SectionKeeps DEF Serve, Next0
<1>8. CASE Avail(t)      BY <1>8, SectionKeeps DEF Avail, Read
<1>9. CASE EthRecv(t)       BY <1>9, SectionKeeps DEF EthRecv, Read
<1>10. CASE Send(t)      BY <1>10, SectionKeeps DEF Send
<1>11. CASE Disconnect(t) BY <1>11, SectionKeeps DEF Disconnect
<1>12. CASE Relisten(t)
  BY <1>12, SectionKeeps DEF Relisten, Listens, ListenFails
<1>13. CASE Close(t)     BY <1>13, SectionKeeps DEF Close
<1>14. QED
  BY <1>1, <1>2, <1>3, <1>4, <1>5, <1>6, <1>7, <1>8, <1>9, <1>10, <1>11, <1>12, <1>13
     DEF ServerStep

LEMMA NextInv == EthInv /\ [EthNext]_ethVars => EthInv'
<1>1. EthInv /\ EthNext => EthInv'
  BY ClientKeeps, LockKeeps, ServerKeeps DEF EthNext
<1>2. EthInv /\ UNCHANGED ethVars => EthInv'
  BY DEF EthInv, ethVars, chipVars
<1>3. QED BY <1>1, <1>2

\* A server that has given up leaves its socket closed and does not hold the
\* mutex, whichever call failed (w5500_port.c:273-285, 368-372).
THEOREM LeavesNothingOpen == EthSpec => []GivesUpCleanly
<1>1. EthInv => GivesUpCleanly
  BY DEF EthInv, GivesUpCleanly, NotOpen, Locked
<1>2. QED BY <1>1, InitInv, NextInv, PTL DEF EthSpec

EthTypes ==
  /\ owner \in EthServer \cup {None} /\ avail \in [EthServer -> BOOLEAN]

LEMMA EthTypesNext == EthTypes /\ [EthNext]_ethVars => EthTypes'
<1> SUFFICES ASSUME EthTypes, [EthNext]_ethVars PROVE EthTypes'
  OBVIOUS
<1>1. CASE UNCHANGED ethVars
  BY <1>1 DEF EthTypes, ethVars, chipVars
<1>2. ASSUME NEW t \in EthServer, Client(t) PROVE EthTypes'
  BY <1>2 DEF EthTypes, Client, Connects, Closes, Breaks, Sends, ChipSteps
<1>3. ASSUME NEW t \in EthServer, wiz_lock(t) PROVE EthTypes'
  BY <1>3 DEF EthTypes, wiz_lock, chipVars
<1>4. ASSUME NEW t \in EthServer, EthObey(t) PROVE EthTypes'
  <2>1. UNCHANGED <<owner, avail>>
    BY <1>4 DEF EthObey, chipVars
  <2>2. QED BY <2>1 DEF EthTypes
<1>5. ASSUME NEW t \in EthServer, ServerStep(t), ~EthObey(t) PROVE EthTypes'
  <2>1. owner' \in {owner, None}
    BY <1>5 DEF ServerStep, Created, Reset, Socket, Listen, Closing, Look, Again, Serve,
       Avail, EthRecv, Due, Send, Disconnect, Relisten, Close, Listens, ListenFails,
       LooksOnly, Section, wiz_unlock
  <2>2. UNCHANGED avail \/ avail' = [avail EXCEPT ![t] = FALSE]
    BY <1>5 DEF ServerStep, Created, Reset, Socket, Listen, Closing, Look, Again, Serve,
       Avail, EthRecv, Due, Send, Disconnect, Relisten, Close, Listens, ListenFails,
       LooksOnly, chipVars
  <2>3. QED BY <2>1, <2>2 DEF EthTypes
<1>6. QED BY <1>1, <1>2, <1>3, <1>4, <1>5 DEF EthNext

\* Every variable keeps its type: whoever holds the mutex is a server, and each socket
\* is in one of the chip's states, whatever the library's calls return.
THEOREM EthTypeCorrect == EthSpec => []EthTypeOK
<1>1. EthInit => EthTypes
  BY DEF EthInit, EthTypes
<1>2. EthInv /\ EthTypes => EthTypeOK
  BY DEF EthInv, PcType, ChipType, EthTypes, EthTypeOK
<1>3. QED BY <1>1, <1>2, EthTypesNext, InitInv, NextInv, PTL DEF EthSpec
=============================================================================
