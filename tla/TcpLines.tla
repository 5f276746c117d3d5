------------------------------ MODULE TcpLines ------------------------------
(***************************************************************************)
(* The server of port 5000 (tcp_server_thread, tcp_server.c): it cuts the  *)
(* byte stream of the Raspberry Pi into lines and obeys them.  What a      *)
(* command does to the flags is in Modes1, what a sample does to the queue *)
(* in Mcb1: here a line is taken, with the commands it holds.              *)
(*                                                                         *)
(* TCP delivers the stream in chunks of any size.  A chunk that does not   *)
(* fit behind the unfinished line is dropped whole.  The buffer is static: *)
(* an unfinished line outlives its connection.                             *)
(*                                                                         *)
(* A byte stands for what the server tells apart: "!", "@", "#" and "$",   *)
(* the bytes of a sample (Value), and NL the newline.  Sizes are scaled    *)
(* down: Cap is the 512 bytes of recv_buffer, LineCap the 256 of temp.     *)
(* A line of 254 or 255 bytes is taken like any other, though :182 writes  *)
(* its CR LF past temp: the client sends at most 49.                       *)
(*                                                                         *)
(* sent, taken, asked, obeyed, clean and losses are history: no action     *)
(* reads them but to bound the run.                                        *)
(*                                                                         *)
(* Definitions named Mut... are plausible mistakes in the definition that  *)
(* follows; the project substitutes them to see the properties fail.       *)
(***************************************************************************)
EXTENDS Naturals, SequencesExt

CONSTANTS Value,         \* the bytes that are no command
          Line,          \* the lines that may be sent
          Cap, LineCap,
          MaxChunk,      \* the largest chunk the stack hands over
          MaxSent,       \* bound: the lines sent
          MaxLosses      \* bound: the connections broken

Command == {"!", "@", "#", "$"}
Byte == Command \cup Value
NL == "newline"

ASSUME TcpLinesAssumption ==
  /\ Value \cap Command = {} /\ NL \notin Byte
  /\ Line \subseteq Seq(Byte) /\ <<>> \notin Line
  /\ {Cap, LineCap, MaxChunk} \subseteq Nat \ {0}
  /\ {MaxSent, MaxLosses} \subseteq Nat

VARIABLES
  stream,       \* sent and not yet received
  up,           \* the client holds the connection open
  pc, recv_buffer,
  sent, taken, asked, obeyed,
  clean,        \* no byte was lost since the last line began
  losses        \* chunks dropped and lines broken off

vars == <<stream, up, pc, recv_buffer, sent, taken, asked, obeyed, clean, losses>>

Init ==
  /\ stream = <<>> /\ up = FALSE /\ pc = "accept"
  /\ recv_buffer = <<>>
  /\ sent = <<>> /\ taken = <<>>
  /\ asked = [c \in Command |-> 0] /\ obeyed = [c \in Command |-> 0]
  /\ clean = TRUE /\ losses = 0

Has(l, S) == \E i \in DOMAIN l : l[i] \in S
First(l, S) == CHOOSE i \in DOMAIN l : l[i] \in S /\ \A j \in 1 .. i - 1 : l[j] \notin S

\* n + 1 for the commands that line l holds.
Counted(n, l) == [c \in Command |-> IF Has(l, {c}) THEN n[c] + 1 ELSE n[c]]

-----------------------------------------------------------------------------
(* The client and the network                                              *)

Connect ==
  /\ pc = "accept" /\ ~up
  /\ up' = TRUE /\ pc' = "recv"
  /\ UNCHANGED <<stream, recv_buffer, sent, taken, asked, obeyed, clean, losses>>

\* send_message of last_last.c
SendLine(l) ==
  /\ up /\ Len(sent) < MaxSent
  /\ stream' = stream \o l \o <<NL>>
  /\ sent' = Append(sent, l)
  /\ asked' = Counted(asked, l)
  /\ UNCHANGED <<up, pc, recv_buffer, taken, obeyed, clean, losses>>

\* The connection breaks; what was in flight arrives in part.
Break ==
  /\ up /\ losses < MaxLosses
  /\ up' = FALSE
  /\ \E k \in 0 .. Len(stream) : stream' = SubSeq(stream, 1, k)
  /\ UNCHANGED <<pc, recv_buffer, sent, taken, asked, obeyed, clean, losses>>

-----------------------------------------------------------------------------
(* tcp_server_thread                                                       *)

\* tcp_server.c:96
Fits(n) == Len(recv_buffer) + n < Cap

\* tcp_server.c:90-98: a chunk of n bytes is appended or dropped.
Recv(n) ==
  /\ pc = "recv" /\ n <= Len(stream)
  /\ stream' = SubSeq(stream, n + 1, Len(stream))
  /\ \/ /\ Fits(n)
        /\ recv_buffer' = recv_buffer \o SubSeq(stream, 1, n)
        /\ pc' = "parse"
        /\ UNCHANGED <<clean, losses>>
     \/ /\ ~Fits(n)
        /\ clean' = FALSE /\ losses' = losses + 1
        /\ UNCHANGED <<pc, recv_buffer>>
  /\ UNCHANGED <<up, sent, taken, asked, obeyed>>

\* tcp_server.c:193-195
Closed ==
  /\ pc = "recv" /\ ~up /\ stream = <<>>
  /\ pc' = "accept"
  /\ clean' = (clean /\ recv_buffer = <<>>)
  /\ losses' = losses + 1
  /\ UNCHANGED <<stream, up, recv_buffer, sent, taken, asked, obeyed>>

\* tcp_server.c:102, 189: no newline is left.
ParseEnds ==
  /\ pc = "parse" /\ ~Has(recv_buffer, {NL})
  /\ pc' = "recv"
  /\ UNCHANGED <<stream, up, recv_buffer, sent, taken, asked, obeyed, clean, losses>>

\* tcp_server.c:118: what is behind the newline at i; the mutants take one
\* byte too many, and leave the line where it is.
MutBehindTwo(b, i) == SubSeq(b, i + 2, Len(b))
MutBehindAll(b, i) == b
Behind(b, i) == SubSeq(b, i + 1, Len(b))

\* A line has been taken: look for the next, or, the mutant, receive more.
MutNextLine == "recv"
NextLine == "parse"

\* tcp_server.c:105-110: an empty line, or one that is too long, is skipped.
Skip ==
  /\ pc = "parse" /\ Has(recv_buffer, {NL})
  /\ LET i == First(recv_buffer, {NL}) IN
       /\ i = 1 \/ i > LineCap
       /\ recv_buffer' = Behind(recv_buffer, i)
  /\ clean' = TRUE
  /\ UNCHANGED <<stream, up, pc, sent, taken, asked, obeyed, losses>>

\* tcp_server.c:102-187: a line is cut out and obeyed.
TakeLine ==
  /\ pc = "parse" /\ Has(recv_buffer, {NL})
  /\ LET i == First(recv_buffer, {NL})
         l == SubSeq(recv_buffer, 1, i - 1) IN
       /\ i > 1 /\ i <= LineCap
       /\ recv_buffer' = Behind(recv_buffer, i)
       /\ taken' = Append(taken, l) /\ obeyed' = Counted(obeyed, l)
  /\ pc' = NextLine
  /\ clean' = TRUE
  /\ UNCHANGED <<stream, up, sent, asked, losses>>

Server ==
  \/ \E n \in 1 .. MaxChunk : Recv(n)
  \/ ParseEnds \/ Skip \/ TakeLine \/ Closed

Next ==
  \/ Connect \/ Break \/ Server
  \/ \E l \in Line : SendLine(l)

Spec == Init /\ [][Next]_vars

\* The least urgent task of the controller runs whenever the others sleep.
FairSpec == Spec /\ WF_vars(Server)

-----------------------------------------------------------------------------
\* The type of every variable; the buffer never overflows.
TypeOK ==
  /\ stream \in Seq(Byte \cup {NL}) /\ up \in BOOLEAN
  /\ pc \in {"accept", "recv", "parse"}
  /\ recv_buffer \in Seq(Byte \cup {NL}) /\ Len(recv_buffer) < Cap
  /\ sent \in Seq(Line) /\ taken \in Seq(Seq(Byte))
  /\ asked \in [Command -> Nat] /\ obeyed \in [Command -> Nat]
  /\ clean \in BOOLEAN /\ losses \in Nat

\* However lines are cut, dropped and glued together, no command is obeyed
\* more often than it was sent (tcp_server.c:87-119, 156-173).
ObeyedAtMostAsked == \A c \in Command : obeyed[c] <= asked[c]

\* A loss damages one line: the line after the next newline is taken as it
\* was sent, on the same connection or the next (tcp_server.c:87, 96, 102).
Resync ==
  [][taken' # taken /\ clean => taken'[Len(taken')] \in Line]_vars

\* While chunks fit and no connection breaks, lines are taken in the order they
\* are sent and unchanged, however TCP cuts them (tcp_server.c:96-119) ...
InOrder == losses = 0 => IsPrefix(taken, sent)

\* ... and each one sooner or later, without waiting for the next to come
\* (tcp_server.c:102).
EachIsTaken == []<>(losses > 0 \/ ~up \/ Len(taken) = Len(sent))
=============================================================================
