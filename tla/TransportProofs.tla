--------------------------- MODULE TransportProofs ---------------------------
(***************************************************************************)
(* Proofs about Transport: for any number of connections, requests and     *)
(* notifications, and for every capacity of the event channel.             *)
(*                                                                         *)
(* An id is used once.  So the line that carries it, the server's answer   *)
(* to that line and the call that waits for it have one serial number,     *)
(* wherever the line and the answer are when calls end and connections go. *)
(*                                                                         *)
(* Links says of every connection how its parts fit the worker's memory: a *)
(* connection that was shut down, or whose reader was cut, is still.  So a *)
(* connected worker's reader is never a cut one, and what it takes out of  *)
(* the pipe is in the channel: Streamed.                                   *)
(*                                                                         *)
(* Brief is a recursive function.  What it makes of Append and of Head is  *)
(* derived from its definition by induction on an interval (UpTo).         *)
(***************************************************************************)
EXTENDS Transport, SequenceTheorems, FiniteSetTheorems, TLAPS

Kinds  == Requests \cup {"none", "initialized"}
Stages == {"idle", "locking", "writing", "waiting"}

\* A call, a line in stdin, and what is in stdout: an id other than 0 is the
\* serial number.
Calls ==
  {k \in [kind : Kinds, id : Nat, serial : Nat, stage : Stages, reply : Int] :
     /\ k.kind \in Requests => k.id # 0 /\ k.id = k.serial
     /\ k.kind \notin Requests => k.id = 0
     /\ k.reply \in {NoReply, -1, k.serial}}
Lines    == {l \in [id : Nat, serial : Nat] : l.id = 0 \/ l.id = l.serial}
Answers  == {a \in [kind : {"answer"}, id : Nat, serial : Nat] : a.id # 0 /\ a.id = a.serial}
Messages == [kind : {"note", "delta", "ask", "broken", "item", "completed"}, turn : Turns,
             text : Nat, phase : Phases]
Servers  == [alive : BOOLEAN, stdin : Seq(Lines), partial : BOOLEAN,
             stdout : Seq(Answers \cup Messages), torn : BOOLEAN, said : Seq(Messages),
             asks : Int]

CallKnown ==
  /\ DOMAIN caller = {"conn", "connected", "call", "down", "next", "heard", "theme", "left"}
  /\ caller.call \in Calls
  /\ caller.next \in Nat \ {0}
PipesKnown == srv \in [Conns -> Servers]
TransportInv == CallKnown /\ PipesKnown

-----------------------------------------------------------------------------
LEMMA CallTypes ==
  /\ Idle \in Calls
  /\ caller.next \in Nat \ {0} => \A kind \in Kinds \ {"none"} : StartCall(kind) \in Calls
<1>1. Idle \in Calls
  BY DEF Idle, Calls, Kinds, Stages, Requests, NoReply
<1>2. ASSUME caller.next \in Nat \ {0}, NEW kind \in Kinds \ {"none"}
      PROVE  StartCall(kind) \in Calls
  <2>1. CASE kind = "initialized"
    BY <1>2, <2>1 DEF StartCall, Calls, Kinds, Stages, Requests, NoReply
  <2>2. CASE kind \in Requests
    BY <1>2, <2>2 DEF StartCall, NextId, Calls, Kinds, Stages, Requests, NoReply
  <2> QED
    BY <2>1, <2>2 DEF Kinds
<1> QED
  BY <1>1, <1>2

\* A call whose stage or reply changes.
LEMMA CallUpdates ==
  ASSUME NEW k \in Calls
  PROVE  /\ \A stage \in Stages : [k EXCEPT !.stage = stage] \in Calls
         /\ \A reply \in {NoReply, -1, k.serial} : [k EXCEPT !.reply = reply] \in Calls
BY DEF Calls, NoReply

LEMMA EndedKnown ==
  ASSUME CallKnown, NEW ok \in BOOLEAN, caller' = Ended(ok)
  PROVE  CallKnown'
<1>1. StartCall("initialized") \in Calls /\ Idle \in Calls
  BY CallTypes DEF CallKnown, Kinds
<1>2. \/ caller' = [caller EXCEPT !.call = StartCall("initialized")]
      \/ caller' = [caller EXCEPT !.call = Idle, !.connected = FALSE, !.down = "locking"]
      \/ caller' = [caller EXCEPT !.call = Idle]
  BY DEF Ended
<1> HIDE DEF Idle
<1> QED
  BY <1>1, <1>2 DEF CallKnown

\* One connection's process and pipes change.
LEMMA PipesUpdate ==
  ASSUME PipesKnown, NEW c, NEW r, c \in Conns => r \in Servers
  PROVE  [srv EXCEPT ![c] = r] \in [Conns -> Servers]
BY DEF PipesKnown

LEMMA ServerUpdates ==
  ASSUME NEW s \in Servers
  PROVE  /\ \A q \in Seq(Lines) : [s EXCEPT !.stdin = q] \in Servers
         /\ \A q \in Seq(Answers \cup Messages) : [s EXCEPT !.stdout = q] \in Servers
         /\ \A b \in BOOLEAN : [s EXCEPT !.partial = b] \in Servers
         /\ \A b \in BOOLEAN : [s EXCEPT !.alive = b] \in Servers
         /\ \A b \in BOOLEAN : [s EXCEPT !.torn = b] \in Servers
         /\ \A n \in Int : [s EXCEPT !.asks = n] \in Servers
BY DEF Servers

LEMMA NewServers == FreshSrv \in Servers /\ NoSrv \in Servers
<1>1. FreshSrv \in Servers
  BY DEF FreshSrv, Servers
<1> HIDE DEF FreshSrv
<1>2. NoSrv \in Servers
  BY <1>1, ServerUpdates DEF NoSrv
<1> QED
  BY <1>1, <1>2

-----------------------------------------------------------------------------
\* The steps.

LEMMA InitInv == TransportInit => TransportInv
<1> SUFFICES ASSUME TransportInit PROVE TransportInv
  OBVIOUS
<1>1. CallKnown
  <2>1. Idle \in Calls
    BY CallTypes
  <2> HIDE DEF Idle
  <2> QED
    BY <2>1 DEF TransportInit, CallKnown
<1>2. PipesKnown
  BY NewServers DEF TransportInit, PipesKnown
<1> QED
  BY <1>1, <1>2 DEF TransportInv

\* The worker's own steps leave the pipes alone, or write a line to them.
LEMMA RequestInv ==
  ASSUME TransportInv, NEW kind \in Requests, Request(kind) PROVE TransportInv'
<1>1. StartCall(kind) \in Calls /\ caller.next + 1 \in Nat \ {0}
  BY CallTypes DEF TransportInv, CallKnown, Kinds, Requests
<1>2. caller' = [caller EXCEPT !.call = StartCall(kind), !.next = @ + 1] /\ srv' = srv
  BY DEF Request
<1> QED
  BY <1>1, <1>2 DEF TransportInv, CallKnown, PipesKnown

LEMMA ConnectInv == TransportInv /\ Connect => TransportInv'
<1> SUFFICES ASSUME TransportInv, Connect PROVE TransportInv'
  OBVIOUS
<1> DEFINE c == C + 1
           call == StartCall("initialize")
<1>1. call \in Calls /\ caller.next + 1 \in Nat \ {0}
  BY CallTypes DEF TransportInv, CallKnown, Kinds, Requests
<1>2. /\ caller' = [caller EXCEPT !.conn = c, !.connected = TRUE, !.call = call, !.next = @ + 1]
      /\ srv' = [srv EXCEPT ![c] = FreshSrv]
  BY DEF Connect
<1> HIDE DEF c, call
<1>3. CallKnown'
  BY <1>1, <1>2 DEF TransportInv, CallKnown
<1>4. PipesKnown'
  BY <1>2, NewServers, PipesUpdate DEF TransportInv, PipesKnown
<1> QED
  BY <1>3, <1>4 DEF TransportInv

LEMMA TakeLockInv == TransportInv /\ TakeLock => TransportInv'
<1> SUFFICES ASSUME TransportInv, TakeLock PROVE TransportInv'
  OBVIOUS
<1> DEFINE call == [caller.call EXCEPT !.stage = "writing"]
<1>1. call \in Calls
  BY CallUpdates DEF TransportInv, CallKnown, Stages
<1>2. caller' = [caller EXCEPT !.call = call] /\ srv' = srv
  BY DEF TakeLock
<1> HIDE DEF call
<1> QED
  BY <1>1, <1>2 DEF TransportInv, CallKnown, PipesKnown

LEMMA WriteInv == TransportInv /\ Write => TransportInv'
<1> SUFFICES ASSUME TransportInv, Write PROVE TransportInv'
  OBVIOUS
<1>1. caller.call \in Calls
  BY DEF TransportInv, CallKnown
<1>2. CallKnown'
  <2> DEFINE call == [caller.call EXCEPT !.stage = "waiting"]
  <2>1. CASE caller' = [caller EXCEPT !.call = call]
    <3>1. call \in Calls
      BY <1>1, CallUpdates DEF Stages
    <3> HIDE DEF call
    <3> QED
      BY <2>1, <3>1 DEF TransportInv, CallKnown
  <2>2. CASE caller' = Ended(TRUE) \/ caller' = Ended(FALSE)
    BY <2>2, EndedKnown DEF TransportInv
  <2> QED
    BY <2>1, <2>2 DEF Write
<1>3. PipesKnown'
  <2> DEFINE line == [id |-> caller.call.id, serial |-> caller.call.serial]
             s == srv[C]
             r1 == [s EXCEPT !.partial = FALSE]
             r2 == [s EXCEPT !.stdin = Append(@, line)]
  <2>1. line \in Lines
    BY <1>1 DEF Calls, Lines
  <2>2. srv' \in {srv, [srv EXCEPT ![C] = r1], [srv EXCEPT ![C] = r2]}
    BY DEF Write, Line
  <2>3. C \in Conns => s \in Servers
    BY DEF TransportInv, PipesKnown
  <2> HIDE DEF s, line
  <2>4. s \in Servers => r1 \in Servers
    BY ServerUpdates
  <2>5. s \in Servers => r2 \in Servers
    <3>1. s \in Servers => s.stdin \in Seq(Lines)
      BY DEF Servers
    <3>2. s \in Servers => Append(s.stdin, line) \in Seq(Lines)
      BY <2>1, <3>1, AppendProperties
    <3> QED
      BY <3>2, ServerUpdates
  <2> HIDE DEF r1, r2
  <2> QED
    BY <2>2, <2>3, <2>4, <2>5, PipesUpdate DEF TransportInv, PipesKnown
<1> QED
  BY <1>2, <1>3 DEF TransportInv

\* Steps that end the call, or leave it and the pipes alone.
LEMMA CallEndsInv ==
  ASSUME TransportInv, Answered \/ TimedOut PROVE TransportInv'
<1>1. \E ok \in BOOLEAN : caller' = Ended(ok)
  <2>1. CASE Answered
    <3>1. (caller.call.reply > 0) \in BOOLEAN
      OBVIOUS
    <3> QED
      BY <2>1, <3>1 DEF Answered
  <2>2. CASE TimedOut
    BY <2>2 DEF TimedOut
  <2> QED
    BY <2>1, <2>2
<1>2. srv' = srv
  BY DEF Answered, TimedOut
<1> QED
  BY <1>1, <1>2, EndedKnown DEF TransportInv, PipesKnown

LEMMA GiveUpInv == TransportInv /\ GiveUp => TransportInv'
<1> SUFFICES ASSUME TransportInv, GiveUp PROVE TransportInv'
  OBVIOUS
<1>1. CallKnown'
  <2>1. Idle \in Calls /\ caller' = [caller EXCEPT !.call = Idle]
    BY CallTypes DEF GiveUp
  <2> HIDE DEF Idle
  <2> QED
    BY <2>1 DEF TransportInv, CallKnown
<1>2. PipesKnown'
  <2> DEFINE r == [srv[C] EXCEPT !.partial = TRUE, !.torn = TRUE]
             t == [srv EXCEPT ![C] = r]
  <2>1. srv' = srv \/ srv' = [srv EXCEPT ![C].partial = TRUE, ![C].torn = TRUE]
    BY DEF GiveUp
  <2>2. [srv EXCEPT ![C].partial = TRUE, ![C].torn = TRUE] \in [Conns -> Servers]
    <3> DEFINE p == [srv EXCEPT ![C].partial = TRUE]
    <3>1. p \in [Conns -> Servers]
      BY ServerUpdates DEF TransportInv, PipesKnown
    <3>2. [srv EXCEPT ![C].partial = TRUE, ![C].torn = TRUE] = [p EXCEPT ![C].torn = TRUE]
      OBVIOUS
    <3> HIDE DEF p
    <3>3. [p EXCEPT ![C].torn = TRUE] \in [Conns -> Servers]
      BY <3>1, ServerUpdates
    <3> QED
      BY <3>2, <3>3
  <2> QED
    BY <2>1, <2>2 DEF TransportInv, PipesKnown
<1> QED
  BY <1>1, <1>2 DEF TransportInv

LEMMA EventInv ==
  ASSUME TransportInv, NextEvent \/ Shutdown \/ CloseStdin PROVE TransportInv'
<1>1. /\ srv' = srv /\ DOMAIN caller' = DOMAIN caller
      /\ caller'.call = caller.call /\ caller'.next = caller.next
  BY DEF NextEvent, Shutdown, CloseStdin, TransportInv, CallKnown
<1> QED
  BY <1>1 DEF TransportInv, CallKnown, PipesKnown

\* What is left in the pipe of an aborted reader was there before.
LEMMA EndShutdownInv == TransportInv /\ EndShutdown => TransportInv'
<1> SUFFICES ASSUME TransportInv, EndShutdown PROVE TransportInv'
  OBVIOUS
<1>1. CallKnown'
  BY DEF EndShutdown, TransportInv, CallKnown
<1>2. PipesKnown'
  <2> DEFINE q == Take(srv[C].stdout)
             r == IF rpc[C].reader = "done" THEN NoSrv ELSE [NoSrv EXCEPT !.stdout = q]
  <2>1. C \in Conns => q \in Seq(Answers \cup Messages)
    <3> SUFFICES ASSUME C \in Conns PROVE q \in Seq(Answers \cup Messages)
      OBVIOUS
    <3>1. srv[C].stdout \in Seq(Answers \cup Messages)
      BY DEF TransportInv, PipesKnown, Servers
    <3>2. CASE srv[C].stdout = << >>
      BY <3>1, <3>2 DEF Take
    <3>3. CASE srv[C].stdout # << >>
      <4>1. Head(srv[C].stdout) \in Answers \cup Messages
        BY <3>1, <3>3, HeadTailProperties
      <4> QED
        BY <3>3, <4>1 DEF Take
    <3> QED
      BY <3>2, <3>3
  <2>2. srv' = [srv EXCEPT ![C] = r]
    BY DEF EndShutdown
  <2> HIDE DEF q
  <2>3. C \in Conns => r \in Servers
    BY <2>1, NewServers, ServerUpdates
  <2> HIDE DEF r
  <2> QED
    BY <2>2, <2>3, PipesUpdate DEF TransportInv, PipesKnown
<1> QED
  BY <1>1, <1>2 DEF TransportInv

-----------------------------------------------------------------------------
\* The reader takes what is first in stdout.
LEMMA ConsumedKnown ==
  ASSUME TransportInv, NEW c \in Conns, srv[c].stdout # << >>
  PROVE  /\ Consumed(c) \in [Conns -> Servers]
         /\ Said(c) \in Answers \cup Messages
<1> DEFINE q == srv[c].stdout
<1>1. srv[c] \in Servers /\ q \in Seq(Answers \cup Messages)
  BY DEF TransportInv, PipesKnown, Servers
<1>2. Head(q) \in Answers \cup Messages /\ Tail(q) \in Seq(Answers \cup Messages)
  BY <1>1, HeadTailProperties
<1>3. [srv[c] EXCEPT !.stdout = Tail(q)] \in Servers
  BY <1>1, <1>2, ServerUpdates
<1>4. Consumed(c) = [srv EXCEPT ![c] = [srv[c] EXCEPT !.stdout = Tail(q)]]
  BY DEF Consumed
<1> QED
  BY <1>2, <1>3, <1>4, PipesUpdate DEF TransportInv, Said

LEMMA ReadAnswerInv ==
  ASSUME TransportInv, NEW c \in Conns, ReadAnswer(c) PROVE TransportInv'
<1>1. srv[c].stdout # << >> /\ Said(c).kind = "answer" /\ srv' = Consumed(c)
  BY DEF ReadAnswer, Reads, Said
<1>2. Said(c) \in Answers
  BY <1>1, ConsumedKnown DEF Messages
<1>3. caller.call \in Calls
  BY DEF TransportInv, CallKnown
<1> DEFINE call == [caller.call EXCEPT !.reply = Said(c).serial]
<1>4. \/ caller' = caller
      \/ caller' = [caller EXCEPT !.call = call] /\ caller.call.id = Said(c).id
  BY DEF ReadAnswer
<1>5. caller.call.id = Said(c).id => Said(c).serial = caller.call.serial
  BY <1>2, <1>3 DEF Calls, Answers
<1>6. caller.call.id = Said(c).id => call \in Calls
  BY <1>3, <1>5, CallUpdates
<1> HIDE DEF call
<1>7. CallKnown'
  BY <1>4, <1>6 DEF TransportInv, CallKnown
<1> QED
  BY <1>1, <1>7, ConsumedKnown DEF TransportInv, PipesKnown

LEMMA ReadOtherInv ==
  ASSUME TransportInv, NEW c \in Conns,
         ReadNote(c) \/ ReadDelta(c) \/ ReadItem(c) \/ ReadCompleted(c) \/ ReadAsk(c)
         \/ ReadBroken(c)
  PROVE  TransportInv'
<1>1. srv[c].stdout # << >> /\ srv' = Consumed(c) /\ caller' = caller
  BY DEF ReadNote, ReadDelta, ReadItem, ReadCompleted, ReadAsk,
         ReadBroken, Reads
<1> QED
  BY <1>1, ConsumedKnown DEF TransportInv, CallKnown, PipesKnown

LEMMA DeclineInv ==
  ASSUME TransportInv, NEW c \in Conns, DeclineLock(c) \/ DeclineWrite(c)
  PROVE  TransportInv'
<1>1. caller' = caller
  BY DEF DeclineLock, DeclineWrite
<1> DEFINE s == srv[c]
           n == s.asks - 1
           r1 == [s EXCEPT !.partial = FALSE]
           r2 == [s EXCEPT !.asks = n]
<1>2. srv' \in {srv, [srv EXCEPT ![c] = r1], [srv EXCEPT ![c] = r2]}
  BY DEF DeclineLock, DeclineWrite, Declined
<1>3. s \in Servers /\ n \in Int
  BY DEF TransportInv, PipesKnown, Servers
<1> HIDE DEF s, n
<1>4. r1 \in Servers /\ r2 \in Servers
  BY <1>3, ServerUpdates
<1> HIDE DEF r1, r2
<1>5. PipesKnown'
  BY <1>2, <1>4, PipesUpdate DEF TransportInv, PipesKnown
<1> QED
  BY <1>1, <1>5 DEF TransportInv, CallKnown

\* The reader's end.
LEMMA ReaderEndInv ==
  ASSUME TransportInv, NEW c \in Conns,
         ReaderEof(c) \/ ReaderDrain(c) \/ ReaderAborted(c) \/ ChildExited(c)
  PROVE  TransportInv'
<1>1. PipesKnown'
  <2>1. srv' = srv \/ srv' = [srv EXCEPT ![c] = NoSrv]
    BY DEF ReaderEof, ReaderDrain, ReaderAborted, ChildExited
  <2> QED
    BY <2>1, NewServers, PipesUpdate DEF TransportInv, PipesKnown
<1>2. CallKnown'
  <2> DEFINE none == -1
             call == [caller.call EXCEPT !.reply = none]
  <2>1. caller' = caller \/ caller' = [caller EXCEPT !.call = call]
    BY DEF ReaderEof, ReaderDrain, ReaderAborted, ChildExited
  <2>2. call \in Calls
    <3>1. none \in {NoReply, -1, caller.call.serial}
      OBVIOUS
    <3> HIDE DEF none
    <3> QED
      BY <3>1, CallUpdates DEF TransportInv, CallKnown
  <2> HIDE DEF call
  <2> QED
    BY <2>1, <2>2 DEF TransportInv, CallKnown
<1> QED
  BY <1>1, <1>2 DEF TransportInv

-----------------------------------------------------------------------------
\* The app-server answers a line under the line's own id.
LEMMA ServerReadsInv ==
  ASSUME TransportInv, NEW c \in Conns, ServerReads(c) PROVE TransportInv'
<1> DEFINE s == srv[c]
           line == Head(s.stdin)
           rest == Tail(s.stdin)
           read == [s EXCEPT !.stdin = rest]
           said == Append(s.stdout, Answer(line.id, line.serial))
           told == [read EXCEPT !.stdout = said]
<1>1. s \in Servers /\ s.stdin \in Seq(Lines) /\ s.stdin # << >>
      /\ s.stdout \in Seq(Answers \cup Messages)
  BY DEF TransportInv, PipesKnown, Servers, ServerReads
<1>2. line \in Lines /\ rest \in Seq(Lines)
  BY <1>1, HeadTailProperties
<1>3. \/ srv' = [srv EXCEPT ![c] = read]
      \/ line.id # 0 /\ srv' = [srv EXCEPT ![c] = told]
  <2> DEFINE before == [srv EXCEPT ![c].stdin = rest]
  <2>1. \/ srv' = before
        \/ line.id # 0 /\ srv' = [before EXCEPT ![c].stdout = Append(@, Answer(line.id, line.serial))]
    BY DEF ServerReads
  <2>2. before = [srv EXCEPT ![c] = read] /\ before[c] = read /\ read.stdout = s.stdout
    BY <1>1 DEF TransportInv, PipesKnown, Servers
  <2>3. [before EXCEPT ![c].stdout = Append(@, Answer(line.id, line.serial))]
          = [before EXCEPT ![c] = told]
    BY <2>2
  <2>4. [before EXCEPT ![c] = told] = [srv EXCEPT ![c] = told]
    <3> HIDE DEF read, told
    <3> QED
      BY <2>2 DEF TransportInv, PipesKnown
  <2> QED
    BY <2>1, <2>2, <2>3, <2>4
<1>4. read \in Servers
  BY <1>1, <1>2, ServerUpdates
<1>5. line.id # 0 => told \in Servers
  <2>1. line.id # 0 => Answer(line.id, line.serial) \in Answers
    BY <1>2 DEF Lines, Answers, Answer
  <2>2. line.id # 0 => said \in Seq(Answers \cup Messages)
    BY <1>1, <2>1, AppendProperties
  <2> HIDE DEF read, said
  <2> QED
    BY <1>4, <2>2, ServerUpdates
<1> HIDE DEF read, told, line
<1>6. PipesKnown'
  BY <1>3, <1>4, <1>5, PipesUpdate DEF TransportInv, PipesKnown
<1>7. caller' = caller
  BY DEF ServerReads
<1> QED
  BY <1>6, <1>7 DEF TransportInv, CallKnown

LEMMA ServerSaysInv ==
  ASSUME TransportInv, NEW c \in Conns, ServerSays(c) PROVE TransportInv'
<1> DEFINE s == srv[c]
<1>1. s \in Servers
  BY DEF TransportInv, PipesKnown
<1>2. PICK m \in Sayable(c) :
        srv' = [srv EXCEPT ![c] = [srv[c] EXCEPT !.stdout = Append(@, m),
                 !.said = IF m.kind \in {"ask", "delta", "broken"} THEN @ ELSE Append(@, m),
                 !.asks = IF m.kind = "ask" THEN @ + 1 ELSE @]]
  BY DEF ServerSays
<1>3. m \in Messages
  <2>1. Len(srv[c].said) + 1 \in Nat /\ 1 \in Nat /\ Empty \in Nat
    BY <1>1 DEF Servers, Empty
  <2>2. 1 \in Turns /\ "none" \in Phases /\ ItemPhases \subseteq Phases
    BY TransportAssumption DEF Turns, Phases
  <2> QED
    BY <2>1, <2>2 DEF Sayable, Message, Messages
<1> DEFINE out  == Append(s.stdout, m)
           said == IF m.kind \in {"ask", "delta", "broken"} THEN s.said ELSE Append(s.said, m)
           asks == IF m.kind = "ask" THEN s.asks + 1 ELSE s.asks
           r    == [s EXCEPT !.stdout = out, !.said = said, !.asks = asks]
<1>4. out \in Seq(Answers \cup Messages) /\ said \in Seq(Messages) /\ asks \in Int
  <2>1. /\ s.stdout \in Seq(Answers \cup Messages) /\ s.said \in Seq(Messages)
        /\ s.asks \in Int
    BY <1>1 DEF Servers
  <2>2. out \in Seq(Answers \cup Messages) /\ Append(s.said, m) \in Seq(Messages)
    BY <1>3, <2>1, AppendProperties
  <2> QED
    BY <2>1, <2>2
<1>5. srv' = [srv EXCEPT ![c] = r]
  BY <1>2
<1> HIDE DEF out, said, asks, s
<1>6. r \in Servers
  BY <1>1, <1>4 DEF Servers
<1> HIDE DEF r
<1>7. PipesKnown'
  BY <1>5, <1>6, PipesUpdate DEF TransportInv, PipesKnown
<1>8. CallKnown'
  BY DEF ServerSays, TransportInv, CallKnown
<1> QED
  BY <1>7, <1>8 DEF TransportInv

LEMMA ServerEndsInv ==
  ASSUME TransportInv, NEW c \in Conns, ServerEnds(c) PROVE TransportInv'
<1>1. srv[c] \in Servers
  BY DEF TransportInv, PipesKnown
<1>2. [srv[c] EXCEPT !.alive = FALSE] \in Servers
  BY <1>1, ServerUpdates
<1>3. PipesKnown'
  BY <1>2, PipesUpdate DEF ServerEnds, TransportInv, PipesKnown
<1> QED
  BY <1>3 DEF ServerEnds, TransportInv, CallKnown

LEMMA StutterInv == TransportInv /\ UNCHANGED transportVars => TransportInv'
  BY DEF transportVars, TransportInv, CallKnown, PipesKnown

LEMMA TransportStep == TransportInv /\ [TransportNext]_transportVars => TransportInv'
<1> SUFFICES ASSUME TransportInv, [TransportNext]_transportVars PROVE TransportInv'
  OBVIOUS
<1>1. ASSUME NEW kind \in Requests \ {"initialize"}, Request(kind) PROVE TransportInv'
  BY <1>1, RequestInv
<1>2. CASE CallSteps \/ DownSteps
  BY <1>2, TakeLockInv, WriteInv, CallEndsInv, EventInv, EndShutdownInv DEF CallSteps, DownSteps
<1>3. ASSUME NEW c \in Conns, Reader(c) PROVE TransportInv'
  BY <1>3, ReadAnswerInv, ReadOtherInv, DeclineInv, ReaderEndInv DEF Reader
<1>4. ASSUME NEW c \in Conns,
             ReaderAborted(c) \/ ChildExited(c) \/ ServerReads(c) \/ ServerSays(c) \/ ServerEnds(c)
      PROVE  TransportInv'
  BY <1>4, ReaderEndInv, ServerReadsInv, ServerSaysInv, ServerEndsInv
<1> QED
  BY <1>1, <1>2, <1>3, <1>4, ConnectInv, EventInv, GiveUpInv, StutterInv DEF TransportNext

\* An answer reaches the call it was given to, or none: not a later call, not a
\* call on the next connection, however late it is and whatever became of the
\* call (timed out, given up, cut off by a shutdown).
THEOREM OwnAnswerCorrect == TransportSpec => []OwnAnswer
<1>1. TransportInv => OwnAnswer
  BY DEF TransportInv, CallKnown, Calls, OwnAnswer
<1> QED
  BY InitInv, TransportStep, <1>1, PTL DEF TransportSpec

-----------------------------------------------------------------------------
\* Who holds what.

Entries == [text : Nat, final : BOOLEAN]
Heards  == [kind : {"note", "delta", "completed", "disconnected", "diagnostic"},
            turn : Nat, text : Nat]
Rpcs    == [pending : SUBSET Nat, open : BOOLEAN, lock : {"free", "caller", "reader"},
            cache : [Turns -> Entries], events : Seq(Heards),
            reader : {"reading", "declining", "closing", "draining", "done"},
            cut : BOOLEAN, watcher : {"waiting", "done"}]
RpcKnown == rpc \in [Conns -> Rpcs]

\* A connection without a use: it holds nothing, and nothing can come to it.
Still(r, alive) ==
  /\ r.pending = {} /\ r.events = << >> /\ ~r.open /\ r.watcher = "done"
  /\ r.cut \/ r.reader = "done"
  /\ ~alive

\* Connection c is r, for a worker whose memory is k.
Fits(k, c, r, alive) ==
  /\ r.lock = "caller" <=> c = k.conn /\ k.call.stage = "writing"
  /\ r.lock = "reader" => r.reader = "declining"
  /\ Len(r.events) <= EventRoom
  /\ r.pending \subseteq 1..k.next - 1
  /\ r.cut \/ c # k.conn \/ (~k.connected /\ k.down = "no") => Still(r, alive)

Owner(k) ==
  /\ k.conn \in 0..MaxConn /\ k.connected \in BOOLEAN
  /\ k.down \in {"no", "locking", "child"}
  /\ k.down # "no" => k.call.stage = "idle" /\ ~k.connected
  /\ k.call.stage # "idle" => k.connected

Links ==
  /\ RpcKnown /\ Owner(caller)
  /\ caller.connected => C # 0 /\ rpc[C].open
  /\ \A c \in Conns : Fits(caller, c, rpc[c], srv[c].alive)

-----------------------------------------------------------------------------
LEMMA RpcUpdates ==
  ASSUME NEW r \in Rpcs
  PROVE  /\ \A p \in SUBSET Nat : [r EXCEPT !.pending = p] \in Rpcs
         /\ \A b \in BOOLEAN : [r EXCEPT !.open = b] \in Rpcs
         /\ \A h \in {"free", "caller", "reader"} : [r EXCEPT !.lock = h] \in Rpcs
         /\ \A m \in [Turns -> Entries] : [r EXCEPT !.cache = m] \in Rpcs
         /\ \A q \in Seq(Heards) : [r EXCEPT !.events = q] \in Rpcs
         /\ \A s \in {"reading", "declining", "closing", "draining", "done"} :
              [r EXCEPT !.reader = s] \in Rpcs
         /\ \A b \in BOOLEAN : [r EXCEPT !.cut = b] \in Rpcs
         /\ \A s \in {"waiting", "done"} : [r EXCEPT !.watcher = s] \in Rpcs
BY DEF Rpcs

LEMMA NewRpcs == FreshRpc \in Rpcs /\ NoRpc \in Rpcs
<1>1. FreshRpc \in Rpcs
  <2>1. [t \in Turns |-> NotCached] \in [Turns -> Entries]
    BY DEF NotCached, Entries, Empty
  <2> QED
    BY <2>1 DEF FreshRpc, Rpcs
<1>2. NoRpc \in Rpcs
  <2> DEFINE r1 == [FreshRpc EXCEPT !.open = FALSE]
             r2 == [r1 EXCEPT !.reader = "done"]
  <2>1. NoRpc = [r2 EXCEPT !.watcher = "done"]
    BY DEF NoRpc
  <2>2. r1 \in Rpcs
    BY <1>1, RpcUpdates
  <2> HIDE DEF r1
  <2>3. r2 \in Rpcs
    BY <2>2, RpcUpdates
  <2> HIDE DEF r2
  <2> QED
    BY <2>1, <2>3, RpcUpdates
<1> QED
  BY <1>1, <1>2

LEMMA NoRpcIs ==
  /\ NoRpc.pending = {} /\ NoRpc.open = FALSE /\ NoRpc.lock = "free"
  /\ NoRpc.events = << >> /\ NoRpc.reader = "done" /\ NoRpc.cut = FALSE
  /\ NoRpc.watcher = "done"
BY DEF NoRpc, FreshRpc

\* A step that leaves the worker's call and connection as they are and changes
\* connection c to r.
Steady ==
  /\ caller'.conn = caller.conn /\ caller'.connected = caller.connected
  /\ caller'.down = caller.down /\ caller'.next = caller.next
  /\ caller'.call.stage = caller.call.stage

LEMMA LinkStep ==
  ASSUME Links, NEW c \in Conns, NEW r \in Rpcs, rpc' = [rpc EXCEPT ![c] = r],
         Steady, \A d \in Conns : srv'[d].alive => srv[d].alive,
         r.open = rpc[c].open, Fits(caller, c, r, srv[c].alive)
  PROVE  Links'
<1>1. RpcKnown'
  BY DEF Links, RpcKnown
<1>2. rpc'[c] = r /\ \A d \in Conns \ {c} : rpc'[d] = rpc[d]
  BY DEF Links, RpcKnown
<1>3. Owner(caller')
  BY DEF Links, Owner, Steady, C
<1>4. caller'.connected => caller'.conn # 0 /\ rpc'[caller'.conn].open
  <2>1. caller.connected => C \in Conns
    BY TransportAssumption DEF Links, Owner, Conns, C
  <2> QED
    BY <1>2, <2>1 DEF Links, Steady, C
<1>5. ASSUME NEW d \in Conns PROVE Fits(caller', d, rpc'[d], srv'[d].alive)
  BY <1>2 DEF Links, Fits, Still, Steady, C
<1> QED
  BY <1>1, <1>3, <1>4, <1>5 DEF Links, C

\* A step of the worker on its own connection.
LEMMA CallerStep ==
  ASSUME Links, CallKnown, NEW r, C \in Conns => r \in Rpcs, rpc' = [rpc EXCEPT ![C] = r],
         caller'.conn = C, Owner(caller'), caller'.next \in Nat,
         caller'.next >= caller.next,
         \A d \in Conns \ {C} : srv'[d].alive = srv[d].alive,
         C \in Conns => Fits(caller', C, r, srv'[C].alive),
         caller'.connected => C # 0 /\ r.open
  PROVE  Links'
<1>1. RpcKnown'
  BY DEF Links, RpcKnown
<1>2. /\ C \in Conns => rpc'[C] = r
      /\ \A d \in Conns \ {C} : rpc'[d] = rpc[d]
  BY DEF Links, RpcKnown
<1>3. caller'.connected => caller'.conn # 0 /\ rpc'[caller'.conn].open
  <2>1. caller'.connected => C \in Conns
    BY TransportAssumption DEF Links, Owner, Conns, C
  <2> QED
    BY <1>2, <2>1 DEF C
<1>4. ASSUME NEW d \in Conns \ {C} PROVE Fits(caller', d, rpc'[d], srv'[d].alive)
  <2>1. Fits(caller, d, rpc[d], srv[d].alive) /\ caller.next \in Nat
    BY DEF Links, CallKnown
  <2> QED
    BY <1>2, <1>4, <2>1 DEF Fits, Still, C
<1>5. C \in Conns => Fits(caller', C, rpc'[C], srv'[C].alive)
  BY <1>2
<1> QED
  BY <1>1, <1>3, <1>4, <1>5 DEF Links, C

-----------------------------------------------------------------------------
\* What a reader's step makes of its connection x.
Gone(x, state) ==
  IF x.cut THEN [NoRpc EXCEPT !.cache = x.cache] ELSE [x EXCEPT !.reader = state]

ReaderStates == {"reading", "declining", "closing", "draining", "done"}

LEMMA GoesReading ==
  /\ "reading" \in ReaderStates /\ "draining" \in ReaderStates
  /\ \A state \in {"reading", "declining", "closing"} : state \in ReaderStates
BY DEF ReaderStates

LEMMA GoesIs ==
  ASSUME Links, NEW c \in Conns, NEW x \in Rpcs, NEW state \in ReaderStates,
         rpc' = Goes(c, [rpc EXCEPT ![c] = x], state)
  PROVE  rpc' = [rpc EXCEPT ![c] = Gone(x, state)]
<1> DEFINE r == [rpc EXCEPT ![c] = x]
<1>1. r[c] = x
  BY DEF Links, RpcKnown
<1>2. \A y : [r EXCEPT ![c] = y] = [rpc EXCEPT ![c] = y]
  BY DEF Links, RpcKnown
<1>3. CASE x.cut
  <2>1. Goes(c, r, state) = [r EXCEPT ![c] = [NoRpc EXCEPT !.cache = x.cache]]
    BY <1>1, <1>3 DEF Goes
  <2> QED
    BY <1>2, <1>3, <2>1 DEF Gone
<1>4. CASE ~x.cut
  <2>1. Goes(c, r, state) = [r EXCEPT ![c] = [x EXCEPT !.reader = state]]
    BY <1>1, <1>4 DEF Goes
  <2> QED
    BY <1>2, <1>4, <2>1 DEF Gone
<1> QED
  BY <1>3, <1>4

LEMMA ReadsOn ==
  ASSUME Links, NEW c \in Conns, NEW x \in Rpcs,
         rpc' = Goes(c, [rpc EXCEPT ![c] = x], "reading")
  PROVE  rpc' = [rpc EXCEPT ![c] = Gone(x, "reading")]
BY GoesIs, GoesReading

LEMMA Drains ==
  ASSUME Links, NEW c \in Conns, NEW x \in Rpcs,
         rpc' = Goes(c, [rpc EXCEPT ![c] = x], "draining")
  PROVE  rpc' = [rpc EXCEPT ![c] = Gone(x, "draining")]
BY GoesIs, GoesReading

\* r is a connection that an aborted reader left, or x with its reader in state.
Left(r) ==
  /\ r.pending = {} /\ r.open = FALSE /\ r.lock = "free" /\ r.events = << >>
  /\ r.reader = "done" /\ r.cut = FALSE /\ r.watcher = "done"
Resumed(r, x, state) ==
  /\ r.pending = x.pending /\ r.open = x.open /\ r.lock = x.lock /\ r.events = x.events
  /\ r.reader = state /\ r.cut = FALSE /\ r.watcher = x.watcher

LEMMA GoneIs ==
  ASSUME NEW x \in Rpcs, NEW state \in ReaderStates
  PROVE  /\ Gone(x, state) \in Rpcs
         /\ x.cut => Left(Gone(x, state))
         /\ ~x.cut => Resumed(Gone(x, state), x, state)
<1>1. CASE x.cut
  <2> DEFINE y == [NoRpc EXCEPT !.cache = x.cache]
  <2>1. x.cache \in [Turns -> Entries]
    BY DEF Rpcs
  <2>2. y \in Rpcs
    BY <2>1, NewRpcs, RpcUpdates
  <2>3. /\ y.pending = NoRpc.pending /\ y.open = NoRpc.open /\ y.lock = NoRpc.lock
        /\ y.events = NoRpc.events /\ y.reader = NoRpc.reader /\ y.cut = NoRpc.cut
        /\ y.watcher = NoRpc.watcher
    BY DEF NoRpc, FreshRpc
  <2> QED
    BY <1>1, <2>2, <2>3, NoRpcIs DEF Gone, Left
<1>2. CASE ~x.cut
  <2> DEFINE y == [x EXCEPT !.reader = state]
  <2>1. y \in Rpcs
    BY RpcUpdates DEF ReaderStates
  <2>2. /\ y.pending = x.pending /\ y.open = x.open /\ y.lock = x.lock
        /\ y.events = x.events /\ y.reader = state /\ y.cut = x.cut
        /\ y.watcher = x.watcher
    BY DEF Rpcs
  <2>3. x.cut = FALSE
    BY <1>2 DEF Rpcs
  <2> QED
    BY <1>2, <2>1, <2>2, <2>3 DEF Gone, Resumed
<1> QED
  BY <1>1, <1>2

\* A step of the reader of c: an aborted one leaves the connection still.
LEMMA ReaderStep ==
  ASSUME Links, NEW c \in Conns, NEW x \in Rpcs, NEW state \in ReaderStates,
         rpc' = [rpc EXCEPT ![c] = Gone(x, state)], rpc[c].reader # "done",
         x.pending \subseteq rpc[c].pending, x.open = rpc[c].open, x.cut = rpc[c].cut,
         x.watcher = rpc[c].watcher, Len(x.events) <= EventRoom,
         x.lock = "caller" <=> rpc[c].lock = "caller",
         x.lock = "reader" => state = "declining",
         Steady, \A d \in Conns : srv'[d].alive => srv[d].alive
  PROVE  Links'
<1> DEFINE r == Gone(x, state)
<1>1. Fits(caller, c, rpc[c], srv[c].alive) /\ rpc[c] \in Rpcs /\ Owner(caller)
      /\ (caller.connected => rpc[C].open)
  BY DEF Links, RpcKnown
<1>2. r \in Rpcs
  BY GoneIs
<1>3. CASE x.cut
  <2>1. Still(rpc[c], srv[c].alive)
    BY <1>1, <1>3 DEF Fits
  <2>2. ~(c = C /\ caller.call.stage = "writing")
    BY <1>1, <2>1 DEF Still, Owner, C
  <2>3. Left(r)
    BY <1>3, GoneIs
  <2> HIDE DEF r
  <2>4. Fits(caller, c, r, srv[c].alive)
    BY <2>1, <2>2, <2>3, TransportAssumption DEF Fits, Still, Left, C
  <2>5. r.open = rpc[c].open
    BY <1>1, <2>1, <2>3 DEF Still, Left, Rpcs
  <2> QED
    BY <1>2, <2>4, <2>5, LinkStep DEF r
<1>4. CASE ~x.cut
  <2>1. Resumed(r, x, state)
    BY <1>4, GoneIs
  <2>2. ~Still(rpc[c], srv[c].alive)
    BY <1>4 DEF Still
  <2> HIDE DEF r
  <2>3. Fits(caller, c, r, srv[c].alive)
    BY <1>1, <2>1, <2>2 DEF Fits, Resumed
  <2> QED
    BY <1>2, <2>1, <2>3, LinkStep DEF r, Resumed
<1> QED
  BY <1>3, <1>4

\* An event is sent: x is the connection with it, unless nobody listens.
SentTo(x, e) == IF x.cut THEN x ELSE [x EXCEPT !.events = Append(@, e)]

LEMMA SentIs ==
  ASSUME Links, NEW c \in Conns, NEW e \in Heards
  PROVE  /\ Sent(c, e) = [rpc EXCEPT ![c] = SentTo(rpc[c], e)]
         /\ TrySent(c, e) = [rpc EXCEPT ![c] = IF Room(c) THEN SentTo(rpc[c], e) ELSE rpc[c]]
         /\ SentTo(rpc[c], e) \in Rpcs
         /\ SentTo(rpc[c], e).pending = rpc[c].pending
         /\ SentTo(rpc[c], e).open = rpc[c].open
         /\ SentTo(rpc[c], e).lock = rpc[c].lock
         /\ SentTo(rpc[c], e).reader = rpc[c].reader
         /\ SentTo(rpc[c], e).cut = rpc[c].cut
         /\ SentTo(rpc[c], e).watcher = rpc[c].watcher
         /\ SentTo(rpc[c], e).cache = rpc[c].cache
         /\ SentTo(rpc[c], e).events =
              IF rpc[c].cut THEN rpc[c].events ELSE Append(rpc[c].events, e)
         /\ Room(c) => Len(SentTo(rpc[c], e).events) <= EventRoom
<1> DEFINE q == Append(rpc[c].events, e)
           y == [rpc[c] EXCEPT !.events = q]
<1>1. rpc[c] \in Rpcs /\ rpc = [rpc EXCEPT ![c] = rpc[c]]
  BY DEF Links, RpcKnown
<1>2. q \in Seq(Heards) /\ Len(q) = Len(rpc[c].events) + 1 /\ Len(rpc[c].events) \in Nat
  <2>1. rpc[c].events \in Seq(Heards)
    BY <1>1 DEF Rpcs
  <2> QED
    BY <2>1, AppendProperties
<1>3. Len(rpc[c].events) <= EventRoom /\ EventRoom \in Nat
  BY TransportAssumption DEF Links, Fits
<1>4. Sent(c, e) = [rpc EXCEPT ![c] = SentTo(rpc[c], e)]
  BY <1>1 DEF Sent, SentTo
<1>5. TrySent(c, e) = [rpc EXCEPT ![c] = IF Room(c) THEN SentTo(rpc[c], e) ELSE rpc[c]]
  BY <1>1, <1>4 DEF TrySent
<1>6. SentTo(rpc[c], e) = IF rpc[c].cut THEN rpc[c] ELSE y
  BY DEF SentTo
<1>7. Room(c) /\ ~rpc[c].cut => Len(q) <= EventRoom
  BY <1>2, <1>3 DEF Room
<1> HIDE DEF q
<1>8. y \in Rpcs
  BY <1>1, <1>2, RpcUpdates
<1>9. /\ y.pending = rpc[c].pending /\ y.open = rpc[c].open /\ y.lock = rpc[c].lock
      /\ y.reader = rpc[c].reader /\ y.cut = rpc[c].cut /\ y.watcher = rpc[c].watcher
      /\ y.cache = rpc[c].cache /\ y.events = q
  BY <1>1 DEF Rpcs
<1> HIDE DEF y
<1> QED
  BY <1>1, <1>3, <1>4, <1>5, <1>6, <1>7, <1>8, <1>9 DEF q

-----------------------------------------------------------------------------
\* The steps.

LEMMA InitLinks == TransportInit => Links
<1> SUFFICES ASSUME TransportInit PROVE Links
  OBVIOUS
<1>1. RpcKnown
  BY NewRpcs DEF TransportInit, RpcKnown
<1>2. /\ caller.conn = 0 /\ caller.connected = FALSE /\ caller.down = "no"
      /\ caller.call.stage = "idle" /\ caller.next = 1
  BY DEF TransportInit, Idle
<1>3. Owner(caller)
  <2>1. caller.conn \in 0..MaxConn
    BY <1>2, TransportAssumption
  <2>2. caller.connected \in BOOLEAN
    BY <1>2
  <2> QED
    BY <1>2, <2>1, <2>2 DEF Owner
<1>4. ASSUME NEW c \in Conns PROVE Fits(caller, c, rpc[c], srv[c].alive)
  <2>1. rpc[c] = NoRpc /\ srv[c].alive = FALSE
    BY DEF TransportInit, NoSrv, FreshSrv
  <2> QED
    BY <1>2, <2>1, NoRpcIs, TransportAssumption DEF Fits, Still
<1> QED
  BY <1>1, <1>2, <1>3, <1>4 DEF Links

\* What a step of the worker knows of its connection.
LEMMA Own ==
  ASSUME TransportInv, Links
  PROVE  /\ Owner(caller) /\ caller.next \in Nat \ {0}
         /\ DOMAIN caller = {"conn", "connected", "call", "down", "next", "heard",
                             "theme", "left"}
         /\ caller.call \in Calls
         /\ caller.connected => C \in Conns
         /\ C \in Conns => rpc[C] \in Rpcs /\ Fits(caller, C, rpc[C], srv[C].alive)
         /\ caller.connected => ~Still(rpc[C], srv[C].alive)
BY TransportAssumption DEF TransportInv, CallKnown, Links, RpcKnown, Owner, Conns, C, Still

LEMMA RequestLinks ==
  ASSUME TransportInv, Links, NEW kind \in Requests, Request(kind) PROVE Links'
<1> DEFINE call == StartCall(kind)
           ids == rpc[C].pending \cup {caller.next}
           r == [rpc[C] EXCEPT !.pending = ids]
<1>1. /\ caller.call.stage = "idle" /\ caller.connected /\ srv' = srv
      /\ caller' = [caller EXCEPT !.call = call, !.next = caller.next + 1]
      /\ rpc' = [rpc EXCEPT ![C] = r]
  <2>1. Ids(call) = {caller.next}
    BY DEF Ids, StartCall, NextId, Requests
  <2> HIDE DEF call
  <2> QED
    BY <2>1 DEF Request, Ready, Idle, call
<1>2. call.stage = "locking"
  BY DEF StartCall
<1> HIDE DEF call
<1>3. /\ caller'.conn = caller.conn /\ caller'.connected = caller.connected
      /\ caller'.down = caller.down /\ caller'.next = caller.next + 1
      /\ caller'.call.stage = "locking"
  BY <1>1, <1>2, Own
<1>4. C \in Conns /\ rpc[C] \in Rpcs /\ Fits(caller, C, rpc[C], srv[C].alive)
      /\ ~Still(rpc[C], srv[C].alive) /\ caller.next \in Nat \ {0} /\ Owner(caller)
  BY <1>1, Own
<1>5. ids \in SUBSET Nat
  BY <1>4 DEF Rpcs
<1>6. /\ r.lock = rpc[C].lock /\ r.reader = rpc[C].reader /\ r.events = rpc[C].events
      /\ r.pending = ids /\ r.cut = rpc[C].cut /\ r.open = rpc[C].open
  BY <1>4 DEF Rpcs
<1>7. r \in Rpcs
  BY <1>4, <1>5, RpcUpdates
<1> HIDE DEF r
<1>8. ids \subseteq 1..caller'.next - 1
  BY <1>3, <1>4 DEF Fits
<1> HIDE DEF ids
<1>9. Fits(caller', C, r, srv'[C].alive)
  BY <1>1, <1>3, <1>4, <1>6, <1>8 DEF Fits, C
<1>10. Owner(caller')
  BY <1>1, <1>3, <1>4 DEF Owner
<1>11. rpc[C].open /\ C # 0 /\ CallKnown
  BY <1>1 DEF Links, TransportInv
<1>12. caller'.conn = C /\ caller'.next \in Nat /\ caller'.next >= caller.next
  BY <1>3, <1>4 DEF C
<1>13. \A d \in Conns \ {C} : srv'[d].alive = srv[d].alive
  BY <1>1
<1> QED
  BY <1>1, <1>6, <1>7, <1>9, <1>10, <1>11, <1>12, <1>13, CallerStep

LEMMA ConnectLinks == TransportInv /\ Links /\ Connect => Links'
<1> SUFFICES ASSUME TransportInv, Links, Connect PROVE Links'
  OBVIOUS
<1> DEFINE c == C + 1
           call == StartCall("initialize")
           r == [FreshRpc EXCEPT !.pending = {caller.next}]
<1>1. /\ caller.call.stage = "idle" /\ caller.down = "no" /\ ~caller.connected /\ C < MaxConn
      /\ caller' = [caller EXCEPT !.conn = c, !.connected = TRUE, !.call = call,
                                  !.next = caller.next + 1]
      /\ rpc' = [rpc EXCEPT ![c] = r] /\ srv' = [srv EXCEPT ![c] = FreshSrv]
  BY DEF Connect, Ready, Idle, Ids, StartCall, NextId, Requests, SpawnIo
<1>2. call.stage = "locking"
  BY DEF StartCall
<1>3. c \in Conns /\ c # 0 /\ c # C
  BY <1>1, Own, TransportAssumption DEF Owner, C, Conns
<1>4. r \in Rpcs
  <2>1. {caller.next} \in SUBSET Nat
    BY Own
  <2> QED
    BY <2>1, NewRpcs, RpcUpdates
<1>5. /\ r.lock = "free" /\ r.reader = "reading" /\ r.events = << >>
      /\ r.pending = {caller.next} /\ r.cut = FALSE /\ r.open = TRUE
  BY DEF FreshRpc
<1> HIDE DEF call, c, r
<1>6. /\ caller'.conn = c /\ caller'.connected = TRUE /\ caller'.down = "no"
      /\ caller'.next = caller.next + 1 /\ caller'.call.stage = "locking"
  BY <1>1, <1>2, Own
<1>7. RpcKnown'
  BY <1>1, <1>4 DEF Links, RpcKnown
<1>8. rpc'[c] = r /\ \A d \in Conns \ {c} : rpc'[d] = rpc[d]
  BY <1>1, <1>3 DEF Links, RpcKnown
<1>9. \A d \in Conns \ {c} : srv'[d] = srv[d]
  BY <1>1 DEF TransportInv, PipesKnown
<1>10. ASSUME NEW d \in Conns \ {c} PROVE Fits(caller', d, rpc'[d], srv'[d].alive)
  <2>1. Fits(caller, d, rpc[d], srv[d].alive) /\ caller.next \in Nat
    BY Own DEF Links
  <2>2. Still(rpc[d], srv[d].alive)
    BY <1>1, <2>1 DEF Fits, C
  <2> QED
    BY <1>1, <1>6, <1>8, <1>9, <1>10, <2>1, <2>2 DEF Fits
<1>11. Fits(caller', c, rpc'[c], srv'[c].alive)
  <2>1. caller.next \in Nat \ {0} /\ EventRoom \in Nat /\ Len(<< >>) = 0
    BY Own, TransportAssumption
  <2> QED
    BY <1>5, <1>6, <1>8, <2>1 DEF Fits
<1>12. Owner(caller')
  <2>1. c \in 0..MaxConn /\ TRUE \in BOOLEAN
    BY <1>3, TransportAssumption DEF Conns
  <2>2. caller'.connected
    BY <1>6
  <2> QED
    BY <1>6, <2>1, <2>2 DEF Owner
<1>13. \A d \in Conns : Fits(caller', d, rpc'[d], srv'[d].alive)
  BY <1>10, <1>11
<1> QED
  BY <1>3, <1>5, <1>6, <1>7, <1>8, <1>12, <1>13 DEF Links, C

LEMMA TakeLockLinks == TransportInv /\ Links /\ TakeLock => Links'
<1> SUFFICES ASSUME TransportInv, Links, TakeLock PROVE Links'
  OBVIOUS
<1> DEFINE r == [rpc[C] EXCEPT !.lock = "caller"]
<1>1. /\ caller.call.stage = "locking" /\ rpc[C].lock = "free" /\ srv' = srv
      /\ caller' = [caller EXCEPT !.call = [caller.call EXCEPT !.stage = "writing"]]
      /\ rpc' = [rpc EXCEPT ![C] = r]
  BY DEF TakeLock
<1>2. caller.connected
  BY <1>1, Own DEF Owner
<1>3. /\ C \in Conns /\ rpc[C] \in Rpcs /\ Fits(caller, C, rpc[C], srv[C].alive)
      /\ ~Still(rpc[C], srv[C].alive) /\ Owner(caller) /\ caller.next \in Nat
  BY <1>2, Own
<1>4. r \in Rpcs
  BY <1>3, RpcUpdates
<1>5. /\ r.lock = "caller" /\ r.reader = rpc[C].reader /\ r.events = rpc[C].events
      /\ r.pending = rpc[C].pending /\ r.cut = rpc[C].cut /\ r.open = rpc[C].open
  BY <1>3 DEF Rpcs
<1>6. /\ caller'.conn = caller.conn /\ caller'.connected = caller.connected
      /\ caller'.down = caller.down /\ caller'.next = caller.next
      /\ caller'.call.stage = "writing"
  <2>1. DOMAIN caller.call = {"kind", "id", "serial", "stage", "reply"}
    BY Own DEF Calls
  <2> QED
    BY <1>1, <2>1, Own
<1> HIDE DEF r
<1>7. Fits(caller', C, r, srv'[C].alive)
  BY <1>1, <1>2, <1>3, <1>5, <1>6 DEF Fits, C
<1>8. Owner(caller')
  BY <1>2, <1>3, <1>6 DEF Owner
<1>9. rpc[C].open /\ C # 0 /\ CallKnown
  BY <1>2 DEF Links, TransportInv
<1>10. caller'.conn = C /\ caller'.next \in Nat /\ caller'.next >= caller.next
  BY <1>3, <1>6 DEF C
<1>11. \A d \in Conns \ {C} : srv'[d].alive = srv[d].alive
  BY <1>1
<1> QED
  BY <1>1, <1>4, <1>5, <1>7, <1>8, <1>9, <1>10, <1>11, CallerStep

\* A step of a connected worker after which it is not in the middle of a line.
LEMMA OwnStep ==
  ASSUME TransportInv, Links, caller.connected, NEW r \in Rpcs,
         rpc' = [rpc EXCEPT ![C] = r], caller'.conn = caller.conn, Owner(caller'),
         caller'.next = caller.next, caller'.call.stage # "writing",
         caller'.connected \/ caller'.down # "no",
         r.lock # "caller", r.lock = "reader" => r.reader = "declining",
         Len(r.events) <= EventRoom, r.pending \subseteq rpc[C].pending,
         r.cut = rpc[C].cut, r.open = rpc[C].open,
         \A d \in Conns : srv'[d].alive = srv[d].alive
  PROVE  Links'
<1>1. /\ C \in Conns /\ rpc[C] \in Rpcs /\ Fits(caller, C, rpc[C], srv[C].alive)
      /\ ~Still(rpc[C], srv[C].alive) /\ caller.next \in Nat
  BY Own
<1>2. ~r.cut
  BY <1>1 DEF Fits
<1>3. Fits(caller', C, r, srv'[C].alive)
  BY <1>1, <1>2 DEF Fits, C
<1>4. C # 0 /\ rpc[C].open /\ CallKnown
  BY DEF Links, TransportInv
<1>5. caller'.conn = C /\ caller'.next \in Nat /\ caller'.next >= caller.next
  BY <1>1 DEF C
<1>6. \A d \in Conns \ {C} : srv'[d].alive = srv[d].alive
  OBVIOUS
<1> QED
  BY <1>3, <1>4, <1>5, <1>6, CallerStep

LEMMA EndedIs ==
  ASSUME TransportInv, Links, caller.call.stage # "idle", NEW ok \in BOOLEAN,
         caller' = Ended(ok)
  PROVE  /\ caller.connected
         /\ caller'.conn = caller.conn /\ caller'.next = caller.next
         /\ Owner(caller') /\ caller'.call.stage # "writing"
         /\ caller'.connected \/ caller'.down # "no"
<1>1. /\ Owner(caller) /\ caller.connected /\ caller.down = "no"
      /\ DOMAIN caller = {"conn", "connected", "call", "down", "next", "heard",
                          "theme", "left"}
  BY Own DEF Owner
<1>2. Idle.stage = "idle" /\ StartCall("initialized").stage = "locking"
  BY DEF Idle, StartCall
<1>3. \/ caller' = [caller EXCEPT !.call = StartCall("initialized")]
      \/ caller' = [caller EXCEPT !.call = Idle, !.connected = FALSE, !.down = "locking"]
      \/ caller' = [caller EXCEPT !.call = Idle]
  BY DEF Ended
<1> HIDE DEF Idle
<1>4. \/ /\ caller'.call.stage = "locking" /\ caller'.connected = caller.connected
         /\ caller'.down = caller.down
      \/ /\ caller'.call.stage = "idle" /\ caller'.connected = FALSE
         /\ caller'.down = "locking"
      \/ /\ caller'.call.stage = "idle" /\ caller'.connected = caller.connected
         /\ caller'.down = caller.down
  BY <1>1, <1>2, <1>3
<1>5. caller'.conn = caller.conn /\ caller'.next = caller.next
  BY <1>1, <1>3
<1>6. Owner(caller')
  BY <1>1, <1>4, <1>5 DEF Owner
<1> QED
  BY <1>1, <1>4, <1>5, <1>6

\* The connection after a step that lets go of the lock, or leaves it alone.
LEMMA OwnRpc ==
  ASSUME TransportInv, Links, caller.connected
  PROVE  LET free == [rpc[C] EXCEPT !.lock = "free"]
             gone == [free EXCEPT !.pending = @ \ {caller.call.id}]
             less == [rpc[C] EXCEPT !.pending = @ \ {caller.call.id}]
         IN /\ rpc[C] \in Rpcs /\ free \in Rpcs /\ gone \in Rpcs /\ less \in Rpcs
            /\ rpc = [rpc EXCEPT ![C] = rpc[C]]
            /\ \A r \in {free, gone, less} :
                 /\ r.reader = rpc[C].reader /\ r.events = rpc[C].events
                 /\ r.pending \subseteq rpc[C].pending
                 /\ r.cut = rpc[C].cut /\ r.open = rpc[C].open
            /\ free.lock = "free" /\ gone.lock = "free" /\ less.lock = rpc[C].lock
            /\ Len(rpc[C].events) <= EventRoom
            /\ rpc[C].lock = "reader" => rpc[C].reader = "declining"
            /\ caller.call.stage # "writing" => rpc[C].lock # "caller"
<1> DEFINE free == [rpc[C] EXCEPT !.lock = "free"]
           some == rpc[C].pending \ {caller.call.id}
           gone == [free EXCEPT !.pending = some]
           less == [rpc[C] EXCEPT !.pending = some]
<1>1. rpc[C] \in Rpcs /\ some \in SUBSET Nat /\ C \in Conns
  BY Own DEF Rpcs
<1>2. free \in Rpcs /\ free.lock = "free" /\ free.pending = rpc[C].pending
      /\ free.reader = rpc[C].reader /\ free.events = rpc[C].events
      /\ free.cut = rpc[C].cut /\ free.open = rpc[C].open
  <2>1. free \in Rpcs
    BY <1>1, RpcUpdates
  <2> QED
    BY <1>1, <2>1 DEF Rpcs
<1>3. less \in Rpcs /\ less.lock = rpc[C].lock /\ less.pending = some
      /\ less.reader = rpc[C].reader /\ less.events = rpc[C].events
      /\ less.cut = rpc[C].cut /\ less.open = rpc[C].open
  <2>1. less \in Rpcs
    BY <1>1, RpcUpdates
  <2> QED
    BY <1>1, <2>1 DEF Rpcs
<1> HIDE DEF free, less
<1>4. gone \in Rpcs /\ gone.lock = free.lock /\ gone.pending = some
      /\ gone.reader = free.reader /\ gone.events = free.events
      /\ gone.cut = free.cut /\ gone.open = free.open
  <2>1. gone \in Rpcs
    BY <1>1, <1>2, RpcUpdates
  <2> QED
    BY <1>2, <2>1 DEF Rpcs
<1>5. gone = [free EXCEPT !.pending = @ \ {caller.call.id}]
  BY <1>2
<1> HIDE DEF gone
<1>6. rpc = [rpc EXCEPT ![C] = rpc[C]]
  BY <1>1 DEF Links, RpcKnown
<1>7. Fits(caller, C, rpc[C], srv[C].alive)
  BY <1>1 DEF Links
<1>8. /\ Len(rpc[C].events) <= EventRoom
      /\ rpc[C].lock = "reader" => rpc[C].reader = "declining"
      /\ caller.call.stage # "writing" => rpc[C].lock # "caller"
  BY <1>7 DEF Fits
<1>9. \A r \in {free, gone, less} :
                 /\ r.reader = rpc[C].reader /\ r.events = rpc[C].events
                 /\ r.pending \subseteq rpc[C].pending
                 /\ r.cut = rpc[C].cut /\ r.open = rpc[C].open
  BY <1>2, <1>3, <1>4
<1> QED
  BY <1>1, <1>2, <1>3, <1>4, <1>5, <1>6, <1>8, <1>9 DEF free, less

LEMMA WriteLinks == TransportInv /\ Links /\ Write => Links'
<1> SUFFICES ASSUME TransportInv, Links, Write PROVE Links'
  OBVIOUS
<1> DEFINE free == [rpc[C] EXCEPT !.lock = "free"]
           gone == [free EXCEPT !.pending = @ \ {caller.call.id}]
<1>1. caller.call.stage = "writing" /\ caller.connected
  BY Own DEF Write, Owner
<1>2. PICK r \in {free, gone} : rpc' = [rpc EXCEPT ![C] = r]
  <2>1. CASE srv[C].alive
    BY <2>1 DEF Write
  <2>2. CASE ~srv[C].alive
    <3>1. gone = [rpc[C] EXCEPT !.lock = "free", !.pending = @ \ {caller.call.id}]
      BY <1>1, OwnRpc DEF Rpcs
    <3> QED
      BY <2>2, <3>1 DEF Write
  <2> QED
    BY <2>1, <2>2
<1>3. /\ r \in Rpcs /\ r.lock = "free" /\ Len(r.events) <= EventRoom
      /\ r.pending \subseteq rpc[C].pending /\ r.cut = rpc[C].cut /\ r.open = rpc[C].open
  BY <1>1, OwnRpc
<1>4. \A d \in Conns : srv'[d].alive = srv[d].alive
  <2> DEFINE s == srv[C]
             line == [id |-> caller.call.id, serial |-> caller.call.serial]
             s1 == [s EXCEPT !.partial = FALSE]
             s2 == [s EXCEPT !.stdin = Append(@, line)]
  <2>1. C \in Conns /\ s \in Servers /\ srv \in [Conns -> Servers]
    BY <1>1, Own DEF TransportInv, PipesKnown
  <2>2. s1.alive = s.alive /\ s2.alive = s.alive
    BY <2>1 DEF Servers
  <2>3. srv' = srv \/ srv' = [srv EXCEPT ![C] = s1] \/ srv' = [srv EXCEPT ![C] = s2]
    BY DEF Write, Line
  <2> HIDE DEF s1, s2
  <2> QED
    BY <2>1, <2>2, <2>3
<1>5. /\ caller'.conn = caller.conn /\ caller'.next = caller.next
      /\ Owner(caller') /\ caller'.call.stage # "writing"
      /\ caller'.connected \/ caller'.down # "no"
  <2>1. CASE caller' = [caller EXCEPT !.call.stage = "waiting"]
    <3>1. DOMAIN caller.call = {"kind", "id", "serial", "stage", "reply"}
      BY Own DEF Calls
    <3>2. /\ caller'.conn = caller.conn /\ caller'.next = caller.next
          /\ caller'.call.stage = "waiting" /\ caller'.down = caller.down
          /\ caller'.connected = caller.connected
      BY <2>1, <3>1, Own
    <3> QED
      BY <1>1, <3>2, Own DEF Owner
  <2>2. CASE caller' = Ended(TRUE) \/ caller' = Ended(FALSE)
    BY <1>1, <2>2, EndedIs
  <2> QED
    BY <2>1, <2>2 DEF Write
<1> HIDE DEF free, gone
<1> QED
  BY <1>1, <1>2, <1>3, <1>4, <1>5, OwnStep

LEMMA CallEndsLinks == TransportInv /\ Links /\ (Answered \/ TimedOut) => Links'
<1> SUFFICES ASSUME TransportInv, Links, Answered \/ TimedOut PROVE Links'
  OBVIOUS
<1> DEFINE less == [rpc[C] EXCEPT !.pending = @ \ {caller.call.id}]
<1>1. caller.call.stage = "waiting" /\ caller.connected
  BY Own DEF Answered, TimedOut, Owner
<1>2. PICK ok \in BOOLEAN : caller' = Ended(ok)
  <2>1. CASE Answered
    <3>1. (caller.call.reply > 0) \in BOOLEAN
      OBVIOUS
    <3> QED
      BY <2>1, <3>1 DEF Answered
  <2>2. CASE TimedOut
    BY <2>2 DEF TimedOut
  <2> QED
    BY <2>1, <2>2
<1>3. PICK r \in {rpc[C], less} : rpc' = [rpc EXCEPT ![C] = r]
  <2>1. CASE Answered
    BY <1>1, <2>1, OwnRpc DEF Answered
  <2>2. CASE TimedOut
    BY <2>2 DEF TimedOut
  <2> QED
    BY <2>1, <2>2
<1>4. /\ caller'.conn = caller.conn /\ caller'.next = caller.next
      /\ Owner(caller') /\ caller'.call.stage # "writing"
      /\ caller'.connected \/ caller'.down # "no"
  BY <1>1, <1>2, EndedIs
<1>5. /\ r \in Rpcs /\ r.lock # "caller" /\ Len(r.events) <= EventRoom
      /\ r.pending \subseteq rpc[C].pending /\ r.cut = rpc[C].cut /\ r.open = rpc[C].open
      /\ r.lock = "reader" => r.reader = "declining"
  BY <1>1, OwnRpc
<1>6. \A d \in Conns : srv'[d].alive = srv[d].alive
  BY DEF Answered, TimedOut
<1> HIDE DEF less
<1> QED
  BY <1>1, <1>3, <1>4, <1>5, <1>6, OwnStep

LEMMA GiveUpLinks == TransportInv /\ Links /\ GiveUp => Links'
<1> SUFFICES ASSUME TransportInv, Links, GiveUp PROVE Links'
  OBVIOUS
<1> DEFINE free == [rpc[C] EXCEPT !.lock = "free"]
<1>1. /\ caller'.conn = caller.conn /\ caller'.next = caller.next
      /\ caller'.connected = caller.connected /\ caller'.down = caller.down
      /\ caller'.call.stage = "idle"
  <2>1. Idle.stage = "idle" /\ caller' = [caller EXCEPT !.call = Idle]
    BY DEF GiveUp, Idle
  <2> HIDE DEF Idle
  <2> QED
    BY <2>1, Own
<1>2. Owner(caller')
  BY <1>1, Own DEF Owner
<1>3. \A d \in Conns : srv'[d].alive = srv[d].alive
  <2>1. srv' = srv \/ srv' = [srv EXCEPT ![C].partial = TRUE, ![C].torn = TRUE]
    BY DEF GiveUp
  <2>2. CASE srv' = [srv EXCEPT ![C].partial = TRUE, ![C].torn = TRUE]
    <3>1. srv \in [Conns -> Servers]
      BY DEF TransportInv, PipesKnown
    <3> QED
      BY <2>2, <3>1 DEF Servers
  <2> QED
    BY <2>1, <2>2
<1>4. CASE caller.connected
  <2>1. PICK r \in {rpc[C], free} :
          /\ rpc' = [rpc EXCEPT ![C] = r]
          /\ caller.call.stage = "writing" => r = free
    BY <1>4, OwnRpc DEF GiveUp
  <2>2. /\ r \in Rpcs /\ r.lock # "caller" /\ Len(r.events) <= EventRoom
        /\ r.pending \subseteq rpc[C].pending /\ r.cut = rpc[C].cut /\ r.open = rpc[C].open
        /\ r.lock = "reader" => r.reader = "declining"
    BY <1>4, <2>1, OwnRpc
  <2> HIDE DEF free
  <2> QED
    BY <1>1, <1>2, <1>3, <1>4, <2>1, <2>2, OwnStep
<1>5. CASE ~caller.connected
  <2>1. caller.call.stage = "idle"
    BY <1>5, Own DEF Owner
  <2>2. rpc' = rpc
    BY <2>1 DEF GiveUp
  <2>3. ASSUME NEW c \in Conns PROVE Fits(caller', c, rpc'[c], srv'[c].alive)
    BY <1>1, <1>3, <2>1, <2>2 DEF Links, Fits, Still
  <2> QED
    BY <1>1, <1>2, <1>5, <2>2, <2>3 DEF Links, RpcKnown, C
<1> QED
  BY <1>4, <1>5

LEMMA NextEventLinks == TransportInv /\ Links /\ NextEvent => Links'
<1> SUFFICES ASSUME TransportInv, Links, NextEvent PROVE Links'
  OBVIOUS
<1> DEFINE q == Tail(rpc[C].events)
           r == [rpc[C] EXCEPT !.events = q]
<1>1. /\ caller.connected /\ caller.call.stage = "idle" /\ rpc[C].events # << >>
      /\ rpc' = [rpc EXCEPT ![C] = r] /\ srv' = srv
  BY DEF NextEvent, Ready, Idle
<1>2. /\ caller'.conn = caller.conn /\ caller'.next = caller.next
      /\ caller'.connected = caller.connected /\ caller'.down = caller.down
      /\ caller'.call = caller.call
  BY Own DEF NextEvent
<1>3. rpc[C] \in Rpcs /\ rpc[C].events \in Seq(Heards)
  BY <1>1, Own DEF Rpcs
<1>4. q \in Seq(Heards) /\ Len(q) <= EventRoom
  <2>1. q \in Seq(Heards) /\ Len(q) = Len(rpc[C].events) - 1 /\ Len(rpc[C].events) \in Nat
    BY <1>1, <1>3, HeadTailProperties
  <2>2. Len(rpc[C].events) <= EventRoom /\ EventRoom \in Nat
    BY <1>1, OwnRpc, TransportAssumption
  <2> HIDE DEF q
  <2> QED
    BY <2>1, <2>2
<1> HIDE DEF q
<1>5. /\ r \in Rpcs /\ r.events = q /\ r.lock = rpc[C].lock /\ r.reader = rpc[C].reader
      /\ r.pending = rpc[C].pending /\ r.cut = rpc[C].cut /\ r.open = rpc[C].open
  <2>1. r \in Rpcs
    BY <1>3, <1>4, RpcUpdates
  <2> QED
    BY <1>3, <2>1 DEF Rpcs
<1> HIDE DEF r
<1>6. rpc[C].lock # "caller" /\ (rpc[C].lock = "reader" => rpc[C].reader = "declining")
  BY <1>1, OwnRpc
<1>7. Owner(caller')
  BY <1>2, Own DEF Owner
<1> QED
  BY <1>1, <1>2, <1>4, <1>5, <1>6, <1>7, OwnStep

LEMMA ShutdownLinks == TransportInv /\ Links /\ Shutdown => Links'
<1> SUFFICES ASSUME TransportInv, Links, Shutdown PROVE Links'
  OBVIOUS
<1>1. caller.connected /\ caller.call.stage = "idle" /\ rpc' = rpc /\ srv' = srv
  BY DEF Shutdown, Ready, Idle
<1>2. /\ caller'.conn = caller.conn /\ caller'.next = caller.next
      /\ caller'.connected = FALSE /\ caller'.down = "locking"
      /\ caller'.call = caller.call
  BY Own DEF Shutdown
<1>3. Owner(caller')
  BY <1>1, <1>2, Own DEF Owner
<1>4. /\ rpc[C] \in Rpcs /\ rpc = [rpc EXCEPT ![C] = rpc[C]] /\ rpc[C].lock # "caller"
      /\ Len(rpc[C].events) <= EventRoom
      /\ rpc[C].lock = "reader" => rpc[C].reader = "declining"
  BY <1>1, OwnRpc
<1> QED
  BY <1>1, <1>2, <1>3, <1>4, OwnStep

\* While the connection is shut down, nothing else is the worker's.
LEMMA DownLinks == TransportInv /\ Links /\ (CloseStdin \/ EndShutdown) => Links'
<1> SUFFICES ASSUME TransportInv, Links, CloseStdin \/ EndShutdown PROVE Links'
  OBVIOUS
<1>1. /\ caller.down # "no" /\ caller.call.stage = "idle" /\ ~caller.connected
      /\ Owner(caller) /\ caller.next \in Nat /\ CallKnown
  BY Own DEF CloseStdin, EndShutdown, Owner, TransportInv
<1>2. /\ caller'.conn = caller.conn /\ caller'.next = caller.next
      /\ caller'.connected = caller.connected /\ caller'.call = caller.call
      /\ caller'.down \in {"no", "child"}
  BY Own DEF CloseStdin, EndShutdown
<1>3. Owner(caller') /\ ~caller'.connected
  BY <1>1, <1>2 DEF Owner
<1>4. /\ caller'.conn = C /\ caller'.next \in Nat /\ caller'.next >= caller.next
  BY <1>1, <1>2 DEF C
<1>5. C \in Conns => rpc[C] \in Rpcs /\ Fits(caller, C, rpc[C], srv[C].alive)
  BY Own
<1>6. CASE CloseStdin
  <2> DEFINE r == [rpc[C] EXCEPT !.open = FALSE]
  <2>1. rpc' = [rpc EXCEPT ![C] = r] /\ srv' = srv /\ caller'.down = "child"
    BY <1>6, Own DEF CloseStdin
  <2>2. C \in Conns => /\ r \in Rpcs /\ r.lock = rpc[C].lock /\ r.reader = rpc[C].reader
                       /\ r.events = rpc[C].events /\ r.pending = rpc[C].pending
                       /\ r.cut = rpc[C].cut /\ r.open = FALSE /\ r.watcher = rpc[C].watcher
    <3>1. C \in Conns => r \in Rpcs
      BY <1>5, RpcUpdates
    <3> QED
      BY <1>5, <3>1 DEF Rpcs
  <2> HIDE DEF r
  <2>3. C \in Conns => Fits(caller', C, r, srv'[C].alive)
    BY <1>1, <1>2, <1>3, <1>5, <2>1, <2>2 DEF Fits, Still, C
  <2>4. \A d \in Conns \ {C} : srv'[d].alive = srv[d].alive
    BY <2>1
  <2> QED
    BY <1>1, <1>3, <1>4, <2>1, <2>2, <2>3, <2>4, CallerStep
<1>7. CASE EndShutdown
  <2> DEFINE r1 == [NoRpc EXCEPT !.reader = rpc[C].reader]
             r2 == [r1 EXCEPT !.cut = TRUE]
             r  == [r2 EXCEPT !.lock = rpc[C].lock]
  <2>1. r = [NoRpc EXCEPT !.reader = rpc[C].reader, !.cut = TRUE, !.lock = rpc[C].lock]
    BY DEF NoRpc, FreshRpc
  <2>2. rpc' = [rpc EXCEPT ![C] = r] /\ caller'.down = "no"
    <3>1. caller'.down = "no"
      BY <1>7, Own DEF EndShutdown
    <3>2. rpc' = [rpc EXCEPT ![C] = [NoRpc EXCEPT !.reader = rpc[C].reader, !.cut = TRUE,
                                                  !.lock = rpc[C].lock]]
      BY <1>7 DEF EndShutdown
    <3> HIDE DEF r
    <3> QED
      BY <2>1, <3>1, <3>2
  <2>3. C \in Conns => r \in Rpcs
    <3>3. C \in Conns => /\ rpc[C].reader \in {"reading", "declining", "closing", "draining", "done"}
                         /\ rpc[C].lock \in {"free", "caller", "reader"}
      BY <1>5 DEF Rpcs
    <3>1. C \in Conns => r1 \in Rpcs
      BY <3>3, NewRpcs, RpcUpdates
    <3> HIDE DEF r1
    <3>2. C \in Conns => r2 \in Rpcs
      BY <3>1, RpcUpdates
    <3> HIDE DEF r2
    <3> QED
      BY <3>2, <3>3, RpcUpdates
  <2>4. /\ r.pending = {} /\ r.events = << >> /\ ~r.open /\ r.watcher = "done"
        /\ r.cut /\ r.reader = rpc[C].reader /\ r.lock = rpc[C].lock
    BY DEF NoRpc, FreshRpc
  <2>5. C \in Conns => srv'[C].alive = FALSE
    <3>1. NoSrv.alive = FALSE /\ [NoSrv EXCEPT !.stdout = Take(srv[C].stdout)].alive = FALSE
      BY DEF NoSrv, FreshSrv
    <3> HIDE DEF NoSrv
    <3> QED
      BY <1>7, <3>1 DEF EndShutdown, TransportInv, PipesKnown
  <2>6. \A d \in Conns \ {C} : srv'[d].alive = srv[d].alive
    BY <1>7 DEF EndShutdown, TransportInv, PipesKnown
  <2> HIDE DEF r
  <2>7. C \in Conns => Fits(caller', C, r, srv'[C].alive)
    <3>1. EventRoom \in Nat /\ Len(<< >>) = 0
      BY TransportAssumption
    <3> QED
      BY <1>1, <1>2, <1>5, <2>4, <2>5, <3>1 DEF Fits, Still, C
  <2> QED
    BY <1>1, <1>3, <1>4, <2>2, <2>3, <2>6, <2>7, CallerStep
<1> QED
  BY <1>6, <1>7

-----------------------------------------------------------------------------
\* The reader's steps take from stdout, put into the channel, and may answer.
LEMMA ReadAnswerLinks ==
  ASSUME TransportInv, Links, NEW c \in Conns, ReadAnswer(c) PROVE Links'
<1> DEFINE some == rpc[c].pending \ {Said(c).id}
           x == [rpc[c] EXCEPT !.pending = some]
<1>1. /\ rpc[c].reader = "reading" /\ rpc[c] \in Rpcs
      /\ Fits(caller, c, rpc[c], srv[c].alive)
  BY DEF ReadAnswer, Reads, Links, RpcKnown
<1>2. some \in SUBSET Nat /\ some \subseteq rpc[c].pending
  BY <1>1 DEF Rpcs
<1>3. rpc' = Goes(c, [rpc EXCEPT ![c] = x], "reading") /\ srv' = Consumed(c)
  BY DEF ReadAnswer
<1> HIDE DEF some
<1>4. /\ x \in Rpcs /\ x.pending = some /\ x.open = rpc[c].open /\ x.cut = rpc[c].cut
      /\ x.watcher = rpc[c].watcher /\ x.lock = rpc[c].lock /\ x.events = rpc[c].events
  <2>1. x \in Rpcs
    BY <1>1, <1>2, RpcUpdates
  <2> QED
    BY <1>1, <2>1 DEF Rpcs
<1> HIDE DEF x
<1>5. rpc' = [rpc EXCEPT ![c] = Gone(x, "reading")]
  <2>1. rpc' = Goes(c, [rpc EXCEPT ![c] = x], "reading")
    BY <1>3
  <2> QED
    BY <1>4, <2>1, ReadsOn
<1>6. Steady
  <2>1. DOMAIN caller.call = {"kind", "id", "serial", "stage", "reply"}
    BY Own DEF Calls
  <2>2. \/ caller' = caller
        \/ caller' = [caller EXCEPT !.call.reply = Said(c).serial]
    BY DEF ReadAnswer
  <2> QED
    BY <2>1, <2>2, Own DEF Steady
<1>7. \A d \in Conns : srv'[d].alive => srv[d].alive
  BY <1>3 DEF Consumed, TransportInv, PipesKnown, Servers
<1>8. x.lock # "reader" /\ Len(x.events) <= EventRoom /\ rpc[c].reader # "done"
  BY <1>1, <1>4 DEF Fits
<1>9. "reading" \in ReaderStates
  BY DEF ReaderStates
<1> QED
  BY <1>1, <1>2, <1>4, <1>5, <1>6, <1>7, <1>8, <1>9, ReaderStep

LEMMA DisconnectedIs == Disconnected \in Heards
BY DEF Disconnected, Event, Heards, Empty

LEMMA ReadOtherLinks ==
  ASSUME TransportInv, Links, NEW c \in Conns,
         ReadNote(c) \/ ReadDelta(c) \/ ReadItem(c) \/ ReadCompleted(c) \/ ReadAsk(c)
         \/ ReadBroken(c)
  PROVE  Links'
<1>1. /\ rpc[c].reader = "reading" /\ rpc[c] \in Rpcs /\ srv[c].stdout # << >>
      /\ Fits(caller, c, rpc[c], srv[c].alive)
  BY DEF ReadNote, ReadDelta, ReadItem, ReadCompleted, ReadAsk,
         ReadBroken, Reads, Links, RpcKnown
<1>2. srv' = Consumed(c) /\ caller' = caller
  BY DEF ReadNote, ReadDelta, ReadItem, ReadCompleted, ReadAsk, ReadBroken
<1>3. Said(c).kind # "answer" => Said(c) \in Messages
  BY <1>1, ConsumedKnown DEF Answers
<1>4. \A kind \in {"note", "delta", "completed"}, text \in Nat :
        Said(c) \in Messages => Event(kind, Said(c).turn, text) \in Heards
  BY TransportAssumption DEF Event, Heards, Messages, Turns
<1>5. PICK x \in Rpcs, state \in {"reading", "declining", "closing"} :
        /\ rpc' = [rpc EXCEPT ![c] = Gone(x, state)]
        /\ x.pending = rpc[c].pending /\ x.open = rpc[c].open /\ x.cut = rpc[c].cut
        /\ x.watcher = rpc[c].watcher /\ x.lock = rpc[c].lock /\ Len(x.events) <= EventRoom
  <2>1. CASE ReadNote(c)
    <3> DEFINE e == Event("note", Said(c).turn, Empty)
               x == SentTo(rpc[c], e)
    <3>1. e \in Heards
      BY <1>3, <1>4, <2>1 DEF ReadNote, Reads, Said, Empty
    <3>2. rpc' = Goes(c, Sent(c, e), "reading") /\ Room(c)
      BY <2>1 DEF ReadNote, EventSent
    <3> HIDE DEF e
    <3>3. /\ x \in Rpcs /\ Sent(c, e) = [rpc EXCEPT ![c] = x] /\ x.pending = rpc[c].pending
          /\ x.open = rpc[c].open /\ x.cut = rpc[c].cut /\ x.watcher = rpc[c].watcher
          /\ x.lock = rpc[c].lock /\ Len(x.events) <= EventRoom
      BY <3>1, <3>2, SentIs
    <3> HIDE DEF x
    <3>4. rpc' = [rpc EXCEPT ![c] = Gone(x, "reading")]
      <4>1. rpc' = Goes(c, [rpc EXCEPT ![c] = x], "reading")
        BY <3>2, <3>3
      <4> QED
        BY <3>3, <4>1, ReadsOn
    <3> QED
      BY <3>3, <3>4
  <2>2. CASE ReadDelta(c) \/ ReadAsk(c)
    <3>1. PICK e \in Heards, state \in {"reading", "declining"} :
            rpc' = Goes(c, TrySent(c, e), state)
      <4>1. CASE ReadDelta(c)
        BY <1>3, <1>4, <4>1 DEF ReadDelta, Reads, Said, Empty
      <4>2. CASE ReadAsk(c)
        BY <4>2 DEF ReadAsk, Diagnostic, Event, Heards, Empty
      <4> QED
        BY <2>2, <4>1, <4>2
    <3> DEFINE x == IF Room(c) THEN SentTo(rpc[c], e) ELSE rpc[c]
    <3>2. TrySent(c, e) = [rpc EXCEPT ![c] = x]
      BY SentIs
    <3>3. /\ x \in Rpcs /\ x.pending = rpc[c].pending
          /\ x.open = rpc[c].open /\ x.cut = rpc[c].cut /\ x.watcher = rpc[c].watcher
          /\ x.lock = rpc[c].lock /\ Len(x.events) <= EventRoom
      <4>1. CASE Room(c)
        BY <4>1, SentIs
      <4>2. CASE ~Room(c)
        BY <1>1, <4>2 DEF Fits
      <4> QED
        BY <4>1, <4>2
    <3> HIDE DEF x
    <3>4. rpc' = [rpc EXCEPT ![c] = Gone(x, state)]
      <4>1. rpc' = Goes(c, [rpc EXCEPT ![c] = x], state)
        BY <3>1, <3>2, <3>3
      <4>2. state \in ReaderStates
        BY DEF ReaderStates
      <4> QED
        BY <3>3, <4>1, <4>2, GoesIs
    <3> QED
      BY <3>3, <3>4
  <2>3. CASE ReadItem(c)
    <3> DEFINE t == Said(c).turn
               m == [rpc[c].cache EXCEPT ![t] = Cached(@, Said(c))]
               x == [rpc[c] EXCEPT !.cache = m]
    <3>1. rpc' = Goes(c, [rpc EXCEPT ![c] = x], "reading")
      BY <2>3 DEF ReadItem
    <3>2. m \in [Turns -> Entries]
      <4>1. rpc[c].cache \in [Turns -> Entries]
        BY <1>1 DEF Rpcs
      <4>2. Said(c) \in Messages
        BY <1>3, <2>3 DEF ReadItem, Reads, Said
      <4>3. \A old \in Entries : Cached(old, Said(c)) \in Entries
        BY <4>2 DEF Cached, Entries, Messages
      <4> QED
        BY <4>1, <4>3
    <3> HIDE DEF m
    <3>3. /\ x \in Rpcs /\ x.pending = rpc[c].pending /\ x.events = rpc[c].events
          /\ x.open = rpc[c].open /\ x.cut = rpc[c].cut /\ x.watcher = rpc[c].watcher
          /\ x.lock = rpc[c].lock
      <4>1. x \in Rpcs
        BY <1>1, <3>2, RpcUpdates
      <4> QED
        BY <1>1, <4>1 DEF Rpcs
    <3> HIDE DEF x
    <3>4. Len(x.events) <= EventRoom
      BY <1>1, <3>3 DEF Fits
    <3>5. rpc' = [rpc EXCEPT ![c] = Gone(x, "reading")]
      <4>1. rpc' = Goes(c, [rpc EXCEPT ![c] = x], "reading")
        BY <3>1
      <4> QED
        BY <3>3, <4>1, ReadsOn
    <3> QED
      BY <3>3, <3>4, <3>5
  <2>4. CASE ReadCompleted(c)
    <3> DEFINE t == Said(c).turn
               text == IF Said(c).text # Empty THEN Said(c).text ELSE rpc[c].cache[t].text
               e == Event("completed", t, text)
               y == SentTo(rpc[c], e)
               m == [y.cache EXCEPT ![t] = NotCached]
               x == [y EXCEPT !.cache = m]
    <3>1. rpc' = Goes(c, [Sent(c, e) EXCEPT ![c].cache[t] = NotCached], "reading") /\ Room(c)
      BY <2>4 DEF ReadCompleted
    <3>2. Said(c) \in Messages
      BY <1>3, <2>4 DEF ReadCompleted, Reads, Said
    <3>3. text \in Nat /\ rpc[c].cache \in [Turns -> Entries]
      BY <1>1, <3>2 DEF Rpcs, Entries, Messages
    <3> HIDE DEF text
    <3>4. e \in Heards
      BY <1>4, <3>2, <3>3
    <3> HIDE DEF e
    <3>5. /\ y \in Rpcs /\ Sent(c, e) = [rpc EXCEPT ![c] = y] /\ y.pending = rpc[c].pending
          /\ y.open = rpc[c].open /\ y.cut = rpc[c].cut /\ y.watcher = rpc[c].watcher
          /\ y.lock = rpc[c].lock /\ Len(y.events) <= EventRoom /\ y.cache = rpc[c].cache
      BY <3>1, <3>4, SentIs
    <3> HIDE DEF y
    <3>6. m \in [Turns -> Entries]
      BY <3>3, <3>5 DEF NotCached, Entries, Empty
    <3>7. [Sent(c, e) EXCEPT ![c].cache[t] = NotCached] = [rpc EXCEPT ![c] = x]
      BY <3>5 DEF Links, RpcKnown
    <3> HIDE DEF m
    <3>8. /\ x \in Rpcs /\ x.pending = rpc[c].pending /\ x.events = y.events
          /\ x.open = rpc[c].open /\ x.cut = rpc[c].cut /\ x.watcher = rpc[c].watcher
          /\ x.lock = rpc[c].lock
      <4>1. x \in Rpcs
        BY <3>5, <3>6, RpcUpdates
      <4> QED
        BY <3>5, <4>1 DEF Rpcs
    <3> HIDE DEF x
    <3>9. rpc' = [rpc EXCEPT ![c] = Gone(x, "reading")]
      <4>1. rpc' = Goes(c, [rpc EXCEPT ![c] = x], "reading")
        BY <3>1, <3>7, <3>8
      <4> QED
        BY <3>8, <4>1, ReadsOn
    <3> QED
      BY <3>5, <3>8, <3>9
  <2>5. CASE ReadBroken(c)
    <3> DEFINE x == SentTo(rpc[c], Disconnected)
    <3>1. rpc' = Goes(c, Sent(c, Disconnected), "closing") /\ Room(c)
      BY <2>5 DEF ReadBroken
    <3>2. /\ x \in Rpcs /\ Sent(c, Disconnected) = [rpc EXCEPT ![c] = x]
          /\ x.pending = rpc[c].pending
          /\ x.open = rpc[c].open /\ x.cut = rpc[c].cut /\ x.watcher = rpc[c].watcher
          /\ x.lock = rpc[c].lock /\ Len(x.events) <= EventRoom
      BY <3>1, DisconnectedIs, SentIs
    <3> HIDE DEF x
    <3>3. rpc' = [rpc EXCEPT ![c] = Gone(x, "closing")]
      <4>1. rpc' = Goes(c, [rpc EXCEPT ![c] = x], "closing")
        BY <3>1, <3>2
      <4> QED
        BY <3>2, <4>1, GoesIs, GoesReading
    <3> QED
      BY <3>2, <3>3
  <2> QED
    BY <2>1, <2>2, <2>3, <2>4, <2>5
<1>6. Steady
  BY <1>2 DEF Steady
<1>7. \A d \in Conns : srv'[d].alive => srv[d].alive
  BY <1>2 DEF Consumed, TransportInv, PipesKnown, Servers
<1>8. x.lock # "reader" /\ rpc[c].reader # "done"
  BY <1>1, <1>5 DEF Fits
<1>9. state \in ReaderStates
  BY DEF ReaderStates
<1> QED
  BY <1>1, <1>5, <1>6, <1>7, <1>8, <1>9, ReaderStep

LEMMA DeclineLinks ==
  ASSUME TransportInv, Links, NEW c \in Conns, DeclineLock(c) \/ DeclineWrite(c)
  PROVE  Links'
<1>1. /\ rpc[c] \in Rpcs /\ rpc = [rpc EXCEPT ![c] = rpc[c]]
      /\ Fits(caller, c, rpc[c], srv[c].alive)
      /\ Len(rpc[c].events) <= EventRoom
  BY DEF Links, RpcKnown, Fits
<1>2. Steady
  BY DEF DeclineLock, DeclineWrite, Steady
<1>3. rpc[c].reader = "declining"
  BY <1>1 DEF DeclineLock, DeclineWrite, Fits
<1>4. \A d \in Conns : srv'[d].alive => srv[d].alive
  BY DEF DeclineLock, DeclineWrite, Declined, TransportInv, PipesKnown, Servers
<1>5. CASE DeclineLock(c) /\ rpc[c].open
  <2> DEFINE r == [rpc[c] EXCEPT !.lock = "reader"]
  <2>1. rpc' = [rpc EXCEPT ![c] = r] /\ rpc[c].lock = "free"
    BY <1>5 DEF DeclineLock
  <2>2. r \in Rpcs
    BY <1>1, RpcUpdates
  <2>3. /\ r.lock = "reader" /\ r.reader = rpc[c].reader /\ r.events = rpc[c].events
        /\ r.pending = rpc[c].pending /\ r.cut = rpc[c].cut /\ r.open = rpc[c].open
    BY <1>1, <2>2 DEF Rpcs
  <2> HIDE DEF r
  <2>4. Fits(caller, c, r, srv[c].alive)
    BY <1>1, <1>3, <1>5, <2>1, <2>3 DEF Fits, Still
  <2> QED
    BY <1>2, <1>4, <2>1, <2>2, <2>3, <2>4, LinkStep
<1>6. CASE DeclineLock(c) /\ ~rpc[c].open
  <2>1. rpc' = Goes(c, [rpc EXCEPT ![c] = rpc[c]], "reading") /\ rpc[c].lock = "free"
    BY <1>1, <1>6 DEF DeclineLock
  <2>2. rpc' = [rpc EXCEPT ![c] = Gone(rpc[c], "reading")]
    <3>1. rpc' = Goes(c, [rpc EXCEPT ![c] = rpc[c]], "reading")
      BY <2>1
    <3> QED
      BY <1>1, <3>1, ReadsOn
  <2> QED
    BY <1>1, <1>2, <1>3, <1>4, <2>1, <2>2, ReaderStep, GoesReading
<1>7. CASE DeclineWrite(c)
  <2> DEFINE x == [rpc[c] EXCEPT !.lock = "free"]
  <2>1. rpc[c].lock = "reader"
    BY <1>7 DEF DeclineWrite
  <2>2. rpc' = Goes(c, [rpc EXCEPT ![c] = x], "reading")
    BY <1>7 DEF DeclineWrite
  <2>3. x \in Rpcs
    BY <1>1, RpcUpdates
  <2>4. /\ x.lock = "free" /\ x.reader = rpc[c].reader /\ x.events = rpc[c].events
        /\ x.pending = rpc[c].pending /\ x.cut = rpc[c].cut /\ x.open = rpc[c].open
        /\ x.watcher = rpc[c].watcher
    BY <1>1, <2>3 DEF Rpcs
  <2> HIDE DEF x
  <2>5. rpc' = [rpc EXCEPT ![c] = Gone(x, "reading")]
    BY <2>2, <2>3, ReadsOn
  <2> QED
    BY <1>1, <1>2, <1>3, <1>4, <2>1, <2>3, <2>4, <2>5, ReaderStep, GoesReading
<1> QED
  BY <1>5, <1>6, <1>7

LEMMA EndLinks ==
  ASSUME TransportInv, Links, NEW c \in Conns, ReaderEof(c) \/ ReaderDrain(c)
  PROVE  Links'
<1>1. /\ rpc[c] \in Rpcs /\ Fits(caller, c, rpc[c], srv[c].alive)
  BY DEF Links, RpcKnown
<1>2. \A d \in Conns : srv'[d].alive => srv[d].alive
  BY DEF ReaderEof, ReaderDrain
<1>3. Steady
  <2>1. DOMAIN caller.call = {"kind", "id", "serial", "stage", "reply"}
    BY Own DEF Calls
  <2>2. caller' = caller \/ caller' = [caller EXCEPT !.call.reply = -1]
    BY DEF ReaderEof, ReaderDrain
  <2> QED
    BY <2>1, <2>2, Own DEF Steady
<1>4. CASE ReaderEof(c)
  <2> DEFINE x == SentTo(rpc[c], Disconnected)
  <2>1. rpc' = Goes(c, Sent(c, Disconnected), "draining") /\ Room(c)
        /\ rpc[c].reader \in {"reading", "closing"}
    BY <1>4 DEF ReaderEof
  <2>2. /\ x \in Rpcs /\ Sent(c, Disconnected) = [rpc EXCEPT ![c] = x]
        /\ x.pending = rpc[c].pending
        /\ x.open = rpc[c].open /\ x.cut = rpc[c].cut /\ x.watcher = rpc[c].watcher
        /\ x.lock = rpc[c].lock /\ Len(x.events) <= EventRoom
    BY <2>1, DisconnectedIs, SentIs
  <2> HIDE DEF x
  <2>3. rpc' = [rpc EXCEPT ![c] = Gone(x, "draining")]
    <3>1. rpc' = Goes(c, [rpc EXCEPT ![c] = x], "draining")
      BY <2>1, <2>2
    <3> QED
      BY <2>2, <3>1, Drains
  <2>4. x.lock # "reader"
    BY <1>1, <2>1, <2>2 DEF Fits
  <2> QED
    BY <1>2, <1>3, <2>1, <2>2, <2>3, <2>4, ReaderStep, GoesReading
<1>5. CASE ReaderDrain(c)
  <2> DEFINE r1 == [rpc[c] EXCEPT !.reader = "done"]
             r == [r1 EXCEPT !.pending = {}]
  <2>1. r = [rpc[c] EXCEPT !.reader = "done", !.pending = {}]
    BY <1>1 DEF Rpcs
  <2>2. rpc' = [rpc EXCEPT ![c] = r] /\ rpc[c].reader = "draining"
    BY <1>5, <2>1 DEF ReaderDrain
  <2>3. r1 \in Rpcs
    BY <1>1, RpcUpdates
  <2>4. r \in Rpcs
    BY <2>3, RpcUpdates
  <2>5. /\ r.lock = rpc[c].lock /\ r.reader = "done" /\ r.events = rpc[c].events
        /\ r.pending = {} /\ r.cut = rpc[c].cut /\ r.open = rpc[c].open
        /\ r.watcher = rpc[c].watcher
    BY <1>1, <2>3, <2>4 DEF Rpcs
  <2> HIDE DEF r
  <2>6. Fits(caller, c, r, srv[c].alive)
    BY <1>1, <2>2, <2>5 DEF Fits, Still
  <2> QED
    BY <1>2, <1>3, <2>2, <2>4, <2>5, <2>6, LinkStep
<1> QED
  BY <1>4, <1>5

\* A reader that was cut is gone, whatever it held.
LEMMA AbortedLinks ==
  ASSUME TransportInv, Links, NEW c \in Conns, ReaderAborted(c) PROVE Links'
<1>1. /\ rpc[c] \in Rpcs /\ Fits(caller, c, rpc[c], srv[c].alive) /\ rpc[c].cut
      /\ rpc' = [rpc EXCEPT ![c] = NoRpc] /\ Steady
  BY DEF Links, RpcKnown, ReaderAborted, Steady
<1>2. Still(rpc[c], srv[c].alive) /\ Owner(caller) /\ (caller.connected => rpc[C].open)
  BY <1>1 DEF Fits, Links
<1>3. rpc[c].open = FALSE
  BY <1>1, <1>2 DEF Still, Rpcs
<1>4. ~(c = C /\ caller.call.stage = "writing")
  BY <1>2, <1>3 DEF Owner
<1>5. \A d \in Conns : srv'[d].alive => srv[d].alive
  <2>1. NoSrv.alive = FALSE
    BY DEF NoSrv, FreshSrv
  <2> QED
    BY <2>1 DEF ReaderAborted, TransportInv, PipesKnown
<1>6. Fits(caller, c, NoRpc, srv[c].alive)
  <2>1. EventRoom \in Nat /\ Len(<< >>) = 0
    BY TransportAssumption
  <2> QED
    BY <1>2, <1>4, <2>1, NoRpcIs DEF Fits, Still, C
<1> QED
  BY <1>1, <1>3, <1>5, <1>6, NoRpcIs, NewRpcs, LinkStep

LEMMA ExitedLinks ==
  ASSUME TransportInv, Links, NEW c \in Conns, ChildExited(c) PROVE Links'
<1> DEFINE y == SentTo(rpc[c], Disconnected)
           r == [y EXCEPT !.watcher = "done"]
<1>1. /\ rpc[c] \in Rpcs /\ Fits(caller, c, rpc[c], srv[c].alive)
      /\ rpc[c].watcher = "waiting" /\ Room(c) /\ Steady
      /\ rpc' = [Sent(c, Disconnected) EXCEPT ![c].watcher = "done"]
  BY DEF Links, RpcKnown, ChildExited, Steady
<1>2. /\ y \in Rpcs /\ Sent(c, Disconnected) = [rpc EXCEPT ![c] = y]
      /\ y.pending = rpc[c].pending /\ y.reader = rpc[c].reader
      /\ y.open = rpc[c].open /\ y.cut = rpc[c].cut
      /\ y.lock = rpc[c].lock /\ Len(y.events) <= EventRoom
  BY <1>1, DisconnectedIs, SentIs
<1> HIDE DEF y
<1>3. rpc' = [rpc EXCEPT ![c] = r]
  BY <1>1, <1>2 DEF Links, RpcKnown
<1>4. r \in Rpcs
  BY <1>2, RpcUpdates
<1>5. /\ r.lock = y.lock /\ r.reader = y.reader /\ r.events = y.events
      /\ r.pending = y.pending /\ r.cut = y.cut /\ r.open = y.open
  BY <1>2, <1>4 DEF Rpcs
<1> HIDE DEF r
<1>6. Fits(caller, c, r, srv[c].alive)
  BY <1>1, <1>2, <1>5 DEF Fits, Still
<1>7. \A d \in Conns : srv'[d].alive => srv[d].alive
  BY DEF ChildExited
<1>8. Steady /\ r.open = rpc[c].open
  BY <1>1, <1>2, <1>5
<1> QED
  BY <1>3, <1>4, <1>6, <1>7, <1>8, LinkStep

LEMMA ServerLinks ==
  ASSUME TransportInv, Links, NEW c \in Conns,
         ServerReads(c) \/ ServerSays(c) \/ ServerEnds(c)
  PROVE  Links'
<1>1. /\ rpc[c] \in Rpcs /\ Fits(caller, c, rpc[c], srv[c].alive)
      /\ rpc = [rpc EXCEPT ![c] = rpc[c]]
  BY DEF Links, RpcKnown
<1>2. rpc' = [rpc EXCEPT ![c] = rpc[c]]
  BY <1>1 DEF ServerReads, ServerSays, ServerEnds
<1>3. Steady
  BY Own DEF ServerReads, ServerSays, ServerEnds, Steady
<1>4. \A d \in Conns : srv'[d].alive => srv[d].alive
  <2>1. CASE ServerReads(c)
    BY <2>1 DEF ServerReads, TransportInv, PipesKnown, Servers
  <2>2. CASE ServerSays(c)
    BY <2>2 DEF ServerSays, TransportInv, PipesKnown, Servers
  <2>3. CASE ServerEnds(c)
    BY <2>3 DEF ServerEnds, TransportInv, PipesKnown, Servers
  <2> QED
    BY <2>1, <2>2, <2>3
<1> QED
  BY <1>1, <1>2, <1>3, <1>4, LinkStep

LEMMA LinksStep == TransportInv /\ Links /\ [TransportNext]_transportVars => Links'
<1> SUFFICES ASSUME TransportInv, Links, [TransportNext]_transportVars PROVE Links'
  OBVIOUS
<1>1. CASE UNCHANGED transportVars
  BY <1>1 DEF transportVars, Links, RpcKnown, C
<1>2. CASE Connect \/ Shutdown \/ NextEvent \/ GiveUp \/ DownSteps
  BY <1>2, ConnectLinks, ShutdownLinks, NextEventLinks, GiveUpLinks, DownLinks DEF DownSteps
<1>3. CASE CallSteps
  BY <1>3, TakeLockLinks, WriteLinks, CallEndsLinks DEF CallSteps
<1>4. CASE \E kind \in Requests \ {"initialize"} : Request(kind)
  BY <1>4, RequestLinks
<1>5. ASSUME NEW c \in Conns, Reader(c) PROVE Links'
  BY <1>5, ReadAnswerLinks, ReadOtherLinks, DeclineLinks, EndLinks DEF Reader
<1>6. ASSUME NEW c \in Conns,
             ReaderAborted(c) \/ ChildExited(c) \/ ServerReads(c) \/ ServerSays(c)
             \/ ServerEnds(c)
      PROVE  Links'
  BY <1>6, AbortedLinks, ExitedLinks, ServerLinks
<1> QED
  BY <1>1, <1>2, <1>3, <1>4, <1>5, <1>6 DEF TransportNext

-----------------------------------------------------------------------------
\* Brief.

\* Induction up to n: the successor is an injection of P into P without 0,
\* which the pigeonhole principle rules out.
LEMMA UpTo ==
  ASSUME NEW n \in Nat, NEW P \in SUBSET (0..n), 0 \in P,
         \A k \in P : k < n => k + 1 \in P
  PROVE  n \in P
<1> SUFFICES ASSUME n \notin P PROVE FALSE
  OBVIOUS
<1> DEFINE Q == P \ {0}
           next == [k \in P |-> k + 1]
<1>1. IsFiniteSet(P)
  BY FS_Interval, FS_Subset, 0 \in Int, n \in Int
<1>2. IsFiniteSet(Q) /\ Cardinality(Q) < Cardinality(P)
  <2>1. /\ IsFiniteSet(Q) /\ Cardinality(P) \in Nat
        /\ Cardinality(Q) = Cardinality(P) - 1
    BY <1>1, FS_RemoveElement, FS_CardinalityType
  <2> QED
    BY <2>1
<1>3. next \in [P -> Q]
  OBVIOUS
<1>4. \E x, y \in P : x # y /\ next[x] = next[y]
  <2> HIDE DEF Q, next
  <2> QED
    BY <1>1, <1>2, <1>3, FS_PigeonHole
<1> QED
  BY <1>4

\* f is the function that Brief computes, up to n.
Grown(q, f, k) ==
  IF k = 0 THEN << >>
  ELSE IF Authoritative(q[k]) THEN Append(f[k - 1], Gist(q[k])) ELSE f[k - 1]
Grows(q, f, n) == f = [k \in 0..n |-> Grown(q, f, k)]

LEMMA GrowsExists == ASSUME NEW q, NEW n \in Nat PROVE \E f : Grows(q, f, n)
<1> DEFINE P == {m \in 0..n : \E f : Grows(q, f, m)}
<1>1. 0 \in P
  <2>1. Grows(q, [k \in 0..0 |-> << >>], 0)
    BY DEF Grows, Grown
  <2> QED
    BY <2>1
<1>2. ASSUME NEW m \in P, m < n PROVE m + 1 \in P
  <2>1. PICK f : Grows(q, f, m)
    OBVIOUS
  <2>2. m \in 0..n /\ m + 1 \in 0..n /\ m \in Nat
    BY <1>2
  <2> HIDE DEF P
  <2> DEFINE last == IF Authoritative(q[m + 1]) THEN Append(f[m], Gist(q[m + 1])) ELSE f[m]
             g == [k \in 0..m + 1 |-> IF k = m + 1 THEN last ELSE f[k]]
  <2>3. \A k \in 0..m : f[k] = Grown(q, f, k)
    BY <2>1, <2>2 DEF Grows
  <2> HIDE DEF last
  <2>4. \A k \in 0..m : g[k] = Grown(q, g, k)
    <3>1. \A k \in 0..m : g[k] = f[k]
      BY <2>2
    <3> HIDE DEF g
    <3> QED
      BY <2>2, <2>3, <3>1 DEF Grown
  <2>5. g[m + 1] = Grown(q, g, m + 1)
    BY <2>2 DEF last, Grown
  <2>6. Grows(q, g, m + 1)
    <3>1. g = [k \in 0..m + 1 |-> g[k]]
      OBVIOUS
    <3>2. \A k \in 0..m + 1 : k \in 0..m \/ k = m + 1
      BY <2>2
    <3> HIDE DEF g
    <3>3. \A k \in 0..m + 1 : g[k] = Grown(q, g, k)
      BY <2>4, <2>5, <3>2
    <3> QED
      BY <3>1, <3>3 DEF Grows
  <2> HIDE DEF g
  <2> QED
    BY <2>2, <2>6 DEF P
<1> HIDE DEF P
<1>3. P \in SUBSET (0..n)
  BY DEF P
<1> QED
  BY <1>1, <1>2, <1>3, UpTo DEF P

\* What one message, event or answer adds.
Told    == [kind : {"note", "completed"}, turn : Nat]
Tell(e) == IF Authoritative(e) THEN <<Gist(e)>> ELSE << >>
Speaks(S) == \A e \in S : Authoritative(e) => e.turn \in Nat

LEMMA TellType == ASSUME NEW S, Speaks(S), NEW e \in S PROVE Tell(e) \in Seq(Told)
<1>1. Authoritative(e) => Gist(e) \in Told
  BY DEF Speaks, Authoritative, Gist, Told
<1> QED
  BY <1>1 DEF Tell

Traces(q, f) ==
  /\ f[0] = << >>
  /\ \A k \in 0..Len(q) : f[k] \in Seq(Told)
  /\ \A k \in 0..Len(q) - 1 : f[k + 1] = f[k] \o Tell(q[k + 1])

LEMMA BriefTraced ==
  ASSUME NEW S, Speaks(S), NEW q \in Seq(S)
  PROVE  \E f : Traces(q, f) /\ Brief(q) = f[Len(q)]
<1> DEFINE n == Len(q)
           f == CHOOSE g : Grows(q, g, n)
<1>1. n \in Nat
  OBVIOUS
<1>2. Grows(q, f, n)
  BY <1>1, GrowsExists
<1>3. Brief(q) = f[n]
  BY DEF Brief, Grows, Grown
<1> HIDE DEF f
<1>4. \A k \in 0..n : f[k] = Grown(q, f, k)
  BY <1>1, <1>2 DEF Grows
<1>5. \A k \in 0..n - 1 :
        f[k] \in Seq(Told) => f[k + 1] = f[k] \o Tell(q[k + 1]) /\ f[k + 1] \in Seq(Told)
  <2> SUFFICES ASSUME NEW k \in 0..n - 1, f[k] \in Seq(Told)
               PROVE  f[k + 1] = f[k] \o Tell(q[k + 1]) /\ f[k + 1] \in Seq(Told)
    OBVIOUS
  <2>1. q[k + 1] \in S /\ k + 1 \in 0..n /\ k + 1 # 0 /\ (k + 1) - 1 = k
    BY <1>1
  <2>2. f[k + 1] = IF Authoritative(q[k + 1]) THEN Append(f[k], Gist(q[k + 1])) ELSE f[k]
    BY <1>4, <2>1 DEF Grown
  <2>3. Tell(q[k + 1]) \in Seq(Told)
    BY <2>1, TellType
  <2>4. Authoritative(q[k + 1]) => Gist(q[k + 1]) \in Told
    BY <2>1 DEF Speaks, Authoritative, Gist, Told
  <2>5. Authoritative(q[k + 1]) =>
          Append(f[k], Gist(q[k + 1])) = f[k] \o <<Gist(q[k + 1])>>
    BY <2>4, AppendIsConcat
  <2>6. f[k] \o << >> = f[k]
    BY ConcatEmptySeq
  <2>7. f[k + 1] = f[k] \o Tell(q[k + 1])
    BY <2>2, <2>5, <2>6 DEF Tell
  <2>8. f[k] \o Tell(q[k + 1]) \in Seq(Told)
    BY <2>3, ConcatProperties
  <2> QED
    BY <2>7, <2>8
<1>6. f[0] = << >> /\ f[0] \in Seq(Told)
  <2>1. f[0] = Grown(q, f, 0)
    BY <1>1, <1>4
  <2>2. << >> \in Seq(Told)
    OBVIOUS
  <2> QED
    BY <2>1, <2>2 DEF Grown
<1> HIDE DEF n
<1>7. ASSUME NEW m \in 0..n PROVE f[m] \in Seq(Told)
  <2> DEFINE P == {k \in 0..m : f[k] \in Seq(Told)}
  <2>1. m \in Nat /\ P \in SUBSET (0..m) /\ 0 \in P
    <3>1. m \in Nat /\ 0 \in 0..m
      BY <1>1
    <3>2. 0 \in P
      BY <1>6, <3>1, Zenon
    <3> QED
      BY <3>1, <3>2
  <2>2. \A k \in P : k < m => k \in 0..n - 1 /\ k + 1 \in 0..m
    BY <1>1
  <2>3. \A k \in P : k < m => k + 1 \in P
    BY <1>5, <2>2
  <2> HIDE DEF P
  <2>4. m \in P
    BY <2>1, <2>3, UpTo
  <2> QED
    BY <2>4 DEF P
<1>8. Traces(q, f)
  <2>1. \A k \in 0..n : f[k] \in Seq(Told)
    BY <1>7
  <2>2. \A k \in 0..n - 1 : k \in 0..n
    BY <1>1
  <2>3. \A k \in 0..n - 1 : f[k + 1] = f[k] \o Tell(q[k + 1])
    BY <1>5, <2>1, <2>2
  <2> QED
    BY <1>6, <2>1, <2>3 DEF Traces, n
<1> QED
  BY <1>3, <1>8 DEF n

\* Two runs over sequences that agree up to n agree there.
LEMMA TracesAgree ==
  ASSUME NEW q, NEW r, NEW f, NEW g, Traces(q, f), Traces(r, g),
         NEW n \in Nat, Len(q) \in Nat, Len(r) \in Nat, n <= Len(q), n <= Len(r),
         \A k \in 1..n : q[k] = r[k]
  PROVE  f[n] = g[n]
<1> DEFINE P == {k \in 0..n : f[k] = g[k]}
<1>1. 0 \in P
  BY DEF Traces
<1>2. ASSUME NEW k \in P, k < n PROVE k + 1 \in P
  <2>1. k \in 0..Len(q) - 1 /\ k \in 0..Len(r) - 1 /\ k + 1 \in 1..n /\ k + 1 \in 0..n
    BY <1>2
  <2>2. f[k] = g[k]
    OBVIOUS
  <2>3. f[k + 1] = f[k] \o Tell(q[k + 1]) /\ g[k + 1] = g[k] \o Tell(r[k + 1])
    BY <2>1 DEF Traces
  <2>4. q[k + 1] = r[k + 1]
    BY <2>1
  <2> QED
    BY <2>1, <2>2, <2>3, <2>4
<1> HIDE DEF P
<1>3. n \in P
  <2>1. P \in SUBSET (0..n)
    BY DEF P
  <2> QED
    BY <1>1, <1>2, <2>1, UpTo
<1> QED
  BY <1>3 DEF P

LEMMA BriefType == ASSUME NEW S, Speaks(S), NEW q \in Seq(S) PROVE Brief(q) \in Seq(Told)
<1>1. Len(q) \in 0..Len(q)
  OBVIOUS
<1> QED
  BY <1>1, BriefTraced DEF Traces

LEMMA BriefEmpty == Brief(<< >>) = << >>
<1>1. << >> \in Seq({}) /\ Speaks({}) /\ Len(<< >>) = 0
  BY DEF Speaks
<1> QED
  BY <1>1, BriefTraced DEF Traces

LEMMA BriefAppend ==
  ASSUME NEW S, Speaks(S), NEW q \in Seq(S), NEW e \in S
  PROVE  Brief(Append(q, e)) = Brief(q) \o Tell(e)
<1> DEFINE r == Append(q, e)
<1>1. /\ r \in Seq(S) /\ Len(r) = Len(q) + 1 /\ r[Len(r)] = e
      /\ \A k \in 1..Len(q) : q[k] = r[k]
  BY AppendProperties
<1>2. PICK f : Traces(q, f) /\ Brief(q) = f[Len(q)]
  BY BriefTraced
<1> HIDE DEF r
<1>3. PICK g : Traces(r, g) /\ Brief(r) = g[Len(r)]
  BY <1>1, BriefTraced
<1>4. g[Len(q)] = f[Len(q)]
  BY <1>1, <1>2, <1>3, TracesAgree
<1>5. g[Len(q) + 1] = g[Len(q)] \o Tell(r[Len(q) + 1])
  <2>1. Len(q) \in 0..Len(r) - 1
    BY <1>1
  <2> QED
    BY <1>3, <2>1 DEF Traces
<1> QED
  BY <1>1, <1>2, <1>3, <1>4, <1>5 DEF r

LEMMA Told3 ==
  ASSUME NEW a \in Seq(Told), NEW b \in Seq(Told), NEW d \in Seq(Told)
  PROVE  (a \o b) \o d = a \o (b \o d)
BY ConcatAssociative

LEMMA BriefHead ==
  ASSUME NEW S, Speaks(S), NEW q \in Seq(S), q # << >>
  PROVE  Brief(q) = Tell(Head(q)) \o Brief(Tail(q))
<1> DEFINE r == Tail(q)
           n == Len(r)
<1>1. /\ r \in Seq(S) /\ n \in Nat /\ Len(q) = n + 1 /\ Head(q) \in S /\ Head(q) = q[1]
      /\ \A k \in 1..n : r[k] = q[k + 1]
  BY HeadTailProperties
<1>2. PICK f : Traces(q, f) /\ Brief(q) = f[Len(q)]
  BY BriefTraced
<1>3. PICK g : Traces(r, g) /\ Brief(r) = g[n]
  BY <1>1, BriefTraced
<1>4. Tell(Head(q)) \in Seq(Told)
  BY <1>1, TellType
<1> DEFINE t == Tell(Head(q))
<1> HIDE DEF r, n, t
<1> DEFINE P == {k \in 0..n : f[k + 1] = t \o g[k]}
<1>5. 0 \in P
  <2>1. f[0 + 1] = f[0] \o Tell(q[0 + 1]) /\ f[0] = << >> /\ g[0] = << >>
    <3>1. 0 \in 0..Len(q) - 1
      BY <1>1
    <3> QED
      BY <1>2, <1>3, <3>1 DEF Traces
  <2>2. << >> \o t = t /\ t \o << >> = t
    BY <1>4, ConcatEmptySeq DEF t
  <2>3. Tell(q[0 + 1]) = t
    BY <1>1 DEF t
  <2>4. f[0 + 1] = t \o g[0]
    BY <2>1, <2>2, <2>3
  <2> QED
    BY <1>1, <2>4
<1>6. ASSUME NEW k \in P, k < n PROVE k + 1 \in P
  <2>1. /\ k \in 0..n - 1 /\ k + 1 \in 0..n /\ k + 1 \in 0..Len(q) - 1 /\ k + 1 \in 1..n
        /\ k \in 0..n
    BY <1>1, <1>6
  <2>2. f[k + 1] = t \o g[k]
    OBVIOUS
  <2>3. g[k + 1] = g[k] \o Tell(r[k + 1])
    BY <1>3, <2>1 DEF Traces, n
  <2>4. f[(k + 1) + 1] = f[k + 1] \o Tell(q[(k + 1) + 1])
    BY <1>2, <2>1 DEF Traces
  <2>5. r[k + 1] = q[(k + 1) + 1]
    BY <1>1, <2>1
  <2>6. g[k] \in Seq(Told)
    BY <1>3, <2>1 DEF Traces, n
  <2>7. r[k + 1] \in S
    BY <1>1, <2>1, ElementOfSeq DEF n
  <2>8. Tell(r[k + 1]) \in Seq(Told)
    BY <2>7, TellType
  <2>9. (t \o g[k]) \o Tell(r[k + 1]) = t \o (g[k] \o Tell(r[k + 1]))
    <3>1. t \in Seq(Told) /\ g[k] \in Seq(Told) /\ Tell(r[k + 1]) \in Seq(Told)
      BY <1>4, <2>6, <2>8 DEF t
    <3> DEFINE x == g[k]
               y == Tell(r[k + 1])
    <3>2. x \in Seq(Told) /\ y \in Seq(Told)
      BY <3>1
    <3> HIDE DEF x, y
    <3>3. (t \o x) \o y = t \o (x \o y)
      BY <3>1, <3>2, Told3
    <3> QED
      BY <3>3 DEF x, y
  <2> QED
    BY <2>1, <2>2, <2>3, <2>4, <2>5, <2>9
<1> HIDE DEF P
<1>7. n \in P
  <2>1. P \in SUBSET (0..n)
    BY DEF P
  <2> QED
    BY <1>1, <1>5, <1>6, <2>1, UpTo
<1>8. f[n + 1] = t \o g[n]
  BY <1>7 DEF P
<1> QED
  BY <1>1, <1>2, <1>3, <1>8 DEF t, r

-----------------------------------------------------------------------------
\* What was said is what was heard, what waits and what is still to be read.

Streamed ==
  /\ caller.heard \in Seq(Told)
  /\ ~caller.connected /\ caller.down = "no" => caller.heard = << >>
  /\ NothingLost

Outputs == Answers \cup Messages

LEMMA Speakers == Speaks(Heards) /\ Speaks(Outputs) /\ Speaks(Messages)
<1>1. Turns \subseteq Nat
  BY TransportAssumption DEF Turns
<1> QED
  BY <1>1 DEF Speaks, Heards, Outputs, Answers, Messages, Authoritative

LEMMA ToldEmpty == << >> \in Seq(Told) /\ \A a \in Seq(Told) : a \o << >> = a /\ << >> \o a = a
BY ConcatEmptySeq

\* Nothing of the stream moves.
LEMMA StreamRests ==
  ASSUME Streamed, caller'.conn = caller.conn, caller'.heard = caller.heard,
         caller'.connected => /\ caller.connected /\ rpc'[C].events = rpc[C].events
                              /\ srv'[C].stdout = srv[C].stdout
                              /\ srv'[C].said = srv[C].said,
         ~caller'.connected /\ caller'.down = "no" => ~caller.connected /\ caller.down = "no"
  PROVE  Streamed'
BY DEF Streamed, NothingLost, C

\* What a connected worker knows of its stream.
LEMMA OwnStream ==
  ASSUME TransportInv, Links, Streamed, caller.connected
  PROVE  /\ C \in Conns /\ ~rpc[C].cut /\ rpc[C].events \in Seq(Heards)
         /\ srv[C].stdout \in Seq(Outputs) /\ srv[C].said \in Seq(Messages)
         /\ Brief(rpc[C].events) \in Seq(Told) /\ Brief(srv[C].stdout) \in Seq(Told)
         /\ Brief(srv[C].said) \in Seq(Told) /\ caller.heard \in Seq(Told)
         /\ (caller.heard \o Brief(rpc[C].events)) \o Brief(srv[C].stdout)
              = Brief(srv[C].said)
<1>1. C \in Conns /\ rpc[C] \in Rpcs /\ ~Still(rpc[C], srv[C].alive)
      /\ Fits(caller, C, rpc[C], srv[C].alive)
  BY Own
<1>2. ~rpc[C].cut
  BY <1>1 DEF Fits
<1>3. rpc[C].events \in Seq(Heards)
  BY <1>1 DEF Rpcs
<1>4. srv[C].stdout \in Seq(Outputs) /\ srv[C].said \in Seq(Messages)
  BY <1>1 DEF TransportInv, PipesKnown, Servers, Outputs
<1>5. /\ Brief(rpc[C].events) \in Seq(Told) /\ Brief(srv[C].stdout) \in Seq(Told)
      /\ Brief(srv[C].said) \in Seq(Told)
  BY <1>3, <1>4, Speakers, BriefType
<1>6. (caller.heard \o Brief(rpc[C].events)) \o Brief(srv[C].stdout) = Brief(srv[C].said)
  BY DEF Streamed, NothingLost
<1>7. caller.heard \in Seq(Told)
  BY DEF Streamed
<1> QED
  BY <1>1, <1>2, <1>3, <1>4, <1>5, <1>6, <1>7, Zenon

\* The stream moves on between the pipe and the channel.
LEMMA StreamMoves ==
  ASSUME TransportInv, Links, Streamed, caller.connected,
         caller'.conn = caller.conn, caller'.heard = caller.heard,
         caller'.connected = caller.connected, srv'[C].said = srv[C].said,
         Brief(rpc'[C].events) \in Seq(Told), Brief(srv'[C].stdout) \in Seq(Told),
         Brief(rpc'[C].events) \o Brief(srv'[C].stdout)
           = Brief(rpc[C].events) \o Brief(srv[C].stdout)
  PROVE  Streamed'
<1>1. (caller.heard \o Brief(rpc'[C].events)) \o Brief(srv'[C].stdout)
        = (caller.heard \o Brief(rpc[C].events)) \o Brief(srv[C].stdout)
  <2> DEFINE a == Brief(rpc[C].events)
             b == Brief(srv[C].stdout)
             x == Brief(rpc'[C].events)
             y == Brief(srv'[C].stdout)
             h == caller.heard
  <2>1. /\ a \in Seq(Told) /\ b \in Seq(Told) /\ x \in Seq(Told) /\ y \in Seq(Told)
        /\ h \in Seq(Told) /\ x \o y = a \o b
    <3>1. a \in Seq(Told) /\ b \in Seq(Told) /\ h \in Seq(Told)
      BY OwnStream
    <3>2. x \in Seq(Told) /\ y \in Seq(Told)
      OBVIOUS
    <3>3. x \o y = a \o b
      OBVIOUS
    <3> QED
      BY <3>1, <3>2, <3>3, Zenon
  <2> HIDE DEF a, b, x, y, h
  <2>2. (h \o x) \o y = h \o (x \o y)
    <3>1. h \in Seq(Told) /\ x \in Seq(Told) /\ y \in Seq(Told)
      BY <2>1
    <3> QED
      BY <3>1, Told3, SMTT(20)
  <2>3. (h \o a) \o b = h \o (a \o b)
    <3>1. h \in Seq(Told) /\ a \in Seq(Told) /\ b \in Seq(Told)
      BY <2>1
    <3> QED
      BY <3>1, Told3, SMTT(20)
  <2> QED
    BY <2>1, <2>2, <2>3 DEF a, b, x, y, h
<1> QED
  BY <1>1, OwnStream DEF Streamed, NothingLost, C

\* The reader took the head of the pipe, and sent what it tells.
LEMMA StreamRead ==
  ASSUME TransportInv, Links, Streamed, caller.connected,
         caller'.conn = caller.conn, caller'.heard = caller.heard,
         caller'.connected = caller.connected, srv'[C].said = srv[C].said,
         srv[C].stdout # << >>, srv'[C].stdout = Tail(srv[C].stdout),
         NEW e \in Heards,
         \/ /\ rpc'[C].events = Append(rpc[C].events, e)
            /\ Tell(e) = Tell(Head(srv[C].stdout))
         \/ rpc'[C].events = rpc[C].events /\ Tell(Head(srv[C].stdout)) = << >>
  PROVE  Streamed'
<1> DEFINE q == srv[C].stdout
           t == Tell(Head(q))
<1>1. q \in Seq(Outputs) /\ q # << >> /\ rpc[C].events \in Seq(Heards)
      /\ Brief(rpc[C].events) \in Seq(Told)
  BY OwnStream
<1>2. Head(q) \in Outputs /\ Tail(q) \in Seq(Outputs)
  BY <1>1, HeadTailProperties
<1>3. t \in Seq(Told) /\ Brief(Tail(q)) \in Seq(Told) /\ Brief(q) = t \o Brief(Tail(q))
  BY <1>1, <1>2, Speakers, TellType, BriefType, BriefHead
<1>4. Brief(srv'[C].stdout) = Brief(Tail(q))
  OBVIOUS
<1>5. Brief(rpc'[C].events) = Brief(rpc[C].events) \o t
  <2>1. CASE rpc'[C].events = Append(rpc[C].events, e) /\ Tell(e) = t
    BY <1>1, <2>1, Speakers, BriefAppend
  <2>2. CASE rpc'[C].events = rpc[C].events /\ t = << >>
    BY <1>1, <2>2, ToldEmpty
  <2> QED
    BY <2>1, <2>2
<1> DEFINE a == Brief(rpc[C].events)
           b == Brief(Tail(q))
<1>9. (a \o t) \o b = a \o (t \o b)
  <2>1. a \in Seq(Told) /\ t \in Seq(Told) /\ b \in Seq(Told)
    BY <1>1, <1>3
  <2> HIDE DEF a, b, t
  <2> QED
    BY <2>1, Told3
<1> HIDE DEF q, t
<1>6. Brief(rpc'[C].events) \in Seq(Told)
  BY <1>1, <1>3, <1>5, ConcatProperties
<1>7. Brief(rpc'[C].events) \o Brief(srv'[C].stdout) = Brief(rpc[C].events) \o Brief(q)
  BY <1>3, <1>4, <1>5, <1>9
<1>8. Brief(srv'[C].stdout) \in Seq(Told)
  BY <1>3, <1>4
<1> QED
  BY <1>6, <1>7, <1>8, StreamMoves DEF q

-----------------------------------------------------------------------------
\* The steps.

LEMMA InitStream == TransportInit => Streamed
BY ToldEmpty DEF TransportInit, Streamed, NothingLost

LEMMA ConnectStream == TransportInv /\ Links /\ Streamed /\ Connect => Streamed'
<1> SUFFICES ASSUME TransportInv, Links, Streamed, Connect PROVE Streamed'
  OBVIOUS
<1> DEFINE c == C + 1
<1>1. c \in Conns
  BY Own, TransportAssumption DEF Connect, Owner, C, Conns
<1>2. caller.heard = << >>
  BY DEF Connect, Ready, Streamed
<1>3. caller'.conn = c /\ caller'.connected /\ caller'.heard = caller.heard
  BY Own DEF Connect
<1>4. rpc'[c].events = << >>
  BY <1>1 DEF Connect, SpawnIo, FreshRpc, Links, RpcKnown
<1>5. srv'[c].stdout = << >> /\ srv'[c].said = << >>
  BY <1>1 DEF Connect, FreshSrv, TransportInv, PipesKnown
<1> HIDE DEF c
<1>6. (<< >> \o Brief(rpc'[c].events)) \o Brief(srv'[c].stdout) = Brief(srv'[c].said)
  BY <1>4, <1>5, BriefEmpty, ToldEmpty
<1>7. caller'.heard = << >>
  BY <1>2, <1>3
<1> QED
  BY <1>3, <1>6, <1>7, ToldEmpty DEF Streamed, NothingLost, C

\* The steps of the worker's calls, and of a shutdown up to its end.
CallerSteps ==
  \/ \E kind \in Requests : Request(kind)
  \/ CallSteps \/ GiveUp \/ Shutdown \/ CloseStdin

\* The reader of r is where that of x is, and the same waits in the channel.
Likewise(r, x) ==
  r.events = x.events /\ r.cache = x.cache /\ r.cut = x.cut /\ r.reader = x.reader

LEMMA CallMakes ==
  ASSUME TransportInv, Links, CallerSteps
  PROVE  \A c \in Conns : /\ Likewise(rpc'[c], rpc[c])
                          /\ srv'[c].stdout = srv[c].stdout /\ srv'[c].said = srv[c].said
<1>1. rpc \in [Conns -> Rpcs] /\ srv \in [Conns -> Servers]
  BY DEF Links, RpcKnown, TransportInv, PipesKnown
<1>2. C \in Conns => Likewise(rpc'[C], rpc[C])
  <2>1. CASE \E kind \in Requests : Request(kind)
    <3>1. PICK kind \in Requests : Request(kind)
      BY <2>1
    <3> DEFINE r == [rpc[C] EXCEPT !.pending = @ \cup Ids(StartCall(kind))]
    <3>2. rpc' = [rpc EXCEPT ![C] = r]
      BY <3>1 DEF Request
    <3>3. C \in Conns => Likewise(r, rpc[C])
      BY <1>1 DEF Rpcs, Likewise
    <3> HIDE DEF r
    <3> QED
      BY <1>1, <3>2, <3>3
  <2>2. CASE TakeLock \/ Answered \/ TimedOut
    <3> DEFINE r1 == [rpc[C] EXCEPT !.lock = "caller"]
               r2 == [rpc[C] EXCEPT !.pending = @ \ {caller.call.id}]
    <3>1. rpc' = rpc \/ rpc' = [rpc EXCEPT ![C] = r1] \/ rpc' = [rpc EXCEPT ![C] = r2]
      BY <2>2 DEF TakeLock, Answered, TimedOut
    <3>2. C \in Conns => Likewise(r1, rpc[C]) /\ Likewise(r2, rpc[C])
      BY <1>1 DEF Rpcs, Likewise
    <3> HIDE DEF r1, r2
    <3> QED
      BY <1>1, <3>1, <3>2 DEF Likewise
  <2>3. CASE Write
    <3> DEFINE r1 == [rpc[C] EXCEPT !.lock = "free"]
               r2 == [rpc[C] EXCEPT !.lock = "free", !.pending = @ \ {caller.call.id}]
    <3>1. rpc' = [rpc EXCEPT ![C] = r1] \/ rpc' = [rpc EXCEPT ![C] = r2]
      BY <2>3 DEF Write
    <3>2. C \in Conns => Likewise(r1, rpc[C]) /\ Likewise(r2, rpc[C])
      BY <1>1 DEF Rpcs, Likewise
    <3> HIDE DEF r1, r2
    <3> QED
      BY <1>1, <3>1, <3>2
  <2>4. CASE GiveUp \/ Shutdown \/ CloseStdin
    <3> DEFINE r1 == [rpc[C] EXCEPT !.lock = "free"]
               r2 == [rpc[C] EXCEPT !.open = FALSE]
    <3>1. rpc' = rpc \/ rpc' = [rpc EXCEPT ![C] = r1] \/ rpc' = [rpc EXCEPT ![C] = r2]
      BY <2>4 DEF GiveUp, Shutdown, CloseStdin
    <3>2. C \in Conns => Likewise(r1, rpc[C]) /\ Likewise(r2, rpc[C])
      BY <1>1 DEF Rpcs, Likewise
    <3> HIDE DEF r1, r2
    <3> QED
      BY <1>1, <3>1, <3>2 DEF Likewise
  <2> QED
    BY <2>1, <2>2, <2>3, <2>4 DEF CallerSteps, CallSteps
<1>3. C \in Conns => srv'[C].stdout = srv[C].stdout /\ srv'[C].said = srv[C].said
  <2>1. CASE Write
    <3> DEFINE line == [id |-> caller.call.id, serial |-> caller.call.serial]
               s1 == [srv[C] EXCEPT !.partial = FALSE]
               s2 == [srv[C] EXCEPT !.stdin = Append(@, line)]
    <3>1. srv' = srv \/ srv' = [srv EXCEPT ![C] = s1] \/ srv' = [srv EXCEPT ![C] = s2]
      BY <2>1 DEF Write, Line
    <3>2. C \in Conns => /\ s1.stdout = srv[C].stdout /\ s1.said = srv[C].said
                         /\ s2.stdout = srv[C].stdout /\ s2.said = srv[C].said
      BY <1>1 DEF Servers
    <3> HIDE DEF s1, s2
    <3> QED
      BY <1>1, <3>1, <3>2
  <2>2. CASE GiveUp
    BY <1>1, <2>2 DEF GiveUp, Servers
  <2>3. CASE srv' = srv
    BY <2>3
  <2> QED
    BY <2>1, <2>2, <2>3 DEF CallerSteps, CallSteps, Request, TakeLock, Answered, TimedOut, Shutdown,
                            CloseStdin
<1>4. \A c \in Conns \ {C} : rpc'[c] = rpc[c] /\ srv'[c] = srv[c]
  BY <1>1 DEF CallerSteps, CallSteps, Request, TakeLock, Write, Line, Answered, TimedOut,
              GiveUp, Shutdown, CloseStdin
<1> QED
  BY <1>2, <1>3, <1>4 DEF Likewise

LEMMA CallStream == ASSUME TransportInv, Links, Streamed, CallerSteps PROVE Streamed'
<1>1. Owner(caller) /\ (caller.connected => C \in Conns)
      /\ DOMAIN caller = {"conn", "connected", "call", "down", "next", "heard",
                          "theme", "left"}
  BY Own
<1>2. C \in Conns => /\ rpc'[C].events = rpc[C].events
                     /\ srv'[C].stdout = srv[C].stdout /\ srv'[C].said = srv[C].said
  BY CallMakes DEF Likewise
<1>4. /\ caller'.conn = caller.conn /\ caller'.heard = caller.heard
      /\ \/ caller'.connected = caller.connected /\ caller'.down = caller.down
         \/ caller'.connected = FALSE /\ caller'.down = "locking"
         \/ ~caller'.connected /\ ~caller.connected /\ caller'.down # "no"
  <2>1. ASSUME NEW ok, caller' = Ended(ok)
        PROVE  /\ caller'.conn = caller.conn /\ caller'.heard = caller.heard
               /\ \/ caller'.connected = caller.connected /\ caller'.down = caller.down
                  \/ caller'.connected = FALSE /\ caller'.down = "locking"
    BY <1>1, <2>1 DEF Ended
  <2>2. CASE \E kind \in Requests : Request(kind)
    BY <1>1, <2>2 DEF Request
  <2>3. CASE TakeLock \/ Write
    BY <1>1, <2>1, <2>3 DEF TakeLock, Write
  <2>4. CASE Answered \/ TimedOut
    BY <2>1, <2>4 DEF Answered, TimedOut
  <2>5. CASE GiveUp \/ Shutdown
    BY <1>1, <2>5 DEF GiveUp, Shutdown
  <2>6. CASE CloseStdin
    BY <1>1, <2>6 DEF CloseStdin, Owner
  <2> QED
    BY <2>2, <2>3, <2>4, <2>5, <2>6 DEF CallerSteps, CallSteps
<1> QED
  BY <1>1, <1>2, <1>4, StreamRests

LEMMA EndShutdownStream == TransportInv /\ Links /\ Streamed /\ EndShutdown => Streamed'
<1> SUFFICES ASSUME TransportInv, Links, Streamed, EndShutdown PROVE Streamed'
  OBVIOUS
<1>1. caller'.heard = << >> /\ ~caller'.connected
  BY Own DEF EndShutdown, Owner
<1> QED
  BY <1>1, ToldEmpty DEF Streamed, NothingLost

\* The worker takes what waits.
LEMMA NextEventStream == TransportInv /\ Links /\ Streamed /\ NextEvent => Streamed'
<1> SUFFICES ASSUME TransportInv, Links, Streamed, NextEvent PROVE Streamed'
  OBVIOUS
<1> DEFINE q == rpc[C].events
           t == Tell(Head(q))
<1>1. /\ caller.connected /\ q # << >> /\ srv' = srv /\ q \in Seq(Heards) /\ C \in Conns
      /\ Brief(srv[C].stdout) \in Seq(Told) /\ caller.heard \in Seq(Told)
      /\ (caller.heard \o Brief(q)) \o Brief(srv[C].stdout) = Brief(srv[C].said)
  BY OwnStream DEF NextEvent
<1>2. Head(q) \in Heards /\ Tail(q) \in Seq(Heards)
  BY <1>1, HeadTailProperties
<1>3. t \in Seq(Told) /\ Brief(Tail(q)) \in Seq(Told) /\ Brief(q) = t \o Brief(Tail(q))
  BY <1>1, <1>2, Speakers, TellType, BriefType, BriefHead
<1>4. Brief(<<Head(q)>>) = t
  <2>1. << >> \in Seq(Heards) /\ <<Head(q)>> = Append(<< >>, Head(q))
    OBVIOUS
  <2>2. Brief(Append(<< >>, Head(q))) = Brief(<< >>) \o t
    BY <1>2, <2>1, Speakers, BriefAppend
  <2> QED
    BY <1>3, <2>1, <2>2, BriefEmpty, ToldEmpty
<1>5. /\ caller'.conn = C /\ caller'.connected
      /\ caller'.heard = caller.heard \o Brief(<<Head(q)>>)
  BY <1>1, Own DEF NextEvent, C
<1>6. rpc'[C].events = Tail(q)
  BY <1>1 DEF NextEvent, Links, RpcKnown, Rpcs
<1> HIDE DEF q, t
<1>7. (caller.heard \o t) \o Brief(Tail(q)) = caller.heard \o Brief(q)
  <2> DEFINE h == caller.heard
             b == Brief(Tail(q))
  <2>1. h \in Seq(Told) /\ t \in Seq(Told) /\ b \in Seq(Told)
    BY <1>1, <1>3
  <2> HIDE DEF h, b
  <2>2. (h \o t) \o b = h \o (t \o b)
    BY <2>1, Told3
  <2> QED
    BY <1>3, <2>2 DEF h, b
<1>8. (caller'.heard \o Brief(rpc'[C].events)) \o Brief(srv'[C].stdout) = Brief(srv'[C].said)
  BY <1>1, <1>4, <1>5, <1>6, <1>7
<1>9. caller'.heard \in Seq(Told)
  BY <1>1, <1>3, <1>4, <1>5, ConcatProperties
<1> QED
  BY <1>5, <1>8, <1>9 DEF Streamed, NothingLost, C

\* A step of the reader, the watcher or the server of one connection leaves the
\* others alone.
ReaderSteps(c) ==
  Reader(c) \/ ReaderAborted(c) \/ ChildExited(c) \/ ServerReads(c) \/ ServerSays(c)
  \/ ServerEnds(c)

LEMMA GoesElsewhere ==
  ASSUME NEW c \in Conns, NEW d \in Conns \ {c}, NEW r, DOMAIN r = Conns, r[d] = rpc[d],
         \/ rpc' = Goes(c, r, "reading")
         \/ rpc' = Goes(c, r, "declining")
         \/ rpc' = Goes(c, r, "closing")
         \/ rpc' = Goes(c, r, "draining")
  PROVE  rpc'[d] = rpc[d]
<1>1. \A x : [r EXCEPT ![c] = x][d] = r[d]
  OBVIOUS
<1>2. ASSUME NEW state, rpc' = Goes(c, r, state) PROVE rpc'[d] = r[d]
  <2>1. CASE r[c].cut
    BY <1>1, <1>2, <2>1 DEF Goes
  <2>2. CASE ~r[c].cut
    <3>1. rpc' = [r EXCEPT ![c].reader = state]
      BY <1>2, <2>2 DEF Goes
    <3> QED
      BY <3>1
  <2> QED
    BY <2>1, <2>2
<1> QED
  BY <1>2

LEMMA Elsewhere ==
  ASSUME TransportInv, Links, NEW c \in Conns, NEW d \in Conns \ {c}, ReaderSteps(c)
  PROVE  rpc'[d] = rpc[d] /\ srv'[d] = srv[d]
<1>1. DOMAIN rpc = Conns /\ DOMAIN srv = Conns
  BY DEF TransportInv, PipesKnown, Links, RpcKnown
<1>2. \A e : /\ DOMAIN Sent(c, e) = Conns /\ Sent(c, e)[d] = rpc[d]
             /\ DOMAIN TrySent(c, e) = Conns /\ TrySent(c, e)[d] = rpc[d]
  BY <1>1 DEF Sent, TrySent
<1>3. srv'[d] = srv[d]
  BY <1>1 DEF ReaderSteps, Reader, ReadAnswer, ReadNote, ReadDelta, ReadItem, ReadCompleted,
              ReadAsk, ReadBroken, DeclineLock, DeclineWrite, Declined, ReaderEof, ReaderDrain,
              ReaderAborted, ChildExited, ServerReads, ServerSays, ServerEnds, Consumed
<1>4. rpc'[d] = rpc[d]
  <2>1. CASE ReadAnswer(c)
    <3> DEFINE r == [rpc EXCEPT ![c].pending = @ \ {Said(c).id}]
    <3>1. DOMAIN r = Conns /\ r[d] = rpc[d] /\ rpc' = Goes(c, r, "reading")
      BY <1>1, <2>1 DEF ReadAnswer
    <3> HIDE DEF r
    <3> QED
      BY <3>1, GoesElsewhere
  <2>2. CASE ReadItem(c)
    <3> DEFINE r == [rpc EXCEPT ![c].cache[Said(c).turn] = Cached(@, Said(c))]
    <3>1. DOMAIN r = Conns /\ r[d] = rpc[d] /\ rpc' = Goes(c, r, "reading")
      BY <1>1, <2>2 DEF ReadItem
    <3> HIDE DEF r
    <3> QED
      BY <3>1, GoesElsewhere
  <2>3. CASE ReadNote(c) \/ ReadDelta(c) \/ ReadAsk(c) \/ ReadBroken(c) \/ ReaderEof(c)
    <3>1. PICK e : \/ rpc' = Goes(c, Sent(c, e), "reading")
                   \/ rpc' = Goes(c, Sent(c, e), "closing")
                   \/ rpc' = Goes(c, Sent(c, e), "draining")
                   \/ rpc' = Goes(c, TrySent(c, e), "reading")
                   \/ rpc' = Goes(c, TrySent(c, e), "declining")
      BY <2>3 DEF ReadNote, ReadDelta, ReadAsk, ReadBroken, ReaderEof, EventSent
    <3> DEFINE r1 == Sent(c, e)
               r2 == TrySent(c, e)
    <3>2. /\ DOMAIN r1 = Conns /\ r1[d] = rpc[d] /\ DOMAIN r2 = Conns /\ r2[d] = rpc[d]
          /\ \/ rpc' = Goes(c, r1, "reading") \/ rpc' = Goes(c, r1, "draining")
             \/ rpc' = Goes(c, r1, "closing")
             \/ rpc' = Goes(c, r2, "reading") \/ rpc' = Goes(c, r2, "declining")
      BY <1>2, <3>1
    <3> HIDE DEF r1, r2
    <3> QED
      BY <3>2, GoesElsewhere
  <2>4. CASE ReadCompleted(c)
    <3>1. PICK e, t : rpc' = Goes(c, [Sent(c, e) EXCEPT ![c].cache[t] = NotCached], "reading")
      BY <2>4 DEF ReadCompleted
    <3> DEFINE r == [Sent(c, e) EXCEPT ![c].cache[t] = NotCached]
    <3>2. DOMAIN r = Conns /\ r[d] = rpc[d] /\ rpc' = Goes(c, r, "reading")
      BY <1>2, <3>1
    <3> HIDE DEF r
    <3> QED
      BY <3>2, GoesElsewhere
  <2>8. CASE DeclineLock(c)
    <3>1. CASE rpc' = [rpc EXCEPT ![c].lock = "reader"]
      BY <1>1, <3>1
    <3>2. CASE rpc' = Goes(c, rpc, "reading")
      BY <1>1, <3>2, GoesElsewhere
    <3> QED
      BY <2>8, <3>1, <3>2 DEF DeclineLock
  <2>9. CASE DeclineWrite(c)
    <3> DEFINE r == [rpc EXCEPT ![c].lock = "free"]
    <3>1. DOMAIN r = Conns /\ r[d] = rpc[d] /\ rpc' = Goes(c, r, "reading")
      BY <1>1, <2>9 DEF DeclineWrite
    <3> HIDE DEF r
    <3> QED
      BY <3>1, GoesElsewhere
  <2>5. CASE ReaderDrain(c) \/ ReaderAborted(c)
    BY <1>1, <2>5 DEF ReaderDrain, ReaderAborted
  <2>6. CASE ChildExited(c)
    BY <1>2, <2>6 DEF ChildExited
  <2>7. CASE ServerReads(c) \/ ServerSays(c) \/ ServerEnds(c)
    BY <2>7 DEF ServerReads, ServerSays, ServerEnds
  <2> QED
    BY <2>1, <2>2, <2>3, <2>4, <2>5, <2>6, <2>7, <2>8, <2>9 DEF ReaderSteps, Reader
<1> QED
  BY <1>3, <1>4

LEMMA CallerStays ==
  ASSUME TransportInv, Links, NEW c \in Conns, ReaderSteps(c)
  PROVE  /\ caller'.conn = caller.conn /\ caller'.heard = caller.heard
         /\ caller'.connected = caller.connected /\ caller'.down = caller.down
<1>1. DOMAIN caller = {"conn", "connected", "call", "down", "next", "heard", "theme", "left"}
  BY Own
<1>2. \/ caller' = caller
      \/ \E k : caller' = [caller EXCEPT !.call = k]
      \/ \E n : caller' = [caller EXCEPT !.left = n]
  BY DEF ReaderSteps, Reader, ReadAnswer, ReadNote, ReadDelta, ReadItem, ReadCompleted,
         ReadAsk, ReadBroken, DeclineLock, DeclineWrite, ReaderEof, ReaderDrain, ReaderAborted,
         ChildExited, ServerReads, ServerSays, ServerEnds
<1> QED
  BY <1>1, <1>2

\* A step of the reader, watcher or server of another connection, or of one
\* that the worker has done with, is not the worker's.
LEMMA OtherStream ==
  ASSUME TransportInv, Links, Streamed, NEW c \in Conns, ReaderSteps(c),
         ~(caller.connected /\ c = C)
  PROVE  Streamed'
<1>1. caller.connected => C \in Conns \ {c}
  BY Own
<1>2. caller.connected => rpc'[C] = rpc[C] /\ srv'[C] = srv[C]
  BY <1>1, Elsewhere
<1> QED
  BY <1>2, CallerStays, StreamRests

LEMMA GoesOn ==
  ASSUME NEW c \in Conns, NEW r, DOMAIN r = Conns, r[c] \in Rpcs, ~r[c].cut,
         \/ rpc' = Goes(c, r, "reading")
         \/ rpc' = Goes(c, r, "declining")
         \/ rpc' = Goes(c, r, "closing")
         \/ rpc' = Goes(c, r, "draining")
  PROVE  rpc'[c].events = r[c].events /\ rpc'[c].cache = r[c].cache
<1>1. ASSUME NEW state, rpc' = Goes(c, r, state)
      PROVE  rpc'[c].events = r[c].events /\ rpc'[c].cache = r[c].cache
  <2>1. rpc' = [r EXCEPT ![c].reader = state]
    BY <1>1 DEF Goes
  <2> QED
    BY <2>1 DEF Rpcs
<1> QED
  BY <1>1

LEMMA SentOn ==
  ASSUME Links, NEW c \in Conns, ~rpc[c].cut, NEW e \in Heards
  PROVE  /\ DOMAIN Sent(c, e) = Conns /\ Sent(c, e)[c] \in Rpcs /\ ~Sent(c, e)[c].cut
         /\ Sent(c, e)[c].events = Append(rpc[c].events, e)
         /\ Sent(c, e)[c].cache = rpc[c].cache /\ Sent(c, e)[c].reader = rpc[c].reader
<1>1. rpc \in [Conns -> Rpcs]
  BY DEF Links, RpcKnown
<1>2. /\ Sent(c, e) = [rpc EXCEPT ![c] = SentTo(rpc[c], e)]
      /\ SentTo(rpc[c], e) \in Rpcs /\ ~SentTo(rpc[c], e).cut
      /\ SentTo(rpc[c], e).events = Append(rpc[c].events, e)
      /\ SentTo(rpc[c], e).cache = rpc[c].cache /\ SentTo(rpc[c], e).reader = rpc[c].reader
  BY SentIs
<1>3. Sent(c, e)[c] = SentTo(rpc[c], e) /\ DOMAIN Sent(c, e) = Conns
  BY <1>1, <1>2
<1> QED
  BY <1>2, <1>3

\* What the reader makes of the line that it reads.
ReadSteps(c) ==
  \/ ReadAnswer(c) \/ ReadNote(c) \/ ReadDelta(c) \/ ReadItem(c)
  \/ ReadCompleted(c) \/ ReadAsk(c)
         \/ ReadBroken(c)
Completion(m, cache) ==
  Event("completed", m.turn, IF m.text # Empty THEN m.text ELSE cache[m.turn].text)
MadeOf(m, cache, news, events, new) ==
  \/ /\ m.kind \notin {"item", "completed"} /\ news = cache
     /\ \E e \in Heards : /\ e.kind # "completed"
                           /\ \/ new = Append(events, e) /\ Tell(e) = Tell(m)
                              \/ new = events /\ Tell(m) = << >>
  \/ /\ m.kind = "item" /\ new = events
     /\ news = [cache EXCEPT ![m.turn] = Cached(cache[m.turn], m)]
  \/ /\ m.kind = "completed" /\ new = Append(events, Completion(m, cache))
     /\ news = [cache EXCEPT ![m.turn] = NotCached]

LEMMA ReadMakes ==
  ASSUME TransportInv, Links, NEW c \in Conns, ~rpc[c].cut, ReadSteps(c)
  PROVE  MadeOf(Said(c), rpc[c].cache, rpc'[c].cache, rpc[c].events, rpc'[c].events)
<1>1. rpc \in [Conns -> Rpcs] /\ rpc[c] \in Rpcs /\ DOMAIN rpc = Conns
  BY DEF Links, RpcKnown
<1>2. srv[c].stdout # << >>
  BY DEF ReadSteps, ReadAnswer, ReadNote, ReadDelta, ReadItem, ReadCompleted, ReadAsk,
         ReadBroken, Reads
<1>3. Said(c).kind # "answer" => Said(c) \in Messages
  BY <1>2, ConsumedKnown DEF Answers
<1>4. ASSUME NEW kind \in {"note", "delta", "completed"}, NEW text \in Nat,
             Said(c).kind = kind
      PROVE  LET e == Event(kind, Said(c).turn, text) IN
             e \in Heards /\ Tell(e) = Tell(Said(c))
  <2>1. Said(c) \in Messages
    BY <1>3, <1>4
  <2>2. Event(kind, Said(c).turn, text) \in Heards
    BY <2>1, TransportAssumption DEF Event, Heards, Messages, Turns
  <2> QED
    BY <1>4, <2>2 DEF Event, Tell, Authoritative, Gist
<1>5. Diagnostic \in Heards /\ Tell(Diagnostic) = << >> /\ Diagnostic.kind # "completed"
  BY DEF Diagnostic, Event, Heards, Tell, Authoritative, Empty
<1>6. CASE ReadAnswer(c)
  <2> DEFINE r == [rpc EXCEPT ![c].pending = @ \ {Said(c).id}]
  <2>1. /\ DOMAIN r = Conns /\ r[c].events = rpc[c].events /\ r[c].cut = rpc[c].cut
        /\ r[c].cache = rpc[c].cache /\ rpc' = Goes(c, r, "reading")
    BY <1>1, <1>6 DEF ReadAnswer, Rpcs
  <2>2. r[c] \in Rpcs
    <3>1. rpc[c].pending \ {Said(c).id} \in SUBSET Nat
      BY <1>1 DEF Rpcs
    <3> QED
      BY <1>1, <3>1, RpcUpdates
  <2> HIDE DEF r
  <2>3. rpc'[c].events = rpc[c].events /\ rpc'[c].cache = rpc[c].cache
    BY <2>1, <2>2, GoesOn
  <2>4. Tell(Said(c)) = << >> /\ Said(c).kind \notin {"item", "completed"}
    BY <1>6 DEF ReadAnswer, Reads, Said, Tell, Authoritative
  <2> QED
    BY <1>5, <2>3, <2>4 DEF MadeOf
<1>7. CASE ReadItem(c)
  <2> DEFINE t == Said(c).turn
             m == [rpc[c].cache EXCEPT ![t] = Cached(@, Said(c))]
             r == [rpc EXCEPT ![c].cache[t] = Cached(@, Said(c))]
  <2>1. /\ DOMAIN r = Conns /\ r[c].events = rpc[c].events /\ r[c].cut = rpc[c].cut
        /\ rpc' = Goes(c, r, "reading") /\ r[c] = [rpc[c] EXCEPT !.cache = m]
    BY <1>1, <1>7 DEF ReadItem, Rpcs
  <2>2. m \in [Turns -> Entries]
    <3>1. rpc[c].cache \in [Turns -> Entries]
      BY <1>1 DEF Rpcs
    <3>2. Said(c) \in Messages
      BY <1>3, <1>7 DEF ReadItem, Reads, Said
    <3>3. \A old \in Entries : Cached(old, Said(c)) \in Entries
      BY <3>2 DEF Cached, Entries, Messages
    <3> QED
      BY <3>1, <3>3
  <2> HIDE DEF m, r
  <2>3. r[c] \in Rpcs
    BY <1>1, <2>1, <2>2, RpcUpdates
  <2>4. rpc'[c].events = rpc[c].events /\ rpc'[c].cache = r[c].cache
    BY <2>1, <2>3, GoesOn
  <2>5. Said(c).kind = "item" /\ r[c].cache = m
    BY <1>1, <1>7, <2>1 DEF ReadItem, Reads, Said, Rpcs
  <2> QED
    BY <2>4, <2>5 DEF MadeOf, m
<1>8. ASSUME NEW e \in Heards, rpc' = Goes(c, Sent(c, e), "reading")
      PROVE  rpc'[c].events = Append(rpc[c].events, e) /\ rpc'[c].cache = rpc[c].cache
  <2> DEFINE r == Sent(c, e)
  <2>1. /\ DOMAIN r = Conns /\ r[c] \in Rpcs /\ ~r[c].cut
        /\ r[c].events = Append(rpc[c].events, e) /\ r[c].cache = rpc[c].cache
    BY SentOn
  <2>2. rpc' = Goes(c, r, "reading")
    BY <1>8
  <2> HIDE DEF r
  <2>3. rpc'[c].events = r[c].events /\ rpc'[c].cache = r[c].cache
    BY <2>1, <2>2, GoesOn
  <2> QED
    BY <2>1, <2>3
<1>9. CASE ReadNote(c)
  <2> DEFINE e == Event("note", Said(c).turn, Empty)
  <2>1. Said(c).kind = "note" /\ rpc' = Goes(c, Sent(c, e), "reading") /\ Empty \in Nat
    BY <1>9 DEF ReadNote, Reads, Said, EventSent, Empty
  <2>2. e \in Heards /\ Tell(e) = Tell(Said(c)) /\ e.kind # "completed"
    BY <1>4, <2>1 DEF Event
  <2> HIDE DEF e
  <2> QED
    BY <1>8, <2>1, <2>2 DEF MadeOf
<1>10. CASE ReadDelta(c) \/ ReadAsk(c)
  <2>1. PICK e \in Heards :
          /\ \/ rpc' = Goes(c, TrySent(c, e), "reading")
             \/ rpc' = Goes(c, TrySent(c, e), "declining")
          /\ Tell(e) = << >> /\ Tell(Said(c)) = << >>
          /\ e.kind # "completed" /\ Said(c).kind \notin {"item", "completed"}
    <3>1. CASE ReadDelta(c)
      <4>1. Said(c).kind = "delta" /\ Empty \in Nat
        BY <3>1 DEF ReadDelta, Reads, Said, Empty
      <4>2. Event("delta", Said(c).turn, Empty) \in Heards
        BY <1>4, <4>1
      <4> QED
        BY <3>1, <4>1, <4>2 DEF ReadDelta, Tell, Authoritative, Event
    <3>2. CASE ReadAsk(c)
      <4>1. Said(c).kind = "ask"
        BY <3>2 DEF ReadAsk, Reads, Said
      <4> QED
        BY <1>5, <3>2, <4>1 DEF ReadAsk, Tell, Authoritative
    <3> QED
      BY <1>10, <3>1, <3>2
  <2> DEFINE r == TrySent(c, e)
  <2>2. /\ DOMAIN r = Conns /\ r[c] \in Rpcs /\ ~r[c].cut
        /\ r[c].events = Append(rpc[c].events, e) \/ r[c].events = rpc[c].events
        /\ r[c].cache = rpc[c].cache
    BY <1>1, SentOn DEF TrySent
  <2>3. rpc' = Goes(c, r, "reading") \/ rpc' = Goes(c, r, "declining")
    BY <2>1
  <2> HIDE DEF r
  <2>4. rpc'[c].events = r[c].events /\ rpc'[c].cache = r[c].cache
    BY <2>2, <2>3, GoesOn
  <2> QED
    BY <2>1, <2>2, <2>4 DEF MadeOf
<1>11. CASE ReadCompleted(c)
  <2> DEFINE t == Said(c).turn
             text == IF Said(c).text # Empty THEN Said(c).text ELSE rpc[c].cache[t].text
             e == Event("completed", t, text)
             s == Sent(c, e)
             r == [s EXCEPT ![c].cache[t] = NotCached]
  <2>1. Said(c).kind = "completed" /\ rpc' = Goes(c, r, "reading") /\ Said(c) \in Messages
    BY <1>3, <1>11 DEF ReadCompleted, Reads, Said
  <2>2. text \in Nat
    BY <1>1, <2>1 DEF Rpcs, Entries, Messages
  <2> HIDE DEF text
  <2>3. e \in Heards /\ Tell(e) = Tell(Said(c))
    BY <1>4, <2>1, <2>2
  <2> HIDE DEF e
  <2>4. /\ DOMAIN s = Conns /\ s[c] \in Rpcs /\ ~s[c].cut
        /\ s[c].events = Append(rpc[c].events, e) /\ s[c].cache = rpc[c].cache
    BY <2>3, SentOn
  <2> HIDE DEF s
  <2> DEFINE m == [s[c].cache EXCEPT ![t] = NotCached]
  <2>5. /\ DOMAIN r = Conns /\ r[c] = [s[c] EXCEPT !.cache = m]
        /\ r[c].events = s[c].events /\ r[c].cut = s[c].cut
    BY <2>4 DEF Rpcs
  <2>6. m \in [Turns -> Entries]
    <3>1. s[c].cache \in [Turns -> Entries]
      BY <2>4 DEF Rpcs
    <3> QED
      BY <3>1 DEF NotCached, Entries, Empty
  <2> HIDE DEF m, r
  <2>7. r[c] \in Rpcs
    BY <2>4, <2>5, <2>6, RpcUpdates
  <2>8. rpc'[c].events = r[c].events /\ rpc'[c].cache = r[c].cache
    BY <2>1, <2>4, <2>5, <2>7, GoesOn
  <2>9. r[c].cache = m
    BY <2>4, <2>5 DEF Rpcs
  <2>10. e = Completion(Said(c), rpc[c].cache)
    BY DEF Completion, e, text
  <2> QED
    BY <2>1, <2>4, <2>5, <2>8, <2>9, <2>10 DEF MadeOf, m
<1>12. CASE ReadBroken(c)
  <2> DEFINE r == Sent(c, Disconnected)
  <2>1. /\ DOMAIN r = Conns /\ r[c] \in Rpcs /\ ~r[c].cut
        /\ r[c].events = Append(rpc[c].events, Disconnected) /\ r[c].cache = rpc[c].cache
    BY DisconnectedIs, SentOn
  <2>2. Said(c).kind = "broken" /\ rpc' = Goes(c, r, "closing")
    BY <1>12 DEF ReadBroken, Reads, Said
  <2> HIDE DEF r
  <2>3. rpc'[c].events = r[c].events /\ rpc'[c].cache = r[c].cache
    BY <2>1, <2>2, GoesOn
  <2>4. /\ Tell(Disconnected) = << >> /\ Tell(Said(c)) = << >>
        /\ Disconnected.kind # "completed" /\ Said(c).kind \notin {"item", "completed"}
    BY <2>2 DEF Tell, Authoritative, Disconnected, Event
  <2> QED
    BY <2>1, <2>3, <2>4, DisconnectedIs DEF MadeOf
<1> QED
  BY <1>6, <1>7, <1>9, <1>10, <1>11, <1>12 DEF ReadSteps

\* What the reader sends is what it reads.
LEMMA ReadSends ==
  ASSUME TransportInv, Links, NEW c \in Conns, ~rpc[c].cut, ReadSteps(c)
  PROVE  \E e \in Heards : \/ rpc'[c].events = Append(rpc[c].events, e) /\ Tell(e) = Tell(Said(c))
                           \/ rpc'[c].events = rpc[c].events /\ Tell(Said(c)) = << >>
<1>1. MadeOf(Said(c), rpc[c].cache, rpc'[c].cache, rpc[c].events, rpc'[c].events)
  BY ReadMakes
<1>2. CASE Said(c).kind = "item"
  <2>1. rpc'[c].events = rpc[c].events
    BY <1>1, <1>2 DEF MadeOf
  <2>2. Tell(Said(c)) = << >> /\ Disconnected \in Heards
    BY <1>2, DisconnectedIs DEF Tell, Authoritative
  <2> QED
    BY <2>1, <2>2
<1>3. CASE Said(c).kind = "completed"
  <2> DEFINE e == Completion(Said(c), rpc[c].cache)
  <2>1. rpc'[c].events = Append(rpc[c].events, e)
    BY <1>1, <1>3 DEF MadeOf
  <2>2. Said(c) \in Messages /\ rpc[c].cache \in [Turns -> Entries]
    <3>1. srv[c].stdout # << >> /\ rpc[c] \in Rpcs
      BY DEF ReadSteps, ReadAnswer, ReadNote, ReadDelta, ReadItem, ReadCompleted, ReadAsk,
             ReadBroken, Reads, Links, RpcKnown
    <3> QED
      BY <1>3, <3>1, ConsumedKnown DEF Answers, Rpcs
  <2>3. e \in Heards /\ Tell(e) = Tell(Said(c))
    BY <1>3, <2>2, TransportAssumption
       DEF Completion, Event, Heards, Tell, Authoritative, Gist, Messages, Turns, Entries
  <2> HIDE DEF e
  <2> QED
    BY <2>1, <2>3
<1> QED
  BY <1>1, <1>2, <1>3 DEF MadeOf


LEMMA ReadStream ==
  ASSUME TransportInv, Links, Streamed, NEW c \in Conns, c = C, caller.connected,
         ReadSteps(c)
  PROVE  Streamed'
<1>1. ReaderSteps(c)
  BY DEF ReadSteps, ReaderSteps, Reader
<1>2. /\ caller'.conn = caller.conn /\ caller'.heard = caller.heard
      /\ caller'.connected = caller.connected
  BY <1>1, CallerStays
<1>3. srv[C].stdout # << >> /\ srv' = Consumed(C)
  BY DEF ReadSteps, ReadAnswer, ReadNote, ReadDelta, ReadItem, ReadCompleted, ReadAsk,
         ReadBroken, Reads
<1>4. srv'[C].stdout = Tail(srv[C].stdout) /\ srv'[C].said = srv[C].said
  BY <1>3, OwnStream DEF Consumed, TransportInv, PipesKnown, Servers
<1>5. PICK e \in Heards :
        \/ rpc'[C].events = Append(rpc[C].events, e) /\ Tell(e) = Tell(Head(srv[C].stdout))
        \/ rpc'[C].events = rpc[C].events /\ Tell(Head(srv[C].stdout)) = << >>
  BY ReadSends, OwnStream DEF Said
<1> QED
  BY <1>2, <1>3, <1>4, <1>5, StreamRead

\* The reader of a connection declines, or comes to its end, and the watcher
\* hears that the child is gone: the worker is told no more than that.
EndSteps(c) ==
  \/ DeclineLock(c) \/ DeclineWrite(c) \/ ReaderEof(c) \/ ReaderDrain(c)
  \/ ReaderAborted(c) \/ ChildExited(c)
Ends(r, x) ==
  /\ r.events = x.events \/ r.events = Append(x.events, Disconnected)
  /\ r.cache = x.cache
  /\ r.reader \in {"reading", "declining"} => x.reader \in {"reading", "declining"}

LEMMA EndMakes ==
  ASSUME TransportInv, Links, NEW c \in Conns, ~rpc[c].cut, EndSteps(c)
  PROVE  /\ srv'[c].stdout = srv[c].stdout /\ srv'[c].said = srv[c].said
         /\ Ends(rpc'[c], rpc[c])
<1>1. rpc \in [Conns -> Rpcs] /\ rpc[c] \in Rpcs /\ DOMAIN rpc = Conns /\ ~rpc[c].cut
      /\ srv \in [Conns -> Servers] /\ (rpc[c].lock = "reader" => rpc[c].reader = "declining")
  BY DEF Links, Fits, RpcKnown, TransportInv, PipesKnown
<1>2. ~ReaderAborted(c)
  BY <1>1 DEF ReaderAborted
<1>3. srv'[c].stdout = srv[c].stdout /\ srv'[c].said = srv[c].said
  <2>1. CASE srv' = srv
    BY <2>1
  <2>2. CASE srv' = Declined(c)
    BY <1>1, <2>2 DEF Declined, Servers
  <2> QED
    BY <1>2, <2>1, <2>2 DEF EndSteps, DeclineLock, DeclineWrite, ReaderEof, ReaderDrain,
                            ChildExited
<1>4. Ends(rpc'[c], rpc[c])
  <2>1. CASE DeclineLock(c)
    <3>1. rpc[c].reader = "declining"
      BY <2>1 DEF DeclineLock
    <3>2. rpc'[c].events = rpc[c].events /\ rpc'[c].cache = rpc[c].cache
      <4>1. CASE rpc' = [rpc EXCEPT ![c].lock = "reader"]
        BY <1>1, <4>1 DEF Rpcs
      <4>2. CASE rpc' = Goes(c, rpc, "reading")
        BY <1>1, <4>2, GoesOn
      <4> QED
        BY <2>1, <4>1, <4>2 DEF DeclineLock
    <3> QED
      BY <3>1, <3>2 DEF Ends
  <2>2. CASE DeclineWrite(c)
    <3> DEFINE r == [rpc EXCEPT ![c].lock = "free"]
    <3>1. /\ DOMAIN r = Conns /\ r[c] = [rpc[c] EXCEPT !.lock = "free"]
          /\ r[c].events = rpc[c].events /\ r[c].cut = rpc[c].cut
          /\ r[c].cache = rpc[c].cache /\ rpc' = Goes(c, r, "reading")
      BY <1>1, <2>2 DEF DeclineWrite, Rpcs
    <3> HIDE DEF r
    <3>2. r[c] \in Rpcs
      BY <1>1, <3>1, RpcUpdates
    <3>3. rpc'[c].events = rpc[c].events /\ rpc'[c].cache = rpc[c].cache
      BY <1>1, <3>1, <3>2, GoesOn
    <3> QED
      BY <1>1, <2>2, <3>3 DEF DeclineWrite, Ends
  <2>3. CASE ReaderEof(c)
    <3> DEFINE r == Sent(c, Disconnected)
    <3>1. /\ DOMAIN r = Conns /\ r[c] \in Rpcs /\ ~r[c].cut
          /\ r[c].events = Append(rpc[c].events, Disconnected) /\ r[c].cache = rpc[c].cache
      BY <1>1, DisconnectedIs, SentOn
    <3>2. rpc' = Goes(c, r, "draining")
      BY <2>3 DEF ReaderEof
    <3> HIDE DEF r
    <3>3. rpc'[c].events = r[c].events /\ rpc'[c].cache = r[c].cache
      BY <3>1, <3>2, GoesOn
    <3>4. rpc'[c].reader = "draining"
      <4>1. rpc' = [r EXCEPT ![c].reader = "draining"]
        BY <3>1, <3>2 DEF Goes
      <4> QED
        BY <3>1, <4>1 DEF Rpcs
    <3> QED
      BY <3>1, <3>3, <3>4 DEF Ends
  <2>4. CASE ReaderDrain(c)
    BY <1>1, <2>4 DEF ReaderDrain, Rpcs, Ends
  <2>5. CASE ChildExited(c)
    <3> DEFINE r == Sent(c, Disconnected)
    <3>1. /\ DOMAIN r = Conns /\ r[c] \in Rpcs
          /\ r[c].events = Append(rpc[c].events, Disconnected) /\ r[c].cache = rpc[c].cache
          /\ r[c].reader = rpc[c].reader
      BY <1>1, DisconnectedIs, SentOn
    <3>2. rpc' = [r EXCEPT ![c].watcher = "done"]
      BY <2>5 DEF ChildExited
    <3> HIDE DEF r
    <3>3. /\ rpc'[c].events = r[c].events /\ rpc'[c].cache = r[c].cache
          /\ rpc'[c].reader = r[c].reader
      BY <3>1, <3>2 DEF Rpcs
    <3> QED
      BY <3>1, <3>3 DEF Ends
  <2> QED
    BY <1>2, <2>1, <2>2, <2>3, <2>4, <2>5 DEF EndSteps
<1> QED
  BY <1>3, <1>4

LEMMA EndStream ==
  ASSUME TransportInv, Links, Streamed, NEW c \in Conns, c = C, caller.connected,
         EndSteps(c)
  PROVE  Streamed'
<1>1. ReaderSteps(c)
  BY DEF EndSteps, ReaderSteps, Reader
<1>2. /\ caller'.conn = caller.conn /\ caller'.heard = caller.heard
      /\ caller'.connected = caller.connected /\ caller'.down = caller.down
  BY <1>1, CallerStays
<1>3. rpc[c].events \in Seq(Heards)
  BY OwnStream
<1>5. srv'[C].stdout = srv[C].stdout /\ srv'[C].said = srv[C].said
  BY EndMakes, OwnStream
<1>6. \/ rpc'[C].events = rpc[C].events
      \/ rpc'[C].events = Append(rpc[C].events, Disconnected)
  BY EndMakes, OwnStream DEF Ends
<1>7. CASE rpc'[C].events = rpc[C].events
  BY <1>2, <1>5, <1>7, StreamRests
<1>8. CASE rpc'[C].events = Append(rpc[C].events, Disconnected)
  <2>1. Tell(Disconnected) = << >>
    BY DEF Tell, Authoritative, Disconnected, Event
  <2>2. Brief(rpc'[C].events) = Brief(rpc[C].events)
    <3>1. Brief(Append(rpc[C].events, Disconnected)) = Brief(rpc[C].events) \o Tell(Disconnected)
      BY <1>3, DisconnectedIs, Speakers, BriefAppend
    <3>2. Brief(rpc[C].events) \in Seq(Told)
      BY OwnStream
    <3> QED
      BY <1>8, <2>1, <3>1, <3>2, ToldEmpty
  <2>3. Brief(srv'[C].stdout) = Brief(srv[C].stdout)
    BY <1>5
  <2>4. Brief(rpc'[C].events) \in Seq(Told) /\ Brief(srv'[C].stdout) \in Seq(Told)
    BY <2>2, <2>3, OwnStream
  <2>5. Brief(rpc'[C].events) \o Brief(srv'[C].stdout)
          = Brief(rpc[C].events) \o Brief(srv[C].stdout)
    BY <2>2, <2>3
  <2> QED
    BY <1>2, <1>5, <2>4, <2>5, StreamMoves
<1> QED
  BY <1>6, <1>7, <1>8

\* What the server says is new to the pipe and to the record of what was said.
LEMMA ServerStream ==
  ASSUME TransportInv, Links, Streamed, NEW c \in Conns, c = C, caller.connected,
         ServerReads(c) \/ ServerSays(c) \/ ServerEnds(c)
  PROVE  Streamed'
<1>1. ReaderSteps(c)
  BY DEF ReaderSteps
<1>2. /\ caller'.conn = caller.conn /\ caller'.heard = caller.heard
      /\ caller'.connected = caller.connected /\ caller'.down = caller.down
  BY <1>1, CallerStays
<1>3. srv[c] \in Servers /\ srv \in [Conns -> Servers] /\ rpc' = rpc
      /\ srv[c].stdout \in Seq(Outputs) /\ srv[c].said \in Seq(Messages)
  BY OwnStream DEF TransportInv, PipesKnown, ServerReads, ServerSays, ServerEnds
<1>4. CASE srv'[c].stdout = srv[c].stdout /\ srv'[c].said = srv[c].said
  BY <1>2, <1>3, <1>4, StreamRests
<1>5. CASE ServerReads(c)
  <2> DEFINE line == Head(srv[c].stdin)
             a == Answer(line.id, line.serial)
             s == [srv[c] EXCEPT !.stdin = Tail(@)]
             read == [srv EXCEPT ![c].stdin = Tail(@)]
  <2>1. read = [srv EXCEPT ![c] = s] /\ read[c] = s /\ DOMAIN read = Conns
        /\ s.stdout = srv[c].stdout /\ s.said = srv[c].said
    BY <1>3 DEF Servers
  <2>2. \/ srv' = read
        \/ srv' = [read EXCEPT ![c].stdout = Append(@, a)] /\ line.id # 0
    BY <1>5 DEF ServerReads
  <2>3. CASE srv' = read
    BY <1>4, <2>1, <2>3
  <2>4. CASE srv' = [read EXCEPT ![c].stdout = Append(@, a)] /\ line.id # 0
    <3>1. line \in Lines
      <4>1. srv[c].stdin \in Seq(Lines) /\ srv[c].stdin # << >>
        BY <1>3, <1>5 DEF ServerReads, Servers
      <4> QED
        BY <4>1, HeadTailProperties
    <3>2. a \in Outputs /\ Tell(a) = << >>
      BY <2>4, <3>1 DEF Lines, Answers, Answer, Outputs, Tell, Authoritative
    <3>3. srv'[c].stdout = Append(srv[c].stdout, a) /\ srv'[c].said = srv[c].said
      <4>1. s \in Servers
        <5>1. Tail(srv[c].stdin) \in Seq(Lines)
          <6>1. srv[c].stdin \in Seq(Lines) /\ srv[c].stdin # << >>
            BY <1>3, <1>5 DEF ServerReads, Servers
          <6> QED
            BY <6>1, HeadTailProperties
        <5> QED
          BY <1>3, <5>1, ServerUpdates
      <4> HIDE DEF a, s, read
      <4> QED
        BY <2>1, <2>4, <4>1 DEF Servers
    <3> HIDE DEF a
    <3>4. Brief(srv'[c].stdout) = Brief(srv[c].stdout)
      <4>1. Brief(Append(srv[c].stdout, a)) = Brief(srv[c].stdout) \o Tell(a)
        BY <1>3, <3>2, Speakers, BriefAppend
      <4>2. Brief(srv[c].stdout) \in Seq(Told)
        BY OwnStream
      <4> QED
        BY <3>2, <3>3, <4>1, <4>2, ToldEmpty
    <3>5. Brief(rpc'[C].events) = Brief(rpc[C].events)
      BY <1>3
    <3>6. Brief(rpc'[C].events) \in Seq(Told) /\ Brief(srv'[C].stdout) \in Seq(Told)
      BY <3>4, <3>5, OwnStream
    <3>7. Brief(rpc'[C].events) \o Brief(srv'[C].stdout)
            = Brief(rpc[C].events) \o Brief(srv[C].stdout)
      BY <3>4, <3>5
    <3> QED
      BY <1>2, <3>3, <3>6, <3>7, StreamMoves
  <2> QED
    BY <2>2, <2>3, <2>4
<1>6. CASE ServerSays(c)
  <2>1. PICK m \in Sayable(c) :
          srv' = [srv EXCEPT ![c] = [srv[c] EXCEPT !.stdout = Append(@, m),
                   !.said = IF m.kind \in {"ask", "delta", "broken"} THEN @ ELSE Append(@, m),
                   !.asks = IF m.kind = "ask" THEN @ + 1 ELSE @]]
    BY <1>6 DEF ServerSays
  <2>2. m \in Messages
    <3>1. Len(srv[c].said) + 1 \in Nat /\ 1 \in Nat /\ Empty \in Nat
      BY <1>3 DEF Empty
    <3>2. 1 \in Turns /\ "none" \in Phases /\ ItemPhases \subseteq Phases
      BY TransportAssumption DEF Turns, Phases
    <3> QED
      BY <3>1, <3>2 DEF Sayable, Message, Messages
  <2>3. /\ srv'[c].stdout = Append(srv[c].stdout, m)
        /\ srv'[c].said = IF m.kind \in {"ask", "delta", "broken"} THEN srv[c].said
                          ELSE Append(srv[c].said, m)
    BY <1>3, <2>1 DEF Servers
  <2> DEFINE a == Brief(srv[c].stdout)
             d == Brief(srv[c].said)
             k == caller.heard \o Brief(rpc[c].events)
             t == Tell(m)
  <2>4. t \in Seq(Told) /\ (m.kind \in {"ask", "delta", "broken"} => t = << >>)
    BY <2>2, Speakers, TellType DEF Tell, Authoritative
  <2>5. a \in Seq(Told) /\ d \in Seq(Told) /\ k \o a = d
    BY OwnStream
  <2>6. k \in Seq(Told)
    <3>1. caller.heard \in Seq(Told) /\ Brief(rpc[c].events) \in Seq(Told)
      BY OwnStream
    <3> QED
      BY <3>1, ConcatProperties
  <2>7. Brief(srv'[c].stdout) = a \o t
    <3>1. m \in Outputs
      BY <2>2 DEF Outputs
    <3> QED
      BY <1>3, <2>3, <3>1, Speakers, BriefAppend
  <2>8. Brief(srv'[c].said) = d \o t
    <3>1. CASE m.kind \in {"ask", "delta", "broken"}
      BY <2>3, <2>4, <2>5, <3>1, ToldEmpty
    <3>2. CASE m.kind \notin {"ask", "delta", "broken"}
      BY <1>3, <2>2, <2>3, <3>2, Speakers, BriefAppend
    <3> QED
      BY <3>1, <3>2
  <2>9. k \o (a \o t) = d \o t
    <3> HIDE DEF k, a, d, t
    <3>1. (k \o a) \o t = k \o (a \o t)
      <4>1. k \in Seq(Told) /\ a \in Seq(Told) /\ t \in Seq(Told)
        BY <2>4, <2>5, <2>6
      <4> QED
        BY <4>1, Told3
    <3> QED
      BY <2>5, <3>1
  <2>10. (caller'.heard \o Brief(rpc'[C].events)) \o Brief(srv'[C].stdout)
           = Brief(srv'[C].said)
    BY <1>2, <1>3, <2>7, <2>8, <2>9
  <2> HIDE DEF a, d, k, t
  <2> QED
    BY <1>2, <2>10 DEF Streamed, NothingLost, C
<1>7. CASE ServerEnds(c)
  BY <1>3, <1>4, <1>7 DEF ServerEnds, Servers
<1> QED
  BY <1>5, <1>6, <1>7

LEMMA StreamStep ==
  TransportInv /\ Links /\ Streamed /\ [TransportNext]_transportVars => Streamed'
<1> SUFFICES ASSUME TransportInv, Links, Streamed, [TransportNext]_transportVars
             PROVE  Streamed'
  OBVIOUS
<1>1. CASE UNCHANGED transportVars
  BY <1>1 DEF transportVars, Streamed, NothingLost, C
<1>2. CASE Connect \/ NextEvent \/ EndShutdown
  BY <1>2, ConnectStream, NextEventStream, EndShutdownStream
<1>3. CASE CallSteps \/ GiveUp \/ Shutdown \/ CloseStdin
           \/ \E kind \in Requests : Request(kind)
  BY <1>3, CallStream DEF CallerSteps
<1>4. ASSUME NEW c \in Conns, ReaderSteps(c) PROVE Streamed'
  <2>1. CASE ~(caller.connected /\ c = C)
    BY <1>4, <2>1, OtherStream
  <2>2. CASE caller.connected /\ c = C
    BY <1>4, <2>2, ReadStream, EndStream, ServerStream DEF ReaderSteps, Reader, ReadSteps, EndSteps
  <2> QED
    BY <2>1, <2>2
<1> QED
  BY <1>1, <1>2, <1>3, <1>4 DEF TransportNext, DownSteps, ReaderSteps

-----------------------------------------------------------------------------
\* The theorems.

\* The writer's mutex has one holder at a time, who is in the middle of writing;
\* only requests that were made wait in pending; the channel keeps its capacity;
\* and a connection that the worker has done with holds no request, no event and
\* no live child (request, send_line, shutdown, spawn_io's mpsc::channel(128)).
THEOREM TransportTypeCorrect == TransportSpec => []TransportTypeOK
<1>1. TransportInit => TransportInv /\ Links
  BY InitInv, InitLinks
<1>2. TransportInv /\ Links /\ [TransportNext]_transportVars => (TransportInv /\ Links)'
  BY TransportStep, LinksStep
<1>3. TransportInv /\ Links => TransportTypeOK
  <2> SUFFICES ASSUME TransportInv, Links PROVE TransportTypeOK
    OBVIOUS
  <2>1. caller.conn \in 0..MaxConn /\ (caller.connected => C # 0 /\ rpc[C].open)
    BY DEF Links, Owner
  <2>2. caller.call.stage = "writing" <=> \E c \in Conns : rpc[c].lock = "caller"
    <3>1. caller.call.stage = "writing" => C \in Conns
      BY Own DEF Owner
    <3>2. \A c \in Conns : rpc[c].lock = "caller" <=> c = C /\ caller.call.stage = "writing"
      BY DEF Links, Fits, C
    <3> QED
      BY <3>1, <3>2
  <2>3. ASSUME NEW c \in Conns
        PROVE  /\ rpc[c].lock = "reader" => rpc[c].reader = "declining"
               /\ Len(rpc[c].events) <= EventRoom
               /\ rpc[c].pending \subseteq 1..caller.next - 1
               /\ c # C => rpc[c].events = << >> /\ rpc[c].pending = {} /\ ~srv[c].alive
    BY DEF Links, Fits, Still, C
  <2> QED
    BY <2>1, <2>2, <2>3 DEF TransportTypeOK
<1> QED
  BY <1>1, <1>2, <1>3, PTL DEF TransportSpec

\* Whatever decides a task reaches the worker once, in the order in which the
\* server said it, however full the channel was on the way
\* (dispatch_message, next_event).
THEOREM NothingLostCorrect == TransportSpec => []NothingLost
<1> DEFINE I == TransportInv /\ Links /\ Streamed
<1>1. TransportInit => I
  BY InitInv, InitLinks, InitStream
<1>2. I /\ [TransportNext]_transportVars => I'
  BY TransportStep, LinksStep, StreamStep
<1>3. I => NothingLost
  BY DEF Streamed
<1> QED
  BY <1>1, <1>2, <1>3, PTL DEF TransportSpec

-----------------------------------------------------------------------------
\* What the reader remembers of a turn is the last that it has read of it.

\* The n-th thing said of turns is an item's text n, and nothing more is said of
\* a turn that has completed.
Closed(said, t) == \E k \in DOMAIN said : said[k].kind = "completed" /\ said[k].turn = t
Orderly(said) ==
  \A k \in DOMAIN said :
    /\ said[k].kind = "item" => said[k].text = k
    /\ said[k].kind \in {"item", "completed"} =>
         \A j \in 1..k - 1 : said[j].kind = "completed" => said[j].turn # said[k].turn

\* e is what is left of the first n things said, for turn t.
Finals(said, t, n) == {k \in ItemsOf(said, t) : k <= n /\ said[k].phase = "final_answer"}
Others(said, t, n) == {k \in ItemsOf(said, t) : k <= n /\ said[k].phase # "commentary"}
LastIn(k, ks) == k \in ks /\ \A j \in ks : j <= k
Kept(said, t, n, e) ==
  /\ e.final <=> Finals(said, t, n) # {}
  /\ e.final => LastIn(e.text, Finals(said, t, n))
  /\ ~e.final => IF Others(said, t, n) = {} THEN e.text = Empty
                 ELSE LastIn(e.text, Others(said, t, n))

\* The pipe q holds the items after the n-th, in their order, and of a turn
\* nothing behind its completion.
Waiting(q, t) == \E j \in DOMAIN q : q[j].kind = "completed" /\ q[j].turn = t
Piped(said, q, n) ==
  /\ \A j \in DOMAIN q : q[j].kind = "item" =>
       q[j].text \in DOMAIN said /\ said[q[j].text] = q[j] /\ q[j].text > n
  /\ \A k \in DOMAIN said : said[k].kind = "item" /\ k > n => \E j \in DOMAIN q : q[j] = said[k]
  /\ \A i, j \in DOMAIN q :
       i < j /\ q[i].kind = "item" /\ q[j].kind = "item" => q[i].text < q[j].text
  /\ \A j \in DOMAIN q : q[j].kind = "completed" =>
       /\ Closed(said, q[j].turn)
       /\ \E k \in DOMAIN said : said[k] = q[j]
       /\ \A i \in DOMAIN q :
            i > j /\ q[i].kind \in {"item", "completed"} => q[i].turn # q[j].turn
Remembers(said, q, n, cache) ==
  \A t \in Turns : Waiting(q, t) \/ ~Closed(said, t) => Kept(said, t, n, cache[t])

\* Connection r of process s.
Tells(said, e) == Faithful(said, e) /\ (e.kind = "completed" => Closed(said, e.turn))
Reading(r) == ~r.cut /\ r.reader \in {"reading", "declining"}
Remembered(said, q, cache) ==
  \E n \in 0..Len(said) : Piped(said, q, n) /\ Remembers(said, q, n, cache)
Well(r, s) ==
  /\ Orderly(s.said)
  /\ \A k \in DOMAIN r.events : Tells(s.said, r.events[k])
  /\ Reading(r) => Remembered(s.said, s.stdout, r.cache)

AllWell == \A c \in Conns : Well(rpc[c], srv[c])

-----------------------------------------------------------------------------
\* A set of numbers up to n has a greatest.
LEMMA TopIs ==
  ASSUME NEW n \in Nat, NEW S \in SUBSET (0..n), S # {}
  PROVE  \E k \in S : \A y \in S : k >= y
<1> SUFFICES ASSUME \A k \in S : \E y \in S : ~(k >= y) PROVE FALSE
  OBVIOUS
<1> DEFINE P == {k \in 0..n : \E y \in S : k <= y}
<1>1. P \in SUBSET (0..n) /\ 0 \in P
  <2>1. PICK y : y \in S
    OBVIOUS
  <2>2. y \in S /\ 0 <= y /\ 0 \in 0..n
    BY <2>1
  <2> QED
    BY <2>2
<1>2. ASSUME NEW k \in P, k < n PROVE k + 1 \in P
  <2>1. PICK y \in S : k <= y
    BY <1>2
  <2>2. PICK z \in S : ~(y >= z)
    OBVIOUS
  <2>3. k + 1 <= z /\ k + 1 \in 0..n
    BY <1>2, <2>1, <2>2
  <2> QED
    BY <2>3
<1>3. n \in P
  <2> HIDE DEF P
  <2> QED
    BY <1>1, <1>2, UpTo
<1>4. PICK y \in S : n <= y
  BY <1>3
<1>5. PICK z \in S : ~(y >= z)
  OBVIOUS
<1> QED
  BY <1>4, <1>5

LEMMA LastNone ==
  ASSUME NEW said, NEW items, NEW phases, \A j \in items : said[j].phase \notin phases
  PROVE  LastOf(said, items, phases) = Empty
<1>1. {k \in items : said[k].phase \in phases} = {}
  OBVIOUS
<1> QED
  BY <1>1 DEF LastOf

LEMMA LastIs ==
  ASSUME NEW said, NEW items \in SUBSET Nat, NEW phases, NEW k \in items,
         said[k].phase \in phases, \A j \in items : said[j].phase \in phases => j <= k
  PROVE  LastOf(said, items, phases) = said[k].text
<1> DEFINE chosen == {j \in items : said[j].phase \in phases}
<1>1. k \in chosen /\ (\A y \in chosen : k >= y) /\ chosen \subseteq Nat
  OBVIOUS
<1>2. chosen # {} /\ Max(chosen) = k
  <2> HIDE DEF chosen
  <2>1. \A x \in chosen : (\A y \in chosen : x >= y) => x = k
    BY <1>1
  <2> QED
    BY <1>1, <2>1 DEF Max
<1> QED
  BY <1>2 DEF LastOf

LEMMA KeptIsHistory ==
  ASSUME NEW said \in Seq(Messages), Orderly(said), NEW t, NEW n, NEW e,
         \A k \in ItemsOf(said, t) : k <= n, Kept(said, t, n, e),
         ~Mixed(said, ItemsOf(said, t))
  PROVE  e.text = ExtractFinalMessage(said, ItemsOf(said, t))
<1> DEFINE items == ItemsOf(said, t)
           F == {"final_answer"}
           P == {"partial_answer"}
           R == Phases \ {"commentary"}
<1>1. /\ items \in SUBSET Nat
      /\ \A k \in items : k <= n /\ said[k].text = k /\ k # Empty /\ said[k].phase \in Phases
  <2>1. items \subseteq DOMAIN said /\ \A k \in items : said[k].kind = "item"
    BY DEF ItemsOf
  <2>2. \A k \in DOMAIN said : k \in Nat /\ k # 0 /\ said[k] \in Messages
    OBVIOUS
  <2>3. \A k \in items : said[k].text = k
    BY <2>1 DEF Orderly
  <2> HIDE DEF items
  <2>4. \A m \in Messages : m.phase \in Phases
    BY DEF Messages
  <2> QED
    BY <2>1, <2>2, <2>3, <2>4 DEF Empty, items
<1>2. /\ Finals(said, t, n) = {k \in items : said[k].phase = "final_answer"}
      /\ Others(said, t, n) = {k \in items : said[k].phase # "commentary"}
  BY <1>1 DEF Finals, Others
<1>3. ~\E j, k \in items : said[j].phase = "partial_answer" /\ said[k].phase = "none"
  BY DEF Mixed
<1> DEFINE final   == LastOf(said, items, F)
           partial == LastOf(said, items, P)
           other   == LastOf(said, items, R)
<1>4. ExtractFinalMessage(said, items)
        = CASE final # Empty -> final
            [] final = Empty /\ partial # Empty -> partial
            [] OTHER -> other
  BY DEF ExtractFinalMessage
<1>5. /\ \A x : x \in F <=> x = "final_answer"
      /\ \A x : x \in P <=> x = "partial_answer"
      /\ \A x \in Phases : x \in R <=> x # "commentary"
  OBVIOUS
<1>6. /\ \A x \in Phases : x \in {"final_answer", "partial_answer", "commentary", "none"}
      /\ "commentary" \notin R
  BY DEF Phases
<1> SUFFICES e.text = ExtractFinalMessage(said, items)
  OBVIOUS
<1> HIDE DEF items, F, P, R
<1>7. CASE e.final
  <2>1. e.text \in items /\ said[e.text].phase = "final_answer"
        /\ \A j \in items : said[j].phase = "final_answer" => j <= e.text
    BY <1>2, <1>7 DEF Kept, LastIn
  <2>2. final = e.text
    <3>1. /\ items \in SUBSET Nat /\ e.text \in items /\ said[e.text].phase \in F
          /\ \A j \in items : said[j].phase \in F => j <= e.text
      BY <1>1, <1>5, <2>1
    <3>2. final = said[e.text].text
      BY <3>1, LastIs, Zenon
    <3> QED
      BY <1>1, <2>1, <3>2
  <2> HIDE DEF final, partial, other
  <2> QED
    BY <1>1, <1>4, <2>1, <2>2
<1>8. CASE ~e.final
  <2>1. \A k \in items : said[k].phase # "final_answer"
    BY <1>2, <1>8 DEF Kept
  <2>2. final = Empty
    BY <1>5, <2>1, LastNone
  <2>3. /\ (\A k \in items : said[k].phase = "commentary") => e.text = Empty
        /\ (\E k \in items : said[k].phase # "commentary") =>
             e.text \in items /\ said[e.text].phase # "commentary"
             /\ \A j \in items : said[j].phase # "commentary" => j <= e.text
    BY <1>2, <1>8 DEF Kept, LastIn
  <2>4. CASE \A k \in items : said[k].phase = "commentary"
    <3>1. partial = Empty
      BY <1>5, <2>4, LastNone
    <3>2. other = Empty
      BY <1>6, <2>4, LastNone
    <3> HIDE DEF final, partial, other
    <3> QED
      BY <1>4, <2>2, <2>3, <2>4, <3>1, <3>2
  <2>5. CASE \E k \in items : said[k].phase = "partial_answer"
    <3>1. \A k \in items : said[k].phase # "commentary" => said[k].phase = "partial_answer"
      <4>1. \A k \in items : said[k].phase # "none"
        BY <1>3, <2>5
      <4> QED
        BY <1>1, <1>6, <2>1, <4>1
    <3>2. /\ e.text \in items /\ said[e.text].phase = "partial_answer"
          /\ \A j \in items : said[j].phase = "partial_answer" => j <= e.text
      BY <2>3, <2>5, <3>1
    <3>3. partial = e.text
      <4>1. /\ items \in SUBSET Nat /\ e.text \in items /\ said[e.text].phase \in P
            /\ \A j \in items : said[j].phase \in P => j <= e.text
        BY <1>1, <1>5, <3>2
      <4>2. partial = said[e.text].text
        BY <4>1, LastIs, Zenon
      <4> QED
        BY <1>1, <3>2, <4>2
    <3> HIDE DEF final, partial, other
    <3> QED
      BY <1>1, <1>4, <2>2, <3>2, <3>3
  <2>6. CASE /\ \E k \in items : said[k].phase # "commentary"
             /\ \A k \in items : said[k].phase # "partial_answer"
    <3>1. partial = Empty
      BY <1>5, <2>6, LastNone
    <3>2. /\ e.text \in items /\ said[e.text].phase \in R
          /\ \A j \in items : said[j].phase \in R => j <= e.text
      BY <1>1, <1>5, <2>3, <2>6
    <3>3. other = e.text
      <4>1. items \in SUBSET Nat
        BY <1>1
      <4>2. other = said[e.text].text
        BY <3>2, <4>1, LastIs, Zenon
      <4> QED
        BY <1>1, <3>2, <4>2
    <3> HIDE DEF final, partial, other
    <3> QED
      BY <1>4, <2>2, <3>1, <3>3
  <2> QED
    BY <2>4, <2>5, <2>6
<1> QED
  BY <1>7, <1>8

\* The first of a sequence goes.
LEMMA TailIs ==
  ASSUME NEW S, NEW q \in Seq(S), q # << >>
  PROVE  /\ Tail(q) \in Seq(S) /\ 1 \in DOMAIN q /\ Head(q) = q[1] /\ Head(q) \in S
         /\ \A j \in DOMAIN Tail(q) : j \in Nat \ {0} /\ j + 1 \in DOMAIN q /\ Tail(q)[j] = q[j + 1]
         /\ \A i \in DOMAIN q : i \in Nat /\ (i = 1 \/ i > 1)
         /\ \A i \in DOMAIN q : i > 1 => i - 1 \in DOMAIN Tail(q) /\ Tail(q)[i - 1] = q[i]
OBVIOUS

\* The next item of the pipe is the next item that was said.
LEMMA NextItem ==
  ASSUME NEW said \in Seq(Messages), Orderly(said), NEW q \in Seq(Outputs), q # << >>,
         NEW n \in Nat, Piped(said, q, n), Head(q).kind = "item"
  PROVE  LET k == Head(q).text IN
         /\ k \in DOMAIN said /\ said[k] = Head(q) /\ k > n /\ k \in Nat
         /\ \A j \in DOMAIN said : said[j].kind = "item" => j \in Nat /\ (j <= n \/ j >= k)
<1> DEFINE k == Head(q).text
<1>1. 1 \in DOMAIN q /\ Head(q) = q[1] /\ \A i \in DOMAIN q : i \in Nat /\ (i = 1 \/ i > 1)
  BY TailIs
<1>2. k \in DOMAIN said /\ said[k] = Head(q) /\ k > n /\ k \in Nat
  BY <1>1 DEF Piped
<1>3. ASSUME NEW j \in DOMAIN said, said[j].kind = "item", j > n PROVE j >= k
  <2>1. PICK i \in DOMAIN q : q[i] = said[j]
    BY <1>3 DEF Piped
  <2>2. q[i].text = j /\ q[i].kind = "item"
    BY <1>3, <2>1 DEF Orderly
  <2>3. CASE i = 1
    BY <1>1, <2>2, <2>3
  <2>4. CASE i > 1
    <3>1. q[1].text < q[i].text
      BY <1>1, <2>2, <2>4 DEF Piped
    <3> QED
      BY <1>1, <1>2, <2>2, <3>1
  <2> QED
    BY <1>1, <2>3, <2>4
<1>4. \A j \in DOMAIN said : j \in Nat
  OBVIOUS
<1> QED
  BY <1>2, <1>3, <1>4

\* An item of the turn is remembered as parse_completed_agent_message has it.
LEMMA KeptMore ==
  ASSUME NEW said \in Seq(Messages), NEW t, NEW n \in Nat, NEW k \in ItemsOf(said, t),
         k > n, \A j \in ItemsOf(said, t) : j <= n \/ j >= k,
         said[k].text = k, NEW e, Kept(said, t, n, e)
  PROVE  Kept(said, t, k, Cached(e, said[k]))
<1> DEFINE m == said[k]
           items == ItemsOf(said, t)
<1>1. items \in SUBSET Nat /\ k \in items /\ k \in Nat
  BY DEF ItemsOf
<1>2. \A j \in items : (j <= k <=> j <= n \/ j = k) /\ ~(j <= n /\ j = k)
  BY <1>1
<1> HIDE DEF items
<1>3. /\ Finals(said, t, k) = Finals(said, t, n) \cup
             {j \in {k} : m.phase = "final_answer"}
      /\ Others(said, t, k) = Others(said, t, n) \cup
             {j \in {k} : m.phase # "commentary"}
  <2>1. \A j : j \in Finals(said, t, k) <=>
             (j \in Finals(said, t, n) \/ (j = k /\ m.phase = "final_answer"))
    BY <1>1, <1>2 DEF Finals, items
  <2>2. \A j : j \in Others(said, t, k) <=>
             (j \in Others(said, t, n) \/ (j = k /\ m.phase # "commentary"))
    BY <1>1, <1>2 DEF Others, items
  <2> QED
    BY <2>1, <2>2
<1>4. \A j \in Finals(said, t, n) \cup Others(said, t, n) : j \in Nat /\ j <= k
  BY <1>1, <1>2 DEF Finals, Others, items
<1>5. CASE m.phase = "commentary"
  <2>1. Finals(said, t, k) = Finals(said, t, n) /\ Others(said, t, k) = Others(said, t, n)
    BY <1>3, <1>5
  <2>2. Cached(e, m) = e
    BY <1>5 DEF Cached
  <2> QED
    BY <2>1, <2>2 DEF Kept
<1>6. CASE m.phase = "final_answer"
  <2>1. LastIn(k, Finals(said, t, k))
    BY <1>1, <1>3, <1>4, <1>6 DEF LastIn
  <2>2. Cached(e, m) = [text |-> k, final |-> TRUE]
    BY <1>6 DEF Cached
  <2> QED
    BY <2>1, <2>2 DEF Kept, LastIn
<1>7. CASE m.phase \notin {"commentary", "final_answer"}
  <2>1. Finals(said, t, k) = Finals(said, t, n)
    BY <1>3, <1>7
  <2>2. CASE e.final
    <3>1. Cached(e, m) = e
      BY <1>7, <2>2 DEF Cached
    <3> QED
      BY <2>1, <2>2, <3>1 DEF Kept
  <2>3. CASE ~e.final
    <3>1. LastIn(k, Others(said, t, k))
      BY <1>1, <1>3, <1>4, <1>7 DEF LastIn
    <3>2. Cached(e, m) = [text |-> k, final |-> FALSE]
      BY <1>7, <2>3 DEF Cached
    <3> QED
      BY <2>1, <2>3, <3>1, <3>2 DEF Kept, LastIn
  <2> QED
    BY <2>2, <2>3
<1> QED
  BY <1>5, <1>6, <1>7

\* The items of the other turns are where they were.
LEMMA KeptSame ==
  ASSUME NEW said, NEW t, NEW n, NEW k, NEW e, Kept(said, t, n, e),
         \A j \in ItemsOf(said, t) : j <= k <=> j <= n
  PROVE  Kept(said, t, k, e)
<1>1. Finals(said, t, k) = Finals(said, t, n) /\ Others(said, t, k) = Others(said, t, n)
  BY DEF Finals, Others
<1> QED
  BY <1>1 DEF Kept

\* What is behind the head of the pipe.
LEMMA PipedBehind ==
  ASSUME NEW said \in Seq(Messages), Orderly(said), NEW q \in Seq(Outputs), q # << >>,
         NEW n \in Nat, Piped(said, q, n)
  PROVE  /\ Head(q).kind # "item" => Piped(said, Tail(q), n)
         /\ Head(q).kind = "item" => Piped(said, Tail(q), Head(q).text)
<1> DEFINE r == Tail(q)
           m == Head(q)
           k == IF m.kind = "item" THEN m.text ELSE n
<1>1. /\ 1 \in DOMAIN q /\ m = q[1]
      /\ \A j \in DOMAIN r : j \in Nat \ {0} /\ j + 1 \in DOMAIN q /\ r[j] = q[j + 1]
      /\ \A i \in DOMAIN q : i \in Nat /\ (i = 1 \/ i > 1)
      /\ \A i \in DOMAIN q : i > 1 => i - 1 \in DOMAIN r /\ r[i - 1] = q[i]
  BY TailIs
<1>2. /\ \A j \in DOMAIN said : said[j].kind = "item" => j \in Nat /\ said[j].text = j
      /\ k \in Nat /\ (m.kind = "item" => k > n)
  BY NextItem DEF Orderly
<1> HIDE DEF r, m
<1>3. ASSUME NEW j \in DOMAIN r, r[j].kind = "item"
      PROVE  r[j].text \in DOMAIN said /\ said[r[j].text] = r[j] /\ r[j].text > k
  <2>1. /\ j + 1 \in DOMAIN q /\ q[j + 1].kind = "item" /\ j + 1 > 1
        /\ r[j] = q[j + 1]
    BY <1>1, <1>3
  <2>2. r[j].text \in DOMAIN said /\ said[r[j].text] = r[j] /\ r[j].text > n
    BY <2>1 DEF Piped
  <2>3. ASSUME m.kind = "item" PROVE r[j].text > m.text
    <3>1. q[1].text < q[j + 1].text
      BY <1>1, <2>1, <2>3 DEF Piped
    <3> QED
      BY <1>1, <2>1, <3>1
  <2> QED
    BY <2>2, <2>3
<1>4. ASSUME NEW j \in DOMAIN said, said[j].kind = "item", j > k
      PROVE  \E i \in DOMAIN r : r[i] = said[j]
  <2>1. j > n
    BY <1>2, <1>4
  <2>2. PICK i \in DOMAIN q : q[i] = said[j]
    BY <1>4, <2>1 DEF Piped
  <2>3. i # 1
    BY <1>1, <1>2, <1>4, <2>2
  <2> QED
    BY <1>1, <2>2, <2>3
<1>5. ASSUME NEW i \in DOMAIN r, NEW j \in DOMAIN r, i < j, r[i].kind = "item", r[j].kind = "item"
      PROVE  r[i].text < r[j].text
  <2>1. i + 1 \in DOMAIN q /\ j + 1 \in DOMAIN q /\ i + 1 < j + 1
        /\ r[i] = q[i + 1] /\ r[j] = q[j + 1]
    BY <1>1, <1>5
  <2> QED
    BY <1>5, <2>1 DEF Piped
<1>6. ASSUME NEW j \in DOMAIN r, r[j].kind = "completed"
      PROVE  /\ Closed(said, r[j].turn)
             /\ \E a \in DOMAIN said : said[a] = r[j]
             /\ \A i \in DOMAIN r :
                  i > j /\ r[i].kind \in {"item", "completed"} => r[i].turn # r[j].turn
  <2>1. j + 1 \in DOMAIN q /\ r[j] = q[j + 1]
    BY <1>1
  <2>2. Closed(said, r[j].turn) /\ \E a \in DOMAIN said : said[a] = r[j]
    BY <1>6, <2>1 DEF Piped
  <2>3. ASSUME NEW i \in DOMAIN r, i > j, r[i].kind \in {"item", "completed"}
        PROVE  r[i].turn # r[j].turn
    <3>1. i + 1 \in DOMAIN q /\ r[i] = q[i + 1] /\ i + 1 > j + 1
      BY <1>1, <2>3
    <3> QED
      BY <1>6, <2>1, <2>3, <3>1 DEF Piped
  <2> QED
    BY <2>2, <2>3
<1>7. Piped(said, r, k)
  <2> HIDE DEF k
  <2> QED
    BY <1>3, <1>4, <1>5, <1>6 DEF Piped
<1> QED
  BY <1>7 DEF r, m

\* The reader takes a line that is no item and no completion.
LEMMA ReadPast ==
  ASSUME NEW said \in Seq(Messages), Orderly(said), NEW q \in Seq(Outputs), q # << >>,
         NEW cache, Remembered(said, q, cache), Head(q).kind \notin {"item", "completed"}
  PROVE  Remembered(said, Tail(q), cache)
<1>1. PICK n \in 0..Len(said) : Piped(said, q, n) /\ Remembers(said, q, n, cache)
  BY DEF Remembered
<1>2. Piped(said, Tail(q), n)
  BY <1>1, PipedBehind
<1>3. \A t : Waiting(Tail(q), t) => Waiting(q, t)
  BY TailIs DEF Waiting
<1> QED
  BY <1>1, <1>2, <1>3 DEF Remembered, Remembers

\* It takes an item.
LEMMA ReadNextItem ==
  ASSUME NEW said \in Seq(Messages), Orderly(said), NEW q \in Seq(Outputs), q # << >>,
         NEW cache \in [Turns -> Entries], Remembered(said, q, cache), Head(q).kind = "item"
  PROVE  Remembered(said, Tail(q),
                    [cache EXCEPT ![Head(q).turn] = Cached(cache[Head(q).turn], Head(q))])
<1> DEFINE m == Head(q)
           k == m.text
           new == [cache EXCEPT ![m.turn] = Cached(cache[m.turn], m)]
<1>1. PICK n \in 0..Len(said) : Piped(said, q, n) /\ Remembers(said, q, n, cache)
  BY DEF Remembered
<1>2. Piped(said, Tail(q), k)
  BY <1>1, PipedBehind
<1>3. /\ k \in DOMAIN said /\ said[k] = m /\ k > n /\ k \in Nat
      /\ \A j \in DOMAIN said : said[j].kind = "item" => j \in Nat /\ (j <= n \/ j >= k)
  BY <1>1, NextItem
<1> HIDE DEF m, k
<1>4. ASSUME NEW t \in Turns, Waiting(Tail(q), t) \/ ~Closed(said, t)
      PROVE  Kept(said, t, k, new[t])
  <2>1. Waiting(q, t) \/ ~Closed(said, t)
    BY <1>4, TailIs DEF Waiting
  <2>2. Kept(said, t, n, cache[t])
    BY <1>1, <2>1 DEF Remembers
  <2>3. CASE t = m.turn
    <3>1. k \in ItemsOf(said, t) /\ \A j \in ItemsOf(said, t) : j <= n \/ j >= k
      BY <1>3, <2>3 DEF ItemsOf, m
    <3>2. said[k].text = k /\ new[t] = Cached(cache[t], said[k])
      BY <1>3, <2>3 DEF k
    <3> HIDE DEF new
    <3> QED
      BY <1>3, <2>2, <3>1, <3>2, KeptMore
  <2>4. CASE t # m.turn
    <3>1. \A j \in ItemsOf(said, t) : j <= k <=> j <= n
      BY <1>3, <2>4 DEF ItemsOf
    <3>2. new[t] = cache[t]
      BY <2>4
    <3> HIDE DEF new
    <3> QED
      BY <2>2, <3>1, <3>2, KeptSame
  <2> QED
    BY <2>3, <2>4
<1>5. k \in 0..Len(said)
  BY <1>3
<1> HIDE DEF new
<1>6. Remembered(said, Tail(q), new)
  BY <1>2, <1>4, <1>5 DEF Remembered, Remembers
<1> QED
  BY <1>6 DEF new, m

LEMMA TellsIf ==
  ASSUME NEW said, NEW e, Closed(said, e.turn),
         ~Mixed(said, ItemsOf(said, e.turn)) =>
           \/ e.text # Empty /\ OwnText(said, e.turn, e.text)
           \/ e.text = ExtractFinalMessage(said, ItemsOf(said, e.turn))
  PROVE  Tells(said, e)
BY Zenon DEF Tells, Faithful

\* It takes the completion of a turn, all of whose items it has taken.
LEMMA ReadNextCompleted ==
  ASSUME NEW said \in Seq(Messages), Orderly(said), NEW q \in Seq(Outputs), q # << >>,
         NEW cache \in [Turns -> Entries], Remembered(said, q, cache),
         Head(q).kind = "completed", NEW old
  PROVE  /\ Remembered(said, Tail(q), [cache EXCEPT ![Head(q).turn] = old])
         /\ Tells(said, Event("completed", Head(q).turn,
                    IF Head(q).text # Empty THEN Head(q).text
                    ELSE cache[Head(q).turn].text))
<1> DEFINE m == Head(q)
           t == m.turn
           x == IF m.text # Empty THEN m.text ELSE cache[t].text
           new == [cache EXCEPT ![t] = old]
<1>1. PICK n \in 0..Len(said) : Piped(said, q, n) /\ Remembers(said, q, n, cache)
  BY DEF Remembered
<1>2. Piped(said, Tail(q), n)
  BY <1>1, PipedBehind
<1>3. 1 \in DOMAIN q /\ m = q[1] /\ \A i \in DOMAIN q : i \in Nat /\ (i = 1 \/ i > 1)
      /\ \A j \in DOMAIN Tail(q) : j \in Nat \ {0} /\ j + 1 \in DOMAIN q /\ Tail(q)[j] = q[j + 1]
  BY TailIs
<1>4. Closed(said, t) /\ (\E k \in DOMAIN said : said[k] = m)
      /\ \A i \in DOMAIN q : i > 1 /\ q[i].kind \in {"item", "completed"} => q[i].turn # t
  BY <1>1, <1>3 DEF Piped
<1>5. t \in Turns
  <2>1. \A y \in Messages : y.turn \in Turns
    BY DEF Messages
  <2> QED
    BY <1>4, <2>1
<1> HIDE DEF m, t
<1>6. \A k \in ItemsOf(said, t) : k <= n
  <2> SUFFICES ASSUME NEW k \in ItemsOf(said, t), k > n PROVE FALSE
    BY DEF ItemsOf
  <2>1. k \in DOMAIN said /\ said[k].kind = "item" /\ said[k].turn = t
    BY DEF ItemsOf
  <2>2. PICK i \in DOMAIN q : q[i] = said[k]
    BY <1>1, <2>1 DEF Piped
  <2>3. i # 1
    BY <1>3, <2>1, <2>2 DEF m
  <2> QED
    BY <1>3, <1>4, <2>1, <2>2, <2>3
<1>7. Remembered(said, Tail(q), new)
  <2>1. ASSUME NEW u \in Turns, Waiting(Tail(q), u) \/ ~Closed(said, u)
        PROVE  Kept(said, u, n, new[u])
    <3>1. u # t
      <4>1. ~Waiting(Tail(q), t)
        BY <1>3, <1>4 DEF Waiting
      <4> QED
        BY <1>4, <2>1, <4>1
    <3>2. Waiting(q, u) \/ ~Closed(said, u)
      BY <2>1, TailIs DEF Waiting
    <3>3. new[u] = cache[u]
      BY <3>1
    <3> QED
      BY <1>1, <3>2, <3>3 DEF Remembers
  <2> HIDE DEF new
  <2> QED
    BY <1>1, <1>2, <2>1 DEF Remembered, Remembers
<1> HIDE DEF x
<1>8. ASSUME NEW e, e.turn = t, e.text = x PROVE Tells(said, e)
  <2>1. CASE m.text # Empty
    <3>1. e.text # Empty /\ OwnText(said, e.turn, e.text)
      BY <1>4, <1>8, <2>1 DEF OwnText, m, t, x
    <3> QED
      BY <1>4, <1>8, <3>1, TellsIf
  <2>2. CASE m.text = Empty
    <3>1. x = cache[t].text
      BY <2>2 DEF x
    <3>2. Waiting(q, t)
      BY <1>3 DEF Waiting, m, t
    <3>3. Kept(said, t, n, cache[t])
      BY <1>1, <1>5, <3>2 DEF Remembers
    <3>4. ~Mixed(said, ItemsOf(said, t)) => x = ExtractFinalMessage(said, ItemsOf(said, t))
      BY <1>6, <3>1, <3>3, KeptIsHistory
    <3> QED
      BY <1>4, <1>8, <3>4, TellsIf
  <2> QED
    BY <2>1, <2>2
<1>9. Tells(said, Event("completed", t, x))
  BY <1>8 DEF Event
<1> QED
  BY <1>7, <1>9 DEF m, t, x

\* A sequence grows by one.
LEMMA AppendIs ==
  ASSUME NEW S, NEW q \in Seq(S), NEW x \in S
  PROVE  /\ Append(q, x) \in Seq(S) /\ Len(Append(q, x)) = Len(q) + 1
         /\ DOMAIN q \subseteq DOMAIN Append(q, x) /\ Len(q) + 1 \in DOMAIN Append(q, x)
         /\ \A i \in DOMAIN Append(q, x) : i \in Nat /\ (i \in DOMAIN q \/ i = Len(q) + 1)
         /\ \A i \in DOMAIN q : i \in Nat /\ i < Len(q) + 1 /\ Append(q, x)[i] = q[i]
         /\ Append(q, x)[Len(q) + 1] = x
OBVIOUS

\* The server's answer, or what it says of no turn.
LEMMA HearsPast ==
  ASSUME NEW said \in Seq(Messages), NEW q \in Seq(Outputs), NEW x \in Outputs,
         x.kind \notin {"item", "completed"}, NEW cache, Remembered(said, q, cache)
  PROVE  Remembered(said, Append(q, x), cache)
<1> DEFINE r == Append(q, x)
           new == Len(q) + 1
<1>1. /\ \A i \in DOMAIN r : i \in Nat /\ (i \in DOMAIN q \/ i = new)
      /\ \A i \in DOMAIN q : i \in Nat /\ i \in DOMAIN r /\ r[i] = q[i]
      /\ r[new] = x
  BY AppendIs
<1>2. PICK n \in 0..Len(said) : Piped(said, q, n) /\ Remembers(said, q, n, cache)
  BY DEF Remembered
<1> HIDE DEF r, new
<1>3. \A i \in DOMAIN r : r[i].kind \in {"item", "completed"} => i \in DOMAIN q /\ r[i] = q[i]
  BY <1>1
<1>4. Piped(said, r, n)
  <2>1. \A j \in DOMAIN r : r[j].kind = "item" =>
          r[j].text \in DOMAIN said /\ said[r[j].text] = r[j] /\ r[j].text > n
    BY <1>2, <1>3 DEF Piped
  <2>2. \A k \in DOMAIN said : said[k].kind = "item" /\ k > n => \E j \in DOMAIN r : r[j] = said[k]
    BY <1>1, <1>2 DEF Piped
  <2>3. \A i, j \in DOMAIN r :
          i < j /\ r[i].kind = "item" /\ r[j].kind = "item" => r[i].text < r[j].text
    BY <1>2, <1>3 DEF Piped
  <2>4. \A j \in DOMAIN r : r[j].kind = "completed" =>
          /\ Closed(said, r[j].turn)
          /\ \E k \in DOMAIN said : said[k] = r[j]
          /\ \A i \in DOMAIN r :
               i > j /\ r[i].kind \in {"item", "completed"} => r[i].turn # r[j].turn
    BY <1>2, <1>3 DEF Piped
  <2> QED
    BY <2>1, <2>2, <2>3, <2>4 DEF Piped
<1>5. \A t : Waiting(r, t) => Waiting(q, t)
  BY <1>3 DEF Waiting
<1>6. Remembered(said, r, cache)
  BY <1>2, <1>4, <1>5 DEF Remembered, Remembers
<1> QED
  BY <1>6 DEF r

\* What the server may say of turns, when it has said a.
Sayings(a) ==
  {m \in Messages : /\ m.kind = "item" => m.text = Len(a) + 1
                    /\ m.kind \in {"item", "completed"} => ~Closed(a, m.turn)}

LEMMA SaysMore ==
  ASSUME NEW said \in Seq(Messages), NEW m \in Sayings(said)
  PROVE  LET new == Append(said, m) IN
         /\ Orderly(said) => Orderly(new)
         /\ \A t : Closed(new, t) <=> Closed(said, t) \/ (m.kind = "completed" /\ m.turn = t)
         /\ \A t : Closed(said, t) => ItemsOf(new, t) = ItemsOf(said, t)
         /\ \A t, n, e : n \in 0..Len(said) /\ Kept(said, t, n, e) => Kept(new, t, n, e)
<1> DEFINE new == Append(said, m)
           l == Len(said) + 1
<1>1. /\ m \in Messages /\ (m.kind = "item" => m.text = l)
      /\ (m.kind \in {"item", "completed"} => ~Closed(said, m.turn))
  BY DEF Sayings
<1>2. /\ \A i \in DOMAIN new : i \in Nat /\ (i \in DOMAIN said \/ i = l)
      /\ \A i \in DOMAIN said : i \in Nat /\ i < l /\ i \in DOMAIN new /\ new[i] = said[i]
      /\ new[l] = m /\ l \in DOMAIN new /\ l = Len(said) + 1
  BY <1>1, AppendIs
<1>3. \A i \in DOMAIN said : \A j \in 1..i - 1 : j \in DOMAIN said
  OBVIOUS
<1>4. \A j \in 1..l - 1 : j \in DOMAIN said
  OBVIOUS
<1> HIDE DEF new, l
<1>5. ASSUME Orderly(said) PROVE Orderly(new)
  <2> SUFFICES ASSUME NEW k \in DOMAIN new
               PROVE  /\ new[k].kind = "item" => new[k].text = k
                      /\ new[k].kind \in {"item", "completed"} =>
                           \A j \in 1..k - 1 :
                             new[j].kind = "completed" => new[j].turn # new[k].turn
    BY DEF Orderly
  <2>1. CASE k \in DOMAIN said
    BY <1>2, <1>3, <1>5, <2>1 DEF Orderly
  <2>2. CASE k = l
    BY <1>1, <1>2, <1>4, <2>2 DEF Closed
  <2> QED
    BY <1>2, <2>1, <2>2
<1>6. \A t : Closed(new, t) <=> Closed(said, t) \/ (m.kind = "completed" /\ m.turn = t)
  BY <1>2 DEF Closed
<1>7. \A t : Closed(said, t) => ItemsOf(new, t) = ItemsOf(said, t)
  BY <1>1, <1>2 DEF ItemsOf
<1>8. ASSUME NEW t, NEW n \in 0..Len(said), NEW e, Kept(said, t, n, e) PROVE Kept(new, t, n, e)
  <2>1. \A j : j \in ItemsOf(new, t) /\ j <= n <=> j \in ItemsOf(said, t) /\ j <= n
    BY <1>2, <1>8 DEF ItemsOf
  <2>2. \A j \in ItemsOf(said, t) : new[j] = said[j]
    BY <1>2 DEF ItemsOf
  <2>3. Finals(new, t, n) = Finals(said, t, n) /\ Others(new, t, n) = Others(said, t, n)
    BY <2>1, <2>2 DEF Finals, Others
  <2> QED
    BY <1>8, <2>3 DEF Kept
<1> QED
  BY <1>5, <1>6, <1>7, <1>8 DEF new

\* What was told of a turn that is over stays true.
LEMMA TellsOn ==
  ASSUME NEW said \in Seq(Messages), NEW m \in Sayings(said), NEW e, Tells(said, e)
  PROVE  Tells(Append(said, m), e)
<1> DEFINE new == Append(said, m)
           t == e.turn
<1>1. CASE e.kind # "completed"
  BY <1>1, Zenon DEF Tells, Faithful
<1>2. CASE e.kind = "completed"
  <2>1. Closed(said, t) /\ Faithful(said, e)
    BY <1>2 DEF Tells
  <2>2. Closed(new, t) /\ ItemsOf(new, t) = ItemsOf(said, t)
    BY <2>1, SaysMore
  <2>3. \A i \in DOMAIN said : i \in DOMAIN new /\ new[i] = said[i]
    BY AppendIs DEF Sayings
  <2> HIDE DEF new
  <2>4. \A k \in ItemsOf(said, t) : new[k] = said[k]
    BY <2>3 DEF ItemsOf
  <2>5. OwnText(said, t, e.text) => OwnText(new, t, e.text)
    BY <2>3 DEF OwnText
  <2> DEFINE items == ItemsOf(said, t)
  <2>6. Mixed(new, items) <=> Mixed(said, items)
    BY <2>4 DEF Mixed
  <2>7. \A phases : LastOf(new, items, phases) = LastOf(said, items, phases)
    <3> SUFFICES ASSUME NEW phases PROVE LastOf(new, items, phases) = LastOf(said, items, phases)
      OBVIOUS
    <3> DEFINE a == {k \in items : new[k].phase \in phases}
               b == {k \in items : said[k].phase \in phases}
    <3>1. a = b
      BY <2>4
    <3>2. a # {} => Max(a) \in a
      <4>1. b \subseteq DOMAIN said
        BY DEF ItemsOf
      <4>2. b # {} => \E k \in b : \A y \in b : k >= y
        <5>1. b \in SUBSET (0..Len(said)) /\ Len(said) \in Nat
          BY <4>1
        <5> HIDE DEF b
        <5> QED
          BY <5>1, TopIs, Zenon
      <4> HIDE DEF a, b
      <4> QED
        BY <3>1, <4>2 DEF Max
    <3>3. a # {} => new[Max(a)] = said[Max(a)]
      BY <2>4, <3>2
    <3> HIDE DEF items
    <3>4. LastOf(new, items, phases) = IF a = {} THEN Empty ELSE new[Max(a)].text
      BY DEF LastOf
    <3>5. LastOf(said, items, phases) = IF b = {} THEN Empty ELSE said[Max(b)].text
      BY DEF LastOf
    <3> HIDE DEF a, b
    <3> QED
      BY <3>1, <3>3, <3>4, <3>5
  <2>8. ExtractFinalMessage(new, items) = ExtractFinalMessage(said, items)
    <3> HIDE DEF items
    <3> QED
      BY <2>7, Zenon DEF ExtractFinalMessage
  <2>9. ~Mixed(new, ItemsOf(new, t)) =>
           \/ e.text # Empty /\ OwnText(new, t, e.text)
           \/ e.text = ExtractFinalMessage(new, ItemsOf(new, t))
    BY <1>2, <2>1, <2>2, <2>5, <2>6, <2>8, Zenon DEF Faithful
  <2>10. Tells(new, e)
    BY <2>2, <2>9, TellsIf
  <2> QED
    BY <2>10 DEF new
<1> QED
  BY <1>1, <1>2

\* The server says more of a turn: the pipe and the record grow by the same.
LEMMA HearsMore ==
  ASSUME NEW said \in Seq(Messages), Orderly(said), NEW q \in Seq(Outputs),
         NEW m \in Sayings(said), NEW cache, Remembered(said, q, cache)
  PROVE  Remembered(Append(said, m), Append(q, m), cache)
<1> DEFINE all == Append(said, m)
           l == Len(said) + 1
           r == Append(q, m)
           p == Len(q) + 1
<1>1. /\ m \in Messages /\ m \in Outputs /\ (m.kind = "item" => m.text = l)
      /\ (m.kind \in {"item", "completed"} => ~Closed(said, m.turn))
  BY DEF Sayings, Outputs
<1>2. /\ \A i \in DOMAIN all : i \in Nat /\ (i \in DOMAIN said \/ i = l)
      /\ \A i \in DOMAIN said : i \in Nat /\ i < l /\ i \in DOMAIN all /\ all[i] = said[i]
      /\ all[l] = m /\ l \in DOMAIN all /\ Len(all) = l /\ l = Len(said) + 1
  BY <1>1, AppendIs
<1>3. /\ \A i \in DOMAIN r : i \in Nat /\ (i \in DOMAIN q \/ i = p)
      /\ \A i \in DOMAIN q : i \in Nat /\ i < p /\ i \in DOMAIN r /\ r[i] = q[i]
      /\ r[p] = m /\ p \in DOMAIN r /\ p \in Nat
  BY <1>1, AppendIs
<1>4. PICK n \in 0..Len(said) : Piped(said, q, n) /\ Remembers(said, q, n, cache)
  BY DEF Remembered
<1>5. /\ \A t : Closed(all, t) <=> Closed(said, t) \/ (m.kind = "completed" /\ m.turn = t)
      /\ \A t, e : Kept(said, t, n, e) => Kept(all, t, n, e)
  BY SaysMore
<1> HIDE DEF all, l, r, p
<1>6. Len(said) \in Nat /\ n \in Nat /\ n < l
  BY <1>2
<1>7. Piped(all, r, n)
  <2>1. ASSUME NEW j \in DOMAIN r, r[j].kind = "item"
        PROVE  r[j].text \in DOMAIN all /\ all[r[j].text] = r[j] /\ r[j].text > n
    <3>1. CASE j \in DOMAIN q
      <4>1. q[j].text \in DOMAIN said /\ said[q[j].text] = q[j] /\ q[j].text > n
        BY <1>3, <1>4, <2>1, <3>1 DEF Piped
      <4> QED
        BY <1>2, <1>3, <3>1, <4>1
    <3>2. CASE j = p
      BY <1>1, <1>2, <1>3, <1>6, <2>1, <3>2
    <3> QED
      BY <1>3, <3>1, <3>2
  <2>2. ASSUME NEW k \in DOMAIN all, all[k].kind = "item", k > n
        PROVE  \E j \in DOMAIN r : r[j] = all[k]
    <3>1. CASE k \in DOMAIN said
      <4>1. PICK j \in DOMAIN q : q[j] = said[k]
        BY <1>2, <1>4, <2>2, <3>1 DEF Piped
      <4> QED
        BY <1>2, <1>3, <3>1, <4>1
    <3>2. CASE k = l
      BY <1>2, <1>3, <3>2
    <3> QED
      BY <1>2, <3>1, <3>2
  <2>3. ASSUME NEW i \in DOMAIN r, NEW j \in DOMAIN r, i < j, r[i].kind = "item",
               r[j].kind = "item"
        PROVE  r[i].text < r[j].text
    <3>1. i \in DOMAIN q
      BY <1>3, <2>3
    <3>2. CASE j \in DOMAIN q
      BY <1>3, <1>4, <2>3, <3>1, <3>2 DEF Piped
    <3>3. CASE j = p
      <4>1. q[i].text \in DOMAIN said
        BY <1>3, <1>4, <2>3, <3>1 DEF Piped
      <4> QED
        BY <1>1, <1>2, <1>3, <2>3, <3>1, <3>3, <4>1
    <3> QED
      BY <1>3, <3>2, <3>3
  <2>4. ASSUME NEW j \in DOMAIN r, r[j].kind = "completed"
        PROVE  /\ Closed(all, r[j].turn)
               /\ \E k \in DOMAIN all : all[k] = r[j]
               /\ \A i \in DOMAIN r :
                    i > j /\ r[i].kind \in {"item", "completed"} => r[i].turn # r[j].turn
    <3>1. CASE j \in DOMAIN q
      <4>1. Closed(said, r[j].turn) /\ (\E k \in DOMAIN said : said[k] = r[j])
            /\ \A i \in DOMAIN q :
                 i > j /\ q[i].kind \in {"item", "completed"} => q[i].turn # r[j].turn
        BY <1>3, <1>4, <2>4, <3>1 DEF Piped
      <4>2. m.kind \in {"item", "completed"} => m.turn # r[j].turn
        BY <1>1, <4>1
      <4> QED
        BY <1>2, <1>3, <1>5, <4>1, <4>2
    <3>2. CASE j = p
      <4>1. r[j] = m /\ \A i \in DOMAIN r : ~(i > j)
        BY <1>3, <3>2
      <4> QED
        BY <1>2, <1>5, <2>4, <4>1
    <3> QED
      BY <1>3, <3>1, <3>2
  <2> QED
    BY <2>1, <2>2, <2>3, <2>4 DEF Piped
<1>8. ASSUME NEW t \in Turns, Waiting(r, t) \/ ~Closed(all, t) PROVE Kept(all, t, n, cache[t])
  <2>1. Waiting(r, t) => Waiting(q, t) \/ (m.kind = "completed" /\ m.turn = t)
    BY <1>3 DEF Waiting
  <2>2. Waiting(q, t) \/ ~Closed(said, t)
    BY <1>1, <1>5, <1>8, <2>1
  <2> QED
    BY <1>4, <1>5, <2>2 DEF Remembers
<1>9. n \in 0..Len(all)
  BY <1>2, <1>6
<1>10. Remembered(all, r, cache)
  BY <1>7, <1>8, <1>9 DEF Remembered, Remembers
<1> QED
  BY <1>10 DEF all, r

-----------------------------------------------------------------------------
\* A connection stays well when nothing new is told, and the reader, if it still
\* reads, is where it was.
LEMMA WellKeeps ==
  ASSUME NEW r, NEW s, NEW x, NEW y, Well(r, s), y.said = s.said,
         \A k \in DOMAIN x.events : \/ x.events[k].kind # "completed"
                                    \/ \E j \in DOMAIN r.events : x.events[k] = r.events[j],
         Reading(x) => Reading(r) /\ x.cache = r.cache /\ y.stdout = s.stdout
  PROVE  Well(x, y)
<1>1. ASSUME NEW k \in DOMAIN x.events PROVE Tells(y.said, x.events[k])
  <2>1. CASE x.events[k].kind # "completed"
    BY <2>1, Zenon DEF Tells, Faithful
  <2>2. CASE \E j \in DOMAIN r.events : x.events[k] = r.events[j]
    BY <2>2, Zenon DEF Well
  <2> QED
    BY <2>1, <2>2
<1> QED
  BY <1>1, Zenon DEF Well

\* Nothing was said, nothing waits, and nobody reads.
LEMMA WellWithout ==
  ASSUME NEW r, NEW s, s.said = << >>, r.events = << >>, ~Reading(r)
  PROVE  Well(r, s)
BY DEF Well, Orderly

\* A new connection.
LEMMA WellNew ==
  ASSUME NEW r, NEW s, s.said = << >>, r.events = << >>, s.stdout = << >>,
         r.cache = [t \in Turns |-> NotCached]
  PROVE  Well(r, s)
<1>1. Orderly(s.said)
  BY DEF Orderly
<1>2. Piped(s.said, s.stdout, 0)
  BY DEF Piped
<1>3. ASSUME NEW t \in Turns PROVE Kept(s.said, t, 0, r.cache[t])
  <2>1. Finals(s.said, t, 0) = {} /\ Others(s.said, t, 0) = {}
    BY DEF Finals, Others, ItemsOf
  <2> QED
    BY <2>1 DEF Kept, NotCached, Empty
<1>4. Remembered(s.said, s.stdout, r.cache)
  <2>1. 0 \in 0..Len(s.said)
    OBVIOUS
  <2> QED
    BY <1>2, <1>3, <2>1 DEF Remembered, Remembers
<1> QED
  BY <1>1, <1>4 DEF Well

LEMMA InitWell == TransportInit => AllWell
<1> SUFFICES ASSUME TransportInit, NEW c \in Conns PROVE Well(rpc[c], srv[c])
  BY DEF AllWell
<1>1. rpc[c] = NoRpc /\ srv[c] = NoSrv
  BY DEF TransportInit
<1>2. NoSrv.said = << >>
  BY DEF NoSrv, FreshSrv
<1> QED
  BY <1>1, <1>2, NoRpcIs, WellWithout DEF Reading

-----------------------------------------------------------------------------
\* The steps of the worker.

LEMMA ConnectWell == TransportInv /\ Links /\ AllWell /\ Connect => AllWell'
<1> SUFFICES ASSUME TransportInv, Links, AllWell, Connect, NEW d \in Conns
             PROVE  Well(rpc'[d], srv'[d])
  BY DEF AllWell
<1> DEFINE c == C + 1
           r == [FreshRpc EXCEPT !.pending = Ids(StartCall("initialize"))]
<1>1. rpc' = [rpc EXCEPT ![c] = r] /\ srv' = [srv EXCEPT ![c] = FreshSrv]
  BY DEF Connect, SpawnIo
<1>2. /\ r.events = << >> /\ r.cache = [t \in Turns |-> NotCached]
      /\ FreshSrv.said = << >> /\ FreshSrv.stdout = << >>
  BY DEF FreshRpc, FreshSrv
<1> HIDE DEF r, c
<1>3. CASE d = c
  <2>1. rpc'[d] = r /\ srv'[d] = FreshSrv
    BY <1>1, <1>3 DEF Links, RpcKnown, TransportInv, PipesKnown
  <2> QED
    BY <1>2, <2>1, WellNew
<1>4. CASE d # c
  <2>1. rpc'[d] = rpc[d] /\ srv'[d] = srv[d]
    BY <1>1, <1>4 DEF Links, RpcKnown, TransportInv, PipesKnown
  <2> QED
    BY <2>1, Zenon DEF AllWell
<1> QED
  BY <1>3, <1>4

LEMMA CallWell == ASSUME TransportInv, Links, AllWell, CallerSteps PROVE AllWell'
<1> SUFFICES ASSUME NEW c \in Conns PROVE Well(rpc'[c], srv'[c])
  BY DEF AllWell
<1> DEFINE r == rpc[c]
           s == srv[c]
           x == rpc'[c]
           y == srv'[c]
<1>1. /\ x.events = r.events /\ x.cache = r.cache /\ x.cut = r.cut /\ x.reader = r.reader
      /\ y.stdout = s.stdout /\ y.said = s.said
  BY CallMakes DEF Likewise
<1>2. Well(r, s)
  BY DEF AllWell
<1> HIDE DEF r, s, x, y
<1>3. Reading(x) => Reading(r)
  BY <1>1 DEF Reading
<1>4. Well(x, y)
  BY <1>1, <1>2, <1>3, WellKeeps
<1> QED
  BY <1>4 DEF x, y

LEMMA NextEventWell == TransportInv /\ Links /\ AllWell /\ NextEvent => AllWell'
<1> SUFFICES ASSUME TransportInv, Links, AllWell, NextEvent, NEW c \in Conns
             PROVE  Well(rpc'[c], srv'[c])
  BY DEF AllWell
<1> DEFINE r == rpc[c]
           s == srv[c]
           x == rpc'[c]
           y == srv'[c]
<1>1. Well(r, s) /\ y = s /\ r \in Rpcs
  BY DEF AllWell, NextEvent, Links, RpcKnown
<1>2. CASE c # C
  <2>1. x = r
    BY <1>2 DEF NextEvent, Links, RpcKnown
  <2> QED
    BY <1>1, <2>1
<1>3. CASE c = C
  <2>1. /\ r.events # << >> /\ x.events = Tail(r.events) /\ x.cache = r.cache
        /\ x.cut = r.cut /\ x.reader = r.reader
    BY <1>1, <1>3 DEF NextEvent, Links, RpcKnown, Rpcs
  <2>2. r.events \in Seq(Heards)
    BY <1>1 DEF Rpcs
  <2> HIDE DEF r, s, x, y
  <2>3. \A k \in DOMAIN x.events : \E j \in DOMAIN r.events : x.events[k] = r.events[j]
    BY <2>1, <2>2, TailIs
  <2>4. Reading(x) => Reading(r)
    BY <2>1 DEF Reading
  <2>5. y.said = s.said /\ y.stdout = s.stdout
    BY <1>1
  <2>6. Well(x, y)
    BY <1>1, <2>1, <2>3, <2>4, <2>5, WellKeeps
  <2> QED
    BY <2>6 DEF x, y
<1> QED
  BY <1>2, <1>3

LEMMA EndShutdownWell == TransportInv /\ Links /\ AllWell /\ EndShutdown => AllWell'
<1> SUFFICES ASSUME TransportInv, Links, AllWell, EndShutdown, NEW c \in Conns
             PROVE  Well(rpc'[c], srv'[c])
  BY DEF AllWell
<1> DEFINE r == [NoRpc EXCEPT !.reader = rpc[C].reader, !.cut = TRUE, !.lock = rpc[C].lock]
           s == IF rpc[C].reader = "done" THEN NoSrv
                ELSE [NoSrv EXCEPT !.stdout = Take(srv[C].stdout)]
<1>1. rpc' = [rpc EXCEPT ![C] = r] /\ srv' = [srv EXCEPT ![C] = s]
  BY DEF EndShutdown
<1>2. r.events = << >> /\ r.cut = TRUE
  BY DEF NoRpc, FreshRpc
<1>3. s.said = << >>
  BY DEF NoSrv, FreshSrv
<1> HIDE DEF r, s
<1>4. CASE c = C
  <2>1. rpc'[c] = r /\ srv'[c] = s
    BY <1>1, <1>4 DEF Links, RpcKnown, TransportInv, PipesKnown
  <2>2. ~Reading(r)
    BY <1>2 DEF Reading
  <2> QED
    BY <1>2, <1>3, <2>1, <2>2, WellWithout
<1>5. CASE c # C
  <2>1. rpc'[c] = rpc[c] /\ srv'[c] = srv[c]
    BY <1>1, <1>5 DEF Links, RpcKnown, TransportInv, PipesKnown
  <2> QED
    BY <2>1, Zenon DEF AllWell
<1> QED
  BY <1>4, <1>5

-----------------------------------------------------------------------------
\* The steps of an aborted reader.
Finished(r) == r.events = << >> /\ ~Reading(r)

LEMMA GoesGone ==
  ASSUME NEW c \in Conns, NEW r, DOMAIN r = Conns, r[c].cut,
         \/ rpc' = Goes(c, r, "reading")
         \/ rpc' = Goes(c, r, "declining")
         \/ rpc' = Goes(c, r, "closing")
         \/ rpc' = Goes(c, r, "draining")
  PROVE  Finished(rpc'[c])
<1>1. rpc' = [r EXCEPT ![c] = [NoRpc EXCEPT !.cache = r[c].cache]]
  BY DEF Goes
<1>2. rpc'[c] = [NoRpc EXCEPT !.cache = r[c].cache]
  BY <1>1
<1>3. rpc'[c].events = << >> /\ rpc'[c].reader = "done"
  BY <1>2 DEF NoRpc, FreshRpc
<1> QED
  BY <1>3 DEF Finished, Reading

LEMMA CutMakes ==
  ASSUME TransportInv, Links, NEW c \in Conns, rpc[c].cut, ReaderSteps(c)
  PROVE  Finished(rpc'[c]) /\ (srv'[c].said = srv[c].said \/ srv'[c].said = << >>)
<1>1. /\ DOMAIN rpc = Conns /\ DOMAIN srv = Conns /\ rpc[c] \in Rpcs /\ srv[c] \in Servers
      /\ rpc[c].events = << >> /\ ~rpc[c].open /\ rpc[c].watcher = "done" /\ ~srv[c].alive
  BY DEF TransportInv, PipesKnown, Links, RpcKnown, Fits, Still
<1>2. ~ChildExited(c) /\ ~ServerReads(c) /\ ~ServerSays(c) /\ ~ServerEnds(c)
  <2>1. ~ChildExited(c)
    BY <1>1 DEF ChildExited
  <2>2. ~ServerReads(c) /\ ~ServerSays(c) /\ ~ServerEnds(c)
    BY <1>1, Zenon DEF ServerReads, ServerSays, ServerEnds
  <2> QED
    BY <2>1, <2>2
<1>3. srv'[c].said = srv[c].said \/ srv'[c].said = << >>
  <2>1. \/ srv' = srv \/ srv' = Consumed(c) \/ srv' = Declined(c)
        \/ srv' = [srv EXCEPT ![c] = NoSrv]
    BY <1>2, Zenon DEF ReaderSteps, Reader, ReadAnswer, ReadNote, ReadDelta, ReadItem, ReadCompleted,
                ReadAsk, ReadBroken, DeclineLock, DeclineWrite, ReaderEof, ReaderDrain, ReaderAborted
  <2>2. Consumed(c)[c].said = srv[c].said /\ Declined(c)[c].said = srv[c].said
    BY <1>1 DEF Consumed, Declined, Servers
  <2>3. NoSrv.said = << >>
    BY DEF NoSrv, FreshSrv
  <2> QED
    BY <1>1, <2>1, <2>2, <2>3
<1>4. \A e : Sent(c, e) = rpc /\ TrySent(c, e) = rpc
  BY DEF Sent, TrySent
<1>5. Finished(rpc'[c])
  <2>1. CASE ReadAnswer(c)
    <3> DEFINE r == [rpc EXCEPT ![c].pending = @ \ {Said(c).id}]
    <3>1. DOMAIN r = Conns /\ r[c].cut /\ rpc' = Goes(c, r, "reading")
      BY <1>1, <2>1 DEF ReadAnswer, Rpcs
    <3> HIDE DEF r
    <3> QED
      BY <3>1, GoesGone
  <2>2. CASE ReadItem(c)
    <3> DEFINE r == [rpc EXCEPT ![c].cache[Said(c).turn] = Cached(@, Said(c))]
    <3>1. DOMAIN r = Conns /\ r[c].cut /\ rpc' = Goes(c, r, "reading")
      BY <1>1, <2>2 DEF ReadItem, Rpcs
    <3> HIDE DEF r
    <3> QED
      BY <3>1, GoesGone
  <2>3. CASE ReadNote(c) \/ ReadDelta(c) \/ ReadAsk(c) \/ ReadBroken(c) \/ ReaderEof(c)
    <3>1. \/ rpc' = Goes(c, rpc, "reading") \/ rpc' = Goes(c, rpc, "declining")
          \/ rpc' = Goes(c, rpc, "closing") \/ rpc' = Goes(c, rpc, "draining")
      BY <1>4, <2>3 DEF ReadNote, ReadDelta, ReadAsk, ReadBroken, ReaderEof, EventSent
    <3> QED
      BY <1>1, <3>1, GoesGone
  <2>4. CASE ReadCompleted(c)
    <3>1. PICK e, t : rpc' = Goes(c, [Sent(c, e) EXCEPT ![c].cache[t] = NotCached], "reading")
      BY <2>4, Zenon DEF ReadCompleted
    <3> DEFINE r == [rpc EXCEPT ![c].cache[t] = NotCached]
    <3>2. DOMAIN r = Conns /\ r[c].cut /\ rpc' = Goes(c, r, "reading")
      BY <1>1, <1>4, <3>1 DEF Rpcs
    <3> HIDE DEF r
    <3> QED
      BY <3>2, GoesGone
  <2>5. CASE DeclineLock(c)
    <3>1. rpc' = Goes(c, rpc, "reading")
      BY <1>1, <2>5 DEF DeclineLock
    <3> QED
      BY <1>1, <3>1, GoesGone
  <2>6. CASE DeclineWrite(c)
    <3> DEFINE r == [rpc EXCEPT ![c].lock = "free"]
    <3>1. DOMAIN r = Conns /\ r[c].cut /\ rpc' = Goes(c, r, "reading")
      BY <1>1, <2>6 DEF DeclineWrite, Rpcs
    <3> HIDE DEF r
    <3> QED
      BY <3>1, GoesGone
  <2>7. CASE ReaderDrain(c)
    <3>1. rpc'[c].events = << >> /\ rpc'[c].reader = "done"
      BY <1>1, <2>7 DEF ReaderDrain, Rpcs
    <3> QED
      BY <3>1 DEF Finished, Reading
  <2>8. CASE ReaderAborted(c)
    <3>1. rpc'[c] = NoRpc
      BY <1>1, <2>8 DEF ReaderAborted
    <3> QED
      BY <3>1, NoRpcIs DEF Finished, Reading
  <2> QED
    BY <1>2, <2>1, <2>2, <2>3, <2>4, <2>5, <2>6, <2>7, <2>8 DEF ReaderSteps, Reader
<1> QED
  BY <1>3, <1>5

LEMMA CutWell ==
  ASSUME TransportInv, Links, NEW c \in Conns, Well(rpc[c], srv[c]), rpc[c].cut,
         ReaderSteps(c)
  PROVE  Well(rpc'[c], srv'[c])
<1> DEFINE x == rpc'[c]
           y == srv'[c]
           s == srv[c]
<1>1. x.events = << >> /\ ~Reading(x) /\ (y.said = s.said \/ y.said = << >>)
      /\ Orderly(s.said)
  BY CutMakes DEF Finished, Well
<1> HIDE DEF x, y, s
<1>2. Orderly(y.said)
  BY <1>1 DEF Orderly
<1>3. Well(x, y)
  BY <1>1, <1>2 DEF Well
<1> QED
  BY <1>3 DEF x, y

-----------------------------------------------------------------------------
\* The steps of a reader that is listened to.
LEMMA WellReads ==
  ASSUME NEW r \in Rpcs, NEW s \in Servers, Well(r, s), Reading(r), s.stdout # << >>,
         NEW x, NEW y, y.said = s.said, y.stdout = Tail(s.stdout),
         MadeOf(Head(s.stdout), r.cache, x.cache, r.events, x.events)
  PROVE  Well(x, y)
<1> DEFINE m == Head(s.stdout)
           q == s.stdout
           said == s.said
           cache == r.cache
           e == Completion(m, cache)
<1>1. /\ said \in Seq(Messages) /\ q \in Seq(Outputs) /\ q # << >>
      /\ cache \in [Turns -> Entries] /\ r.events \in Seq(Heards)
      /\ Orderly(said) /\ Remembered(said, q, cache)
      /\ \A k \in DOMAIN r.events : Tells(said, r.events[k])
  BY DEF Well, Servers, Rpcs, Outputs
<1>2. Head(q) \in Outputs
  BY <1>1, TailIs
<1>3. ASSUME NEW f \in Heards, Tells(said, f), x.events = Append(r.events, f)
      PROVE  \A k \in DOMAIN x.events : Tells(said, x.events[k])
  BY <1>1, <1>3, AppendIs
<1>4. CASE m.kind \notin {"item", "completed"}
  <2>1. x.cache = cache /\ \E f \in Heards : f.kind # "completed"
                              /\ (x.events = Append(r.events, f) \/ x.events = r.events)
    BY <1>4 DEF MadeOf
  <2>2. \A k \in DOMAIN x.events : Tells(said, x.events[k])
    <3>1. \A f : f.kind # "completed" => Tells(said, f)
      BY Zenon DEF Tells, Faithful
    <3> QED
      BY <1>1, <1>3, <2>1, <3>1
  <2>3. Remembered(said, Tail(q), cache)
    BY <1>1, <1>4, ReadPast
  <2> QED
    BY <1>1, <2>1, <2>2, <2>3 DEF Well
<1>5. CASE m.kind = "item"
  <2>1. x.events = r.events /\ x.cache = [cache EXCEPT ![m.turn] = Cached(cache[m.turn], m)]
    BY <1>5 DEF MadeOf
  <2>2. Remembered(said, Tail(q), x.cache)
    BY <1>1, <1>5, <2>1, ReadNextItem
  <2> QED
    BY <1>1, <2>1, <2>2 DEF Well
<1>6. CASE m.kind = "completed"
  <2>1. x.events = Append(r.events, e) /\ x.cache = [cache EXCEPT ![m.turn] = NotCached]
    BY <1>6 DEF MadeOf
  <2>2. Remembered(said, Tail(q), x.cache) /\ Tells(said, e)
    <3> HIDE DEF q, said, cache
    <3>1. /\ Remembered(said, Tail(q), [cache EXCEPT ![Head(q).turn] = NotCached])
          /\ Tells(said, Event("completed", Head(q).turn,
                    IF Head(q).text # Empty THEN Head(q).text
                    ELSE cache[Head(q).turn].text))
      BY <1>1, <1>6, ReadNextCompleted DEF q
    <3> QED
      BY <2>1, <3>1 DEF Completion, q
  <2>3. e \in Heards
    <3>1. m \in Messages
      BY <1>2, <1>6 DEF Outputs, Answers
    <3> QED
      BY <1>1, <3>1, TransportAssumption DEF Completion, Event, Heards, Messages, Turns, Entries
  <2> HIDE DEF e
  <2>4. \A k \in DOMAIN x.events : Tells(said, x.events[k])
    BY <1>3, <2>1, <2>2, <2>3
  <2> QED
    BY <1>1, <2>2, <2>4 DEF Well
<1> QED
  BY <1>4, <1>5, <1>6

LEMMA ReadWell ==
  ASSUME TransportInv, Links, NEW c \in Conns, Well(rpc[c], srv[c]), ~rpc[c].cut,
         ReadSteps(c)
  PROVE  Well(rpc'[c], srv'[c])
<1>1. rpc[c] \in Rpcs /\ srv[c] \in Servers /\ srv \in [Conns -> Servers]
  BY DEF Links, RpcKnown, TransportInv, PipesKnown
<1>2. srv[c].stdout # << >> /\ srv' = Consumed(c) /\ rpc[c].reader = "reading"
  BY DEF ReadSteps, ReadAnswer, ReadNote, ReadDelta, ReadItem, ReadCompleted, ReadAsk,
         ReadBroken, Reads
<1>3. srv'[c].said = srv[c].said /\ srv'[c].stdout = Tail(srv[c].stdout)
  BY <1>1, <1>2 DEF Consumed, Servers
<1>4. Reading(rpc[c])
  BY <1>2 DEF Reading
<1>5. MadeOf(Head(srv[c].stdout), rpc[c].cache, rpc'[c].cache, rpc[c].events, rpc'[c].events)
  BY ReadMakes DEF Said
<1> DEFINE r == rpc[c]
           s == srv[c]
           x == rpc'[c]
           y == srv'[c]
<1>6. /\ r \in Rpcs /\ s \in Servers /\ Well(r, s) /\ Reading(r) /\ s.stdout # << >>
      /\ y.said = s.said /\ y.stdout = Tail(s.stdout)
      /\ MadeOf(Head(s.stdout), r.cache, x.cache, r.events, x.events)
  BY <1>1, <1>2, <1>3, <1>4, <1>5
<1> HIDE DEF r, s, x, y
<1>7. Well(x, y)
  BY <1>6, WellReads
<1> QED
  BY <1>7 DEF x, y

LEMMA EndWell ==
  ASSUME TransportInv, Links, NEW c \in Conns, Well(rpc[c], srv[c]), ~rpc[c].cut,
         EndSteps(c)
  PROVE  Well(rpc'[c], srv'[c])
<1> DEFINE r == rpc[c]
           s == srv[c]
           x == rpc'[c]
           y == srv'[c]
<1>1. /\ r \in Rpcs /\ Well(r, s) /\ ~r.cut /\ Ends(x, r)
      /\ y.stdout = s.stdout /\ y.said = s.said
  BY EndMakes DEF Links, RpcKnown
<1> HIDE DEF r, s, x, y
<1>2. r.events \in Seq(Heards) /\ Disconnected \in Heards /\ Disconnected.kind # "completed"
  BY <1>1, DisconnectedIs DEF Rpcs, Disconnected, Event
<1>3. \A k \in DOMAIN x.events : \/ x.events[k].kind # "completed"
                                 \/ \E j \in DOMAIN r.events : x.events[k] = r.events[j]
  <2>1. CASE x.events = r.events
    BY <2>1
  <2>2. CASE x.events = Append(r.events, Disconnected)
    BY <1>2, <2>2, AppendIs
  <2> QED
    BY <1>1, <2>1, <2>2 DEF Ends
<1>4. Reading(x) => Reading(r) /\ x.cache = r.cache /\ y.stdout = s.stdout
  BY <1>1 DEF Reading, Ends
<1>5. Well(x, y)
  BY <1>1, <1>3, <1>4, WellKeeps
<1> QED
  BY <1>5 DEF x, y

-----------------------------------------------------------------------------
\* The steps of the server.
LEMMA WellSaid ==
  ASSUME NEW r, NEW s \in Servers, Well(r, s), NEW y, NEW m,
         \/ m \in Sayings(s.said) /\ y.said = Append(s.said, m)
         \/ m \in Outputs /\ m.kind \notin {"item", "completed"} /\ y.said = s.said,
         y.stdout = Append(s.stdout, m)
  PROVE  Well(r, y)
<1> DEFINE said == s.said
           q == s.stdout
           new == y.said
<1>1. /\ said \in Seq(Messages) /\ q \in Seq(Outputs) /\ Orderly(said)
      /\ \A k \in DOMAIN r.events : Tells(said, r.events[k])
      /\ Reading(r) => Remembered(said, q, r.cache)
  BY DEF Well, Servers, Outputs
<1>2. CASE m \in Sayings(said) /\ new = Append(said, m)
  <2> HIDE DEF said, q, new
  <2>1. Orderly(new)
    BY <1>1, <1>2, SaysMore
  <2>2. \A k \in DOMAIN r.events : Tells(new, r.events[k])
    BY <1>1, <1>2, TellsOn
  <2>3. Reading(r) => Remembered(new, y.stdout, r.cache)
    BY <1>1, <1>2, HearsMore DEF q
  <2> QED
    BY <2>1, <2>2, <2>3 DEF Well, new
<1>3. CASE m \in Outputs /\ m.kind \notin {"item", "completed"} /\ new = said
  <2> HIDE DEF said, q, new
  <2>1. Reading(r) => Remembered(new, y.stdout, r.cache)
    BY <1>1, <1>3, HearsPast DEF q
  <2> QED
    BY <1>1, <1>3, <2>1 DEF Well, new
<1> QED
  BY <1>2, <1>3

LEMMA ServerWell ==
  ASSUME TransportInv, Links, NEW c \in Conns, Well(rpc[c], srv[c]),
         ServerReads(c) \/ ServerSays(c) \/ ServerEnds(c)
  PROVE  Well(rpc'[c], srv'[c])
<1> DEFINE r == rpc[c]
           s == srv[c]
           y == srv'[c]
<1>1. s \in Servers /\ srv \in [Conns -> Servers] /\ rpc'[c] = r /\ Well(r, s)
  BY DEF TransportInv, PipesKnown, ServerReads, ServerSays, ServerEnds
<1>2. ASSUME y.said = s.said, y.stdout = s.stdout PROVE Well(r, y)
  <2> HIDE DEF r, s, y
  <2> QED
    BY <1>1, <1>2 DEF Well
<1>3. CASE ServerReads(c)
  <2> DEFINE line == Head(s.stdin)
             a == Answer(line.id, line.serial)
             t == [s EXCEPT !.stdin = Tail(@)]
             read == [srv EXCEPT ![c].stdin = Tail(@)]
  <2>1. /\ read = [srv EXCEPT ![c] = t] /\ read[c] = t /\ DOMAIN read = Conns
        /\ t.stdout = s.stdout /\ t.said = s.said
    BY <1>1 DEF Servers
  <2>2. srv' = read \/ (srv' = [read EXCEPT ![c].stdout = Append(@, a)] /\ line.id # 0)
    BY <1>3 DEF ServerReads
  <2>3. CASE srv' = read
    BY <1>1, <1>2, <2>1, <2>3
  <2>4. CASE srv' = [read EXCEPT ![c].stdout = Append(@, a)] /\ line.id # 0
    <3>1. line \in Lines /\ Tail(s.stdin) \in Seq(Lines)
      <4>1. s.stdin \in Seq(Lines) /\ s.stdin # << >>
        BY <1>1, <1>3 DEF ServerReads, Servers
      <4> QED
        BY <4>1, HeadTailProperties
    <3>2. a \in Outputs /\ a.kind \notin {"item", "completed"}
      BY <2>4, <3>1 DEF Lines, Answers, Answer, Outputs
    <3>3. y.stdout = Append(s.stdout, a) /\ y.said = s.said
      <4>1. t \in Servers
        BY <1>1, <3>1, ServerUpdates
      <4> HIDE DEF a, t, read, s
      <4> QED
        BY <2>1, <2>4, <4>1 DEF Servers
    <3> HIDE DEF r, s, y, a
    <3>4. Well(r, y)
      BY <1>1, <3>2, <3>3, WellSaid
    <3> QED
      BY <1>1, <3>4 DEF y
  <2> QED
    BY <2>2, <2>3, <2>4
<1>4. CASE ServerSays(c)
  <2>1. PICK m \in Sayable(c) :
          srv' = [srv EXCEPT ![c] = [srv[c] EXCEPT !.stdout = Append(@, m),
                   !.said = IF m.kind \in {"ask", "delta", "broken"} THEN @ ELSE Append(@, m),
                   !.asks = IF m.kind = "ask" THEN @ + 1 ELSE @]]
    BY <1>4 DEF ServerSays
  <2>2. m \in Sayings(s.said)
    <3>1. Len(s.said) + 1 \in Nat /\ 1 \in Nat /\ Empty \in Nat
      BY <1>1 DEF Empty, Servers
    <3>2. 1 \in Turns /\ "none" \in Phases /\ ItemPhases \subseteq Phases
      BY TransportAssumption DEF Turns, Phases
    <3>3. m \in Messages
      BY <3>1, <3>2 DEF Sayable, Message, Messages
    <3>4. /\ m.kind = "item" => m.text = Len(s.said) + 1
          /\ m.kind \in {"item", "completed"} => ~Over(c, m.turn)
      BY DEF Sayable, Message
    <3> QED
      BY <3>3, <3>4 DEF Sayings, Over, Closed
  <2>3. /\ y.stdout = Append(s.stdout, m)
        /\ y.said = IF m.kind \in {"ask", "delta", "broken"} THEN s.said ELSE Append(s.said, m)
    BY <1>1, <2>1 DEF Servers
  <2>4. m \in Outputs
    BY <2>2 DEF Sayings, Outputs
  <2> HIDE DEF r, s, y
  <2>5. \/ m \in Sayings(s.said) /\ y.said = Append(s.said, m)
        \/ m \in Outputs /\ m.kind \notin {"item", "completed"} /\ y.said = s.said
    BY <2>2, <2>3, <2>4
  <2>6. Well(r, y)
    BY <1>1, <2>3, <2>5, WellSaid
  <2> QED
    BY <1>1, <2>6 DEF y
<1>5. CASE ServerEnds(c)
  BY <1>1, <1>2, <1>5 DEF ServerEnds, Servers
<1> QED
  BY <1>3, <1>4, <1>5

LEMMA WellStep ==
  TransportInv /\ Links /\ AllWell /\ [TransportNext]_transportVars => AllWell'
<1> SUFFICES ASSUME TransportInv, Links, AllWell, [TransportNext]_transportVars
             PROVE  AllWell'
  OBVIOUS
<1>1. CASE UNCHANGED transportVars
  BY <1>1 DEF transportVars, AllWell
<1>2. CASE Connect \/ NextEvent \/ EndShutdown
  BY <1>2, ConnectWell, NextEventWell, EndShutdownWell
<1>3. CASE CallSteps \/ GiveUp \/ Shutdown \/ CloseStdin
           \/ \E kind \in Requests : Request(kind)
  BY <1>3, CallWell DEF CallerSteps
<1>4. ASSUME NEW c \in Conns, ReaderSteps(c) PROVE AllWell'
  <2>1. Well(rpc[c], srv[c])
    BY Zenon DEF AllWell
  <2>2. Well(rpc'[c], srv'[c])
    <3>1. CASE rpc[c].cut
      BY <1>4, <2>1, <3>1, CutWell
    <3>2. CASE ~rpc[c].cut
      BY <1>4, <2>1, <3>2, ReadWell, EndWell, ServerWell
         DEF ReaderSteps, Reader, ReadSteps, EndSteps
    <3> QED
      BY <3>1, <3>2
  <2>3. ASSUME NEW d \in Conns \ {c} PROVE Well(rpc'[d], srv'[d])
    <3>1. rpc'[d] = rpc[d] /\ srv'[d] = srv[d]
      BY <1>4, Elsewhere
    <3> QED
      BY <3>1, Zenon DEF AllWell
  <2> QED
    BY <2>2, <2>3 DEF AllWell
<1> QED
  BY <1>1, <1>2, <1>3, <1>4 DEF TransportNext, DownSteps, ReaderSteps

\* The answer that the worker hears at the end of a turn is one the server gave
\* with the completion, or the one that the history of the turn would give: the
\* reader's memory holds the right item whatever the order of the phases, across
\* turns that overlap, connections that follow each other and a full channel
\* (parse_completed_agent_message and completed_messages against
\* extract_final_message).
THEOREM StreamIsHistoryCorrect == TransportSpec => []StreamIsHistory
<1> DEFINE I == TransportInv /\ Links /\ AllWell
<1>1. TransportInit => I
  BY InitInv, InitLinks, InitWell
<1>2. I /\ [TransportNext]_transportVars => I'
  BY TransportStep, LinksStep, WellStep
<1>3. I => StreamIsHistory
  BY DEF AllWell, Well, Tells, StreamIsHistory
<1> QED
  BY <1>1, <1>2, <1>3, PTL DEF TransportSpec
=============================================================================
