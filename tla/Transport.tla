----------------------------- MODULE Transport -----------------------------
(***************************************************************************)
(* AppServerTransport in src/src/app_server.rs: JSON-RPC over the pipes of *)
(* a child process.                                                        *)
(*                                                                         *)
(* Four tasks share a connection: the worker that owns the transport and   *)
(* makes one call at a time (caller), the reader of stdout, the watcher of *)
(* the child, and the app-server itself, which is external.  The event     *)
(* channel is bounded; a reader that has an event for a full channel reads *)
(* nothing more, answers included, until the worker takes one.             *)
(***************************************************************************)
EXTENDS Integers, SequencesExt, FiniteSetsExt

CONSTANTS MaxConn,    \* bound: connections
          Themes,     \* bound: the kinds of things the server says in one run, how
                      \* many of them, and the requests of that run
          ItemPhases, \* bound: the phases of its messages
          MaxTurn,    \* bound: turns
          EventRoom   \* capacity of the event channel (128)

\* The phase of a message of the agent, "none" for a server that omits it.
Phases == {"final_answer", "partial_answer", "commentary", "none"}

ASSUME TransportAssumption ==
  /\ MaxConn \in Nat \ {0}
  /\ Themes \subseteq [kinds : SUBSET {"note", "delta", "item", "completed", "ask", "broken"},
                       says : Nat, calls : Nat \ {0}]
  /\ Themes # {} /\ ItemPhases \subseteq Phases
  /\ MaxTurn \in Nat \ {0} /\ EventRoom \in Nat \ {0}

VARIABLES
  caller,   \* the worker: its call, its shutdown, what it has heard
  rpc,      \* per connection: pending, writer, completed_messages, events
  srv       \* per connection: the child process and its pipes

transportVars == <<caller, rpc, srv>>

Conns == 1..MaxConn
Turns == 1..MaxTurn
Empty == 0

\* A call's serial number tells calls apart; its id is what the wire carries.
NoReply == 0
Idle == [kind |-> "none", id |-> 0, serial |-> 0, stage |-> "idle", reply |-> NoReply]

\* What the server may say: an answer, a request of its own ("ask"), and the
\* notifications.  "note" is turn/started, error and thread/status/changed; a
\* line that is no JSON makes an event that waits for room as theirs does.  A line
\* that cannot be read, or is not UTF-8, is "broken".
Message(kind, turn, text, phase) ==
  [kind |-> kind, turn |-> turn, text |-> text, phase |-> phase]
Answer(id, serial) == [kind |-> "answer", id |-> id, serial |-> serial]

\* TransportEvent
Event(kind, turn, text) == [kind |-> kind, turn |-> turn, text |-> text]
Disconnected == Event("disconnected", 0, Empty)
Diagnostic   == Event("diagnostic", 0, Empty)

\* What decides a task, and what of q does.
Authoritative(e) == e.kind \in {"note", "completed"}
Gist(e) == [kind |-> e.kind, turn |-> e.turn]
Brief(q) ==
  LET f[k \in 0..Len(q)] ==
        IF k = 0 THEN << >>
        ELSE IF Authoritative(q[k]) THEN Append(f[k - 1], Gist(q[k])) ELSE f[k - 1]
  IN f[Len(q)]

NotCached == [text |-> Empty, final |-> FALSE]
FreshRpc ==
  [pending |-> {},         \* the PendingMap's keys
   open    |-> TRUE,       \* the writer holds the child's stdin
   lock    |-> "free",     \* who holds the writer's mutex
   cache   |-> [t \in Turns |-> NotCached],
   events  |-> << >>,
   reader  |-> "reading",  \* "declining", "closing", "draining" or "done"
   cut     |-> FALSE,      \* the reader has been aborted
   watcher |-> "waiting"]  \* "done"

\* partial: a line that was cut short is in the pipe.  torn, said and asks are
\* history: was a line ever cut short, what was said of turns, how many requests
\* of the server are unanswered.
FreshSrv == [alive |-> TRUE, stdin |-> << >>, partial |-> FALSE, stdout |-> << >>,
             torn |-> FALSE, said |-> << >>, asks |-> 0]
NoSrv == [FreshSrv EXCEPT !.alive = FALSE]
NoRpc == [FreshRpc EXCEPT !.open = FALSE, !.reader = "done", !.watcher = "done"]

C == caller.conn

\* The lock has one holder, who is writing; requests that wait for an answer
\* are those of the current call or of an interrupt that was given up; and a
\* connection that was shut down holds no more than its last reader left there.
TransportTypeOK ==
  /\ caller.conn \in 0..MaxConn
  /\ caller.connected => C # 0 /\ rpc[C].open
  /\ caller.call.stage = "writing" <=> \E c \in Conns : rpc[c].lock = "caller"
  /\ \A c \in Conns :
       /\ rpc[c].lock = "reader" => rpc[c].reader = "declining"
       /\ Len(rpc[c].events) <= EventRoom
       /\ rpc[c].pending \subseteq 1..caller.next - 1
       /\ c # C => rpc[c].events = << >> /\ rpc[c].pending = {} /\ ~srv[c].alive

-----------------------------------------------------------------------------
\* The worker's calls.

\* Mutant of NextId: ids start again from 1 when a call has ended.
NextIdSame == 1

\* request_id.fetch_add
NextId == caller.next

Requests == {"initialize", "call", "interrupt"}

\* The first half of request: the id, the entry in pending.  "initialized" is a
\* notification: it has neither.
StartCall(kind) ==
  [kind |-> kind, id |-> IF kind = "initialized" THEN 0 ELSE NextId,
   serial |-> caller.next, stage |-> "locking", reply |-> NoReply]
Ids(call) == IF call.kind \in Requests THEN {call.id} ELSE {}

Ready == caller.call = Idle /\ caller.down = "no"

\* start_thread, start_turn, list_models and the like are one request; those
\* that fall back on an older method make another.  An interrupt may be given
\* up by the worker.
Request(kind) ==
  /\ Ready /\ caller.connected /\ caller.next <= caller.theme.calls
  /\ caller' = [caller EXCEPT !.call = StartCall(kind), !.next = @ + 1]
  /\ rpc' = [rpc EXCEPT ![C].pending = @ \cup Ids(StartCall(kind))]
  /\ UNCHANGED srv

SpawnIo(c) == FreshRpc

\* connect: the child is spawned and asked to initialize.
Connect ==
  /\ Ready /\ ~caller.connected /\ C < MaxConn /\ caller.next <= caller.theme.calls
  /\ LET c == C + 1
         call == StartCall("initialize")
     IN /\ caller' = [caller EXCEPT !.conn = c, !.connected = TRUE, !.call = call,
                                    !.next = @ + 1]
        /\ rpc' = [rpc EXCEPT ![c] = [SpawnIo(c) EXCEPT !.pending = Ids(call)]]
        /\ srv' = [srv EXCEPT ![c] = FreshSrv]

\* How a call ends: connect goes on to "initialized", or gives the connection
\* up; any other result is the worker's.
Ended(ok) ==
  CASE caller.call.kind = "initialize" /\ ok -> [caller EXCEPT !.call = StartCall("initialized")]
    [] caller.call.kind \in {"initialize", "initialized"} /\ ~ok ->
         [caller EXCEPT !.call = Idle, !.connected = FALSE, !.down = "locking"]
    [] OTHER -> [caller EXCEPT !.call = Idle]

\* send_line takes the writer's mutex ...
TakeLock ==
  /\ caller.call.stage = "locking" /\ rpc[C].lock = "free"
  /\ caller' = [caller EXCEPT !.call.stage = "writing"]
  /\ rpc' = [rpc EXCEPT ![C].lock = "caller"]
  /\ UNCHANGED srv

\* The line that the server sees: one that follows a partial line is part of it.
Line(c, line) ==
  IF srv[c].partial THEN [srv EXCEPT ![c].partial = FALSE]
  ELSE [srv EXCEPT ![c].stdin = Append(@, line)]

\* ... and writes the line, when the pipe takes it.  A pipe whose child has
\* ended is broken, and the request leaves pending.
Write ==
  /\ caller.call.stage = "writing"
  /\ IF srv[C].alive
     THEN /\ srv' = Line(C, [id |-> caller.call.id, serial |-> caller.call.serial])
          /\ caller' = IF caller.call.kind = "initialized" THEN Ended(TRUE)
                       ELSE [caller EXCEPT !.call.stage = "waiting"]
          /\ rpc' = [rpc EXCEPT ![C].lock = "free"]
     ELSE /\ caller' = Ended(FALSE)
          /\ rpc' = [rpc EXCEPT ![C] = [rpc[C] EXCEPT !.lock = "free",
                                                      !.pending = @ \ {caller.call.id}]]
          /\ UNCHANGED srv

\* The answer, or the reader's word that there will be none.
Answered ==
  /\ caller.call.stage = "waiting" /\ caller.call.reply # NoReply
  /\ caller' = Ended(caller.call.reply > 0)
  /\ UNCHANGED <<rpc, srv>>

\* Mutant of TimedOut: only an answer ends a request.
TimedOutNever == FALSE /\ UNCHANGED transportVars

\* REQUEST_TIMEOUT
TimedOut ==
  /\ caller.call.stage = "waiting" /\ caller.call.reply = NoReply
  /\ caller' = Ended(FALSE)
  /\ rpc' = [rpc EXCEPT ![C].pending = @ \ {caller.call.id}]
  /\ UNCHANGED srv

\* The worker gives an interrupt up after five seconds: request is dropped
\* where it stands, perhaps in the middle of a line.
GiveUp ==
  /\ caller.call.kind = "interrupt"
  /\ caller' = [caller EXCEPT !.call = Idle]
  /\ IF caller.call.stage = "writing"
     THEN /\ rpc' = [rpc EXCEPT ![C].lock = "free"]
          /\ srv' \in {srv, [srv EXCEPT ![C].partial = TRUE, ![C].torn = TRUE]}
     ELSE UNCHANGED <<rpc, srv>>

\* next_event
NextEvent ==
  /\ Ready /\ caller.connected /\ rpc[C].events # << >>
  /\ caller' = [caller EXCEPT !.heard = @ \o Brief(<<Head(rpc[C].events)>>)]
  /\ rpc' = [rpc EXCEPT ![C].events = Tail(@)]
  /\ UNCHANGED srv

-----------------------------------------------------------------------------
\* shutdown: after an error of connect, or whenever the worker has no more use
\* for the connection (it hears Disconnected, finishes, pauses, stops).

Shutdown ==
  /\ Ready /\ caller.connected
  /\ caller' = [caller EXCEPT !.connected = FALSE, !.down = "locking"]
  /\ UNCHANGED <<rpc, srv>>

CloseStdin ==
  /\ caller.down = "locking" /\ rpc[C].lock = "free"
  /\ caller' = [caller EXCEPT !.down = "child"]
  /\ rpc' = [rpc EXCEPT ![C].open = FALSE]
  /\ UNCHANGED srv

\* All that an aborted reader may still read.
Take(q) == IF q = << >> THEN q ELSE <<Head(q)>>

\* Mutant of EndShutdown: what was pending stays.
EndShutdownUncleared ==
  /\ caller.down = "child"
  /\ caller' = [caller EXCEPT !.down = "no", !.heard = << >>]
  /\ rpc' = [rpc EXCEPT ![C] = [NoRpc EXCEPT !.reader = rpc[C].reader, !.cut = TRUE,
                                             !.lock = rpc[C].lock,
                                             !.pending = rpc[C].pending]]
  /\ srv' = [srv EXCEPT ![C] = IF rpc[C].reader = "done" THEN NoSrv
                               ELSE [NoSrv EXCEPT !.stdout = Take(srv[C].stdout)]]

\* The watcher has ended, or three seconds have passed and it is aborted, which
\* kills the child.  The reader is aborted too, but not waited for.
EndShutdown ==
  /\ caller.down = "child"
  /\ caller' = [caller EXCEPT !.down = "no", !.heard = << >>]
  /\ rpc' = [rpc EXCEPT ![C] = [NoRpc EXCEPT !.reader = rpc[C].reader, !.cut = TRUE,
                                             !.lock = rpc[C].lock]]
  /\ srv' = [srv EXCEPT ![C] = IF rpc[C].reader = "done" THEN NoSrv
                               ELSE [NoSrv EXCEPT !.stdout = Take(srv[C].stdout)]]

-----------------------------------------------------------------------------
\* The reader of connection c.

\* What the reader does next; an aborted one is gone at its next await.
Goes(c, r, state) ==
  IF r[c].cut THEN [r EXCEPT ![c] = [NoRpc EXCEPT !.cache = r[c].cache]]
  ELSE [r EXCEPT ![c].reader = state]

\* send waits for room; the receiver of a connection that was shut down is gone.
Room(c)      == rpc[c].cut \/ Len(rpc[c].events) < EventRoom
Sent(c, e)   == IF rpc[c].cut THEN rpc ELSE [rpc EXCEPT ![c].events = Append(@, e)]
TrySent(c, e) == IF Room(c) THEN Sent(c, e) ELSE rpc

Reads(c, kinds) ==
  /\ rpc[c].reader = "reading" /\ srv[c].stdout # << >>
  /\ Head(srv[c].stdout).kind \in kinds
Consumed(c) == [srv EXCEPT ![c].stdout = Tail(@)]
Said(c) == Head(srv[c].stdout)

\* The answer goes to whoever waits for its id.
ReadAnswer(c) ==
  /\ Reads(c, {"answer"})
  /\ caller' = IF Said(c).id \in rpc[c].pending /\ caller.call.id = Said(c).id
               THEN [caller EXCEPT !.call.reply = Said(c).serial] ELSE caller
  /\ rpc' = Goes(c, [rpc EXCEPT ![c].pending = @ \ {Said(c).id}], "reading")
  /\ srv' = Consumed(c)

\* Mutant of EventSent: dropped when the channel is full.
EventSentOrDropped(c, e) == rpc' = Goes(c, TrySent(c, e), "reading")

\* An event that must arrive waits for room.
EventSent(c, e) == Room(c) /\ rpc' = Goes(c, Sent(c, e), "reading")

ReadNote(c) ==
  /\ Reads(c, {"note"})
  /\ EventSent(c, Event("note", Said(c).turn, Empty))
  /\ srv' = Consumed(c) /\ UNCHANGED caller

ReadDelta(c) ==
  /\ Reads(c, {"delta"})
  /\ rpc' = Goes(c, TrySent(c, Event("delta", Said(c).turn, Empty)), "reading")
  /\ srv' = Consumed(c) /\ UNCHANGED caller

\* Mutant of Cached: the last message replaces a final answer as any other.
CachedLast(old, m) ==
  IF m.phase = "commentary" THEN old
  ELSE [text |-> m.text, final |-> m.phase = "final_answer"]

\* parse_completed_agent_message and item/completed: commentary is ignored, and
\* nothing but another final answer replaces a final answer.
Cached(old, m) ==
  LET final == m.phase = "final_answer" IN
  IF m.phase = "commentary" \/ (old.final /\ ~final) THEN old
  ELSE [text |-> m.text, final |-> final]

ReadItem(c) ==
  /\ Reads(c, {"item"})
  /\ rpc' = Goes(c, [rpc EXCEPT ![c].cache[Said(c).turn] = Cached(@, Said(c))], "reading")
  /\ srv' = Consumed(c) /\ UNCHANGED caller

\* turn/completed: the text of the turn's own items, else the cached one.
ReadCompleted(c) ==
  LET t == Said(c).turn
      text == IF Said(c).text # Empty THEN Said(c).text ELSE rpc[c].cache[t].text
  IN /\ Reads(c, {"completed"}) /\ Room(c)
     /\ rpc' = Goes(c, [Sent(c, Event("completed", t, text))
                           EXCEPT ![c].cache[t] = NotCached], "reading")
     /\ srv' = Consumed(c) /\ UNCHANGED caller

\* decline_server_request: the user is told if there is room, and the reader
\* itself writes the answer.
ReadAsk(c) ==
  /\ Reads(c, {"ask"})
  /\ rpc' = Goes(c, TrySent(c, Diagnostic), "declining")
  /\ srv' = Consumed(c) /\ UNCHANGED caller

DeclineLock(c) ==
  /\ rpc[c].reader = "declining" /\ rpc[c].lock = "free"
  /\ rpc' = IF rpc[c].open THEN [rpc EXCEPT ![c].lock = "reader"]
            ELSE Goes(c, rpc, "reading")
  /\ UNCHANGED <<caller, srv>>

\* Mutant of Declined: nothing is written.
DeclinedUnwritten(c) == srv

Declined(c) ==
  IF ~srv[c].alive THEN srv
  ELSE IF srv[c].partial THEN [srv EXCEPT ![c].partial = FALSE]
  ELSE [srv EXCEPT ![c].asks = @ - 1]

DeclineWrite(c) ==
  /\ rpc[c].lock = "reader"
  /\ srv' = Declined(c)
  /\ rpc' = Goes(c, [rpc EXCEPT ![c].lock = "free"], "reading")
  /\ UNCHANGED caller

\* A line that cannot be read: Disconnected, and no line is read any more,
\* although the child may live.
ReadBroken(c) ==
  /\ Reads(c, {"broken"}) /\ Room(c)
  /\ rpc' = Goes(c, Sent(c, Disconnected), "closing")
  /\ srv' = Consumed(c) /\ UNCHANGED caller

\* stdout is closed, or was given up: Disconnected, once more in that case, then
\* every request that still waits.
ReaderEof(c) ==
  /\ \/ rpc[c].reader = "reading" /\ srv[c].stdout = << >> /\ ~srv[c].alive
     \/ rpc[c].reader = "closing"
  /\ Room(c)
  /\ rpc' = Goes(c, Sent(c, Disconnected), "draining")
  /\ UNCHANGED <<caller, srv>>

ReaderDrain(c) ==
  /\ rpc[c].reader = "draining"
  /\ caller' = IF C = c /\ caller.call.id \in rpc[c].pending /\ caller.call.reply = NoReply
               THEN [caller EXCEPT !.call.reply = -1] ELSE caller
  /\ rpc' = [rpc EXCEPT ![c] = [@ EXCEPT !.reader = "done", !.pending = {}]]
  /\ UNCHANGED srv

ReaderAborted(c) ==
  /\ rpc[c].cut /\ rpc[c].reader # "done"
  /\ rpc' = [rpc EXCEPT ![c] = NoRpc] /\ srv' = [srv EXCEPT ![c] = NoSrv]
  /\ UNCHANGED caller

\* child_task
ChildExited(c) ==
  /\ rpc[c].watcher = "waiting" /\ ~srv[c].alive /\ Room(c)
  /\ rpc' = [Sent(c, Disconnected) EXCEPT ![c].watcher = "done"]
  /\ UNCHANGED <<caller, srv>>

Reader(c) ==
  \/ ReadAnswer(c) \/ ReadNote(c) \/ ReadDelta(c) \/ ReadItem(c) \/ ReadCompleted(c)
  \/ ReadAsk(c) \/ ReadBroken(c) \/ DeclineLock(c) \/ DeclineWrite(c)
  \/ ReaderEof(c) \/ ReaderDrain(c)

-----------------------------------------------------------------------------
\* The app-server.  It answers a request in its own time or never, says what it
\* likes and may end at any moment.

ServerReads(c) ==
  /\ srv[c].alive /\ srv[c].stdin # << >>
  /\ LET line == Head(srv[c].stdin)
         read == [srv EXCEPT ![c].stdin = Tail(@)]
     IN srv' \in {read} \cup
          (IF line.id = 0 THEN {}
           ELSE {[read EXCEPT ![c].stdout = Append(@, Answer(line.id, line.serial))]})
  /\ UNCHANGED <<caller, rpc>>

\* Each text is a different number; turn/completed may come without one.  A turn
\* says nothing more once it has completed.
Over(c, t) == \E k \in DOMAIN srv[c].said : srv[c].said[k].kind = "completed"
                                            /\ srv[c].said[k].turn = t
Sayable(c) ==
  LET text == Len(srv[c].said) + 1
      open == {t \in Turns : ~Over(c, t)}
  IN {m \in {Message(kind, 1, Empty, "none") : kind \in {"note", "delta", "ask", "broken"}}
            \cup {Message("item", t, text, phase) : t \in open, phase \in ItemPhases}
            \cup {Message("completed", t, x, "none") : t \in open, x \in {Empty, text}}
        : m.kind \in caller.theme.kinds}

ServerSays(c) ==
  /\ srv[c].alive /\ caller.left > 0
  /\ \E m \in Sayable(c) :
       srv' = [srv EXCEPT ![c] = [srv[c] EXCEPT !.stdout = Append(@, m),
                 !.said = IF m.kind \in {"ask", "delta", "broken"} THEN @ ELSE Append(@, m),
                 !.asks = IF m.kind = "ask" THEN @ + 1 ELSE @]]
  /\ caller' = [caller EXCEPT !.left = @ - 1]
  /\ UNCHANGED rpc

ServerEnds(c) ==
  /\ srv[c].alive
  /\ srv' = [srv EXCEPT ![c].alive = FALSE]
  /\ UNCHANGED <<caller, rpc>>

-----------------------------------------------------------------------------
TransportInit ==
  /\ \E theme \in Themes :
       caller = [conn |-> 0, connected |-> FALSE, call |-> Idle, down |-> "no",
                 next |-> 1, heard |-> << >>, theme |-> theme, left |-> theme.says]
  /\ rpc = [c \in Conns |-> NoRpc]
  /\ srv = [c \in Conns |-> NoSrv]

CallSteps == TakeLock \/ Write \/ Answered \/ TimedOut
DownSteps == CloseStdin \/ EndShutdown

TransportNext ==
  \/ Connect \/ Shutdown \/ NextEvent \/ CallSteps \/ GiveUp \/ DownSteps
  \/ \E kind \in Requests \ {"initialize"} : Request(kind)
  \/ \E c \in Conns : Reader(c) \/ ReaderAborted(c) \/ ChildExited(c)
                      \/ ServerReads(c) \/ ServerSays(c) \/ ServerEnds(c)

TransportSpec == TransportInit /\ [][TransportNext]_transportVars

\* Time passes, a task that can go on goes on, the worker that has nothing else
\* to do takes events.  Writing has no timeout: that the pipe takes a line in
\* the end is assumed of the app-server.
TransportFairness ==
  /\ WF_transportVars(CallSteps \/ DownSteps)
  /\ WF_transportVars(NextEvent)
  /\ WF_transportVars(\E c \in Conns : Reader(c))

FairTransportSpec == TransportSpec /\ TransportFairness

-----------------------------------------------------------------------------
\* Properties.

\* A call gets the answer that the server gave to it, not one to an earlier call
\* that came too late, or on another connection (request, dispatch_message).
OwnAnswer == caller.call.reply \in {NoReply, -1, caller.call.serial}

\* Nothing that decides a task is lost, repeated or overtaken between the server
\* and the worker, however full the channel: what the worker has heard, what
\* waits in the channel and what is still in the pipe is what was said
\* (dispatch_message, next_event).
NothingLost ==
  caller.connected =>
    caller.heard \o Brief(rpc[C].events) \o Brief(srv[C].stdout) = Brief(srv[C].said)

\* extract_final_message: what the history of a turn says its answer is, the
\* items being places in what was said.
LastOf(said, items, phases) ==
  LET chosen == {k \in items : said[k].phase \in phases} IN
  IF chosen = {} THEN Empty ELSE said[Max(chosen)].text
ExtractFinalMessage(said, items) ==
  LET final   == LastOf(said, items, {"final_answer"})
      partial == LastOf(said, items, {"partial_answer"})
  IN CASE final # Empty                     -> final
       [] final = Empty /\ partial # Empty -> partial
       [] OTHER -> LastOf(said, items, Phases \ {"commentary"})

\* The answer put together from the stream is the one that the history of the
\* turn would give, if its messages do not mix partial answers with messages
\* without a phase (completed_messages against extract_final_message).
ItemsOf(said, t) == {k \in DOMAIN said : said[k].kind = "item" /\ said[k].turn = t}
Mixed(said, items) == {"partial_answer", "none"} \subseteq {said[k].phase : k \in items}
OwnText(said, t, x) ==
  \E k \in DOMAIN said : said[k].kind = "completed" /\ said[k].turn = t /\ said[k].text = x
Faithful(said, e) ==
  LET items == ItemsOf(said, e.turn) IN
  e.kind = "completed" /\ ~Mixed(said, items) =>
    \/ e.text # Empty /\ OwnText(said, e.turn, e.text)
    \/ e.text = ExtractFinalMessage(said, items)
StreamIsHistory ==
  \A c \in Conns : \A k \in DOMAIN rpc[c].events : Faithful(srv[c].said, rpc[c].events[k])

\* Every call and every shutdown ends (REQUEST_TIMEOUT, the drain at the end of
\* the reader).
CallsEnd == []<>Ready

\* The server never waits on Longwatch: a request of its own is answered, unless
\* the connection or its reader ends or an interrupt was cut short in the middle
\* of its line (decline_server_request).
AsksAnswered ==
  []<>(\A c \in Conns : srv[c].asks = 0 \/ ~srv[c].alive \/ srv[c].torn \/ ~rpc[c].open
                         \/ rpc[c].reader = "done")
=============================================================================
