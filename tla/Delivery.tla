------------------------------ MODULE Delivery ------------------------------
(***************************************************************************)
(* How an event reaches the clients of a session, and a reply the client   *)
(* that waits for it: server/network/ws_broadcast_sink.cpp and the write   *)
(* side of ws_connection.cpp.                                              *)
(*                                                                         *)
(* Senders are the strands of the connections and the tick handler.  A     *)
(* sender copies the connections registered for the session and then posts *)
(* the message to the strand of each, one at a time.  What is posted runs  *)
(* later, between the handlers of that strand.  Every connection has a     *)
(* player of its own here; several connections of one player are the       *)
(* matter of Connections.                                                  *)
(***************************************************************************)
EXTENDS Integers, Sequences

CONSTANTS
  Links,        \* the connections, whose strands run their handlers
  Ticker,       \* the tick handler
  MaxMessages   \* bound: messages formed in all

ASSUME DeliveryAssumption == Ticker \notin Links /\ MaxMessages \in Nat

VARIABLES
  task,         \* per sender, the message it is sending and what it does then
  posted,       \* per connection, the messages its strand has still to take
  write_queue,  \* write_queue_
  writing,      \* writing_
  in_flight,    \* per connection, the calls of async_write not answered yet
  stream,       \* open, mute after a failed write, closed after a failed read
  joined,       \* session_id_ and player_id_ are set
  connections,  \* the registry
  received,     \* history: per connection, what its client was sent
  formed,       \* history: per sender, the messages formed so far
  room          \* bound: how many more messages handlers may begin to form

Registry == INSTANCE ConnectionManager

deliveryVars ==
  <<task, posted, write_queue, writing, in_flight, stream, joined, connections, received, formed,
    room>>

Senders == Links \cup {Ticker}

(* The messages of a sender, events and replies, are numbered in the order *)
(* it forms them.                                                          *)
Message == [kind : {"event", "reply"}, from : Senders, n : 1..MaxMessages]

Session == 1

(* A handler with nothing to send before it does the rest.                 *)
Silent(after) == [kind |-> "event", n |-> 0, todo |-> {}, after |-> after]

Idle == Silent(<<>>)

DeliveryInit ==
  /\ task = [t \in Senders |-> Idle]
  /\ posted = [c \in Links |-> <<>>]
  /\ write_queue = [c \in Links |-> <<>>]
  /\ writing = [c \in Links |-> FALSE]
  /\ in_flight = [c \in Links |-> 0]
  /\ stream = [c \in Links |-> "open"]
  /\ joined = [c \in Links |-> FALSE]
  /\ connections = Registry!NoConnections
  /\ received = [c \in Links |-> <<>>]
  /\ formed = [t \in Senders |-> 0]
  /\ room = MaxMessages

writerVars == <<posted, write_queue, writing, in_flight, received>>

Resting(t) == task[t] = Idle

(* The sender forms its next message and is about to send it to "todo";    *)
(* then comes the rest of its handler's steps.                             *)
Sends(t, kind, todo, after) ==
  /\ formed' = [formed EXCEPT ![t] = @ + 1]
  /\ task' = [task EXCEPT ![t] = [kind |-> kind, n |-> formed[t] + 1,
                                  todo |-> todo, after |-> after]]

(* The message a sender is sending.                                        *)
Outgoing(t) == [kind |-> task[t].kind, from |-> t, n |-> task[t].n]

-----------------------------------------------------------------------------
(* Bound: a handler begins while there is room for the n messages it will  *)
(* form, its reply included.                                               *)
TakesRoom(n) == n <= room /\ room' = room - n

(* Mutant: the sender's own connection is passed over.                   *)
BroadcastToOthers(t, after) ==
  /\ Sends(t, "event", Registry!GetSessionConnections(Session, Links) \ {t}, after)
  /\ UNCHANGED <<writerVars, stream, joined, connections>>

(* WsBroadcastSink::Broadcast: the connections of the session are copied,  *)
(* and the locks of the registry and of the session are free again.        *)
Broadcast(t, after) ==
  /\ Sends(t, "event", Registry!GetSessionConnections(Session, Links), after)
  /\ UNCHANGED <<writerVars, stream, joined, connections>>

(* A message has been read and a handler begins: by what it does after its *)
(* broadcast.                                                              *)
Serves(c) == stream[c] # "closed" /\ Resting(c)

(* join and create_session: the event goes out before the player is        *)
(* registered.                                                             *)
JoinHandler(c) == Serves(c) /\ TakesRoom(2) /\ Broadcast(c, <<"register", "reply">>)

LeaveHandler(c) ==
  Serves(c) /\ joined[c] /\ TakesRoom(2) /\ Broadcast(c, <<"unregister", "reply">>)

(* start_game, next_question, submit_answer.                               *)
GameHandler(c) == Serves(c) /\ TakesRoom(2) /\ Broadcast(c, <<"reply">>)

(* reconnect broadcasts nothing; a refused command only replies.           *)
QuietHandler(c) ==
  /\ Serves(c) /\ TakesRoom(1)
  /\ \E after \in {<<"register", "reply">>, <<"reply">>} :
       task' = [task EXCEPT ![c] = Silent(after)]
  /\ UNCHANGED <<writerVars, stream, joined, connections, formed>>

TickHandler == Resting(Ticker) /\ TakesRoom(1) /\ Broadcast(Ticker, <<>>)

(* A task with c served, and over if that was all.                         *)
Served(work, c) ==
  IF work.todo = {c} /\ work.after = <<>> THEN Idle ELSE [work EXCEPT !.todo = @ \ {c}]

(* Send(message): the message is posted to the strand of c.                *)
PostTo(t, c) ==
  /\ c \in task[t].todo
  /\ posted' = [posted EXCEPT ![c] = Append(@, Outgoing(t))]
  /\ task' = [task EXCEPT ![t] = Served(@, c)]
  /\ UNCHANGED <<write_queue, writing, in_flight, stream, joined, connections, received,
                 formed, room>>

(* Nobody was there to send it to.                                         *)
Unheard(t) ==
  /\ task[t].n # 0 /\ task[t].todo = {} /\ task[t].after = <<>>
  /\ task' = [task EXCEPT ![t] = Idle]
  /\ UNCHANGED <<writerVars, stream, joined, connections, formed, room>>

NextStep(c, step) ==
  /\ task[c].todo = {} /\ task[c].after # <<>> /\ Head(task[c].after) = step

Goes(c) == task' = [task EXCEPT ![c].after = Tail(@)]

(* Mutant: the two ids, both strings, are swapped.                       *)
RegisterSwapped(c) ==
  /\ NextStep(c, "register")
  /\ joined' = [joined EXCEPT ![c] = TRUE]
  /\ Registry!Register(c, Session, c)
  /\ Goes(c)
  /\ UNCHANGED <<writerVars, stream, formed, room>>

RegisterStep(c) ==
  /\ NextStep(c, "register")
  /\ joined' = [joined EXCEPT ![c] = TRUE]
  /\ Registry!Register(Session, c, c)
  /\ Goes(c)
  /\ UNCHANGED <<writerVars, stream, formed, room>>

UnregisterStep(c) ==
  /\ NextStep(c, "unregister")
  /\ joined' = [joined EXCEPT ![c] = FALSE]
  /\ Registry!Unregister(Session, c)
  /\ Goes(c)
  /\ UNCHANGED <<writerVars, stream, formed, room>>

(* Send(SerializeResponse(...)): the reply is posted behind the event.     *)
ReplyStep(c) ==
  /\ NextStep(c, "reply")
  /\ Sends(c, "reply", {c}, Tail(task[c].after))
  /\ UNCHANGED <<writerVars, stream, joined, connections, room>>

SenderStep(t) ==
  \/ \E c \in Links : PostTo(t, c)
  \/ Unheard(t)
  \/ t \in Links /\ (RegisterStep(t) \/ UnregisterStep(t) \/ ReplyStep(t))

-----------------------------------------------------------------------------
(* DoWrite, for the queue as the caller leaves it.                         *)
DoWrite(c, queue, answered) ==
  /\ writing' = [writing EXCEPT ![c] = queue # <<>>]
  /\ in_flight' = [in_flight EXCEPT ![c] = @ - answered + IF queue # <<>> THEN 1 ELSE 0]

(* Mutant: every message starts a write.                                 *)
TakeAndWrite(c) ==
  LET queue == Append(write_queue[c], Head(posted[c]))
  IN  /\ Resting(c) /\ posted[c] # <<>>
      /\ posted' = [posted EXCEPT ![c] = Tail(@)]
      /\ write_queue' = [write_queue EXCEPT ![c] = queue]
      /\ DoWrite(c, queue, 0)
      /\ UNCHANGED <<task, stream, joined, connections, received, formed, room>>

(* The handler Send has posted: the message joins the queue, and a write   *)
(* starts unless one is under way.                                         *)
TakePosted(c) ==
  LET queue == Append(write_queue[c], Head(posted[c]))
  IN  /\ Resting(c) /\ posted[c] # <<>>
      /\ posted' = [posted EXCEPT ![c] = Tail(@)]
      /\ write_queue' = [write_queue EXCEPT ![c] = queue]
      /\ IF writing[c] THEN UNCHANGED <<writing, in_flight>> ELSE DoWrite(c, queue, 0)
      /\ UNCHANGED <<task, stream, joined, connections, received, formed, room>>

(* Mutant: the next message is left to the next Send.                    *)
WriteDoneStops(c) ==
  /\ Resting(c) /\ stream[c] # "mute" /\ in_flight[c] > 0
  /\ received' = [received EXCEPT ![c] = Append(@, Head(write_queue[c]))]
  /\ write_queue' = [write_queue EXCEPT ![c] = Tail(@)]
  /\ in_flight' = [in_flight EXCEPT ![c] = @ - 1]
  /\ UNCHANGED <<task, posted, writing, stream, joined, connections, formed, room>>

(* OnWrite: the message at the front is out, the next follows.             *)
WriteDone(c) ==
  LET queue == Tail(write_queue[c])
  IN  /\ Resting(c) /\ stream[c] # "mute" /\ in_flight[c] > 0
      /\ received' = [received EXCEPT ![c] = Append(@, Head(write_queue[c]))]
      /\ write_queue' = [write_queue EXCEPT ![c] = queue]
      /\ DoWrite(c, queue, 1)
      /\ UNCHANGED <<task, posted, stream, joined, connections, formed, room>>

OnDisconnect(c) ==
  /\ joined' = [joined EXCEPT ![c] = FALSE]
  /\ IF joined[c] THEN Registry!Unregister(Session, c) ELSE UNCHANGED connections
  /\ UNCHANGED <<task, formed, room>>

(* OnWrite with an error: the front stays in the queue and writing_ set.   *)
WriteFails(c) ==
  /\ Resting(c) /\ in_flight[c] > 0
  /\ OnDisconnect(c)
  /\ stream' = [stream EXCEPT ![c] = IF @ = "open" THEN "mute" ELSE @]
  /\ in_flight' = [in_flight EXCEPT ![c] = @ - 1]
  /\ UNCHANGED <<posted, write_queue, writing, received>>

(* OnRead with an error.  A write under way may still be done.             *)
ReadFails(c) ==
  /\ Resting(c) /\ stream[c] # "closed"
  /\ OnDisconnect(c)
  /\ stream' = [stream EXCEPT ![c] = "closed"]
  /\ UNCHANGED writerVars

DeliveryNext ==
  \/ \E c \in Links :
       \/ JoinHandler(c) \/ LeaveHandler(c) \/ GameHandler(c) \/ QuietHandler(c)
       \/ TakePosted(c) \/ WriteDone(c) \/ WriteFails(c) \/ ReadFails(c)
  \/ TickHandler
  \/ \E t \in Senders : SenderStep(t)

DeliverySpec == DeliveryInit /\ [][DeliveryNext]_deliveryVars

(* A handler begun runs to its end, a strand takes what is posted to it,   *)
(* and a write succeeds or fails (the stream's timeouts see to that).      *)
DeliveryFairSpec ==
  /\ DeliverySpec
  /\ \A t \in Senders : WF_deliveryVars(SenderStep(t))
  /\ \A c \in Links : WF_deliveryVars(TakePosted(c))
                   /\ WF_deliveryVars(WriteDone(c) \/ WriteFails(c))

-----------------------------------------------------------------------------
(* Properties                                                              *)

(* The variables hold what the code's types allow; a task names a message  *)
(* its sender has formed.                                                  *)
DeliveryTypeOK ==
  /\ \A t \in Senders :
       /\ task[t].n \in 0..formed[t]
       /\ task[t].todo \subseteq Links
       /\ task[t].after \in Seq({"register", "unregister", "reply"})
  /\ posted \in [Links -> Seq(Message)]
  /\ write_queue \in [Links -> Seq(Message)]
  /\ received \in [Links -> Seq(Message)]
  /\ writing \in [Links -> BOOLEAN]
  /\ in_flight \in [Links -> Nat]
  /\ stream \in [Links -> {"open", "mute", "closed"}]
  /\ joined \in [Links -> BOOLEAN]
  /\ DOMAIN connections \subseteq {Session} \X Links
  /\ formed \in [Senders -> 0..MaxMessages]
  /\ room \in 0..MaxMessages

(* Only one async_write is under way on a stream, as beast demands, and as *)
(* long as the stream is open it is under way whenever something waits to  *)
(* be written: writing_ and the queue stay in step over every order of     *)
(* sends, completions and failures.                                        *)
OneWriteAtATime ==
  \A c \in Links :
    /\ in_flight[c] <= 1
    /\ in_flight[c] = 1 => writing[c] /\ write_queue[c] # <<>>
    /\ stream[c] = "open" => (in_flight[c] = 1 <=> write_queue[c] # <<>>)

(* An event is sent to exactly the connections that are registered when    *)
(* its broadcast copies the registry, a reply to its own connection alone, *)
(* each once, in the order of the thread it comes from, so that the reply  *)
(* to a command comes after the event the command caused; whatever is      *)
(* registered, lost or failing while the message is posted to one strand   *)
(* after the other: Delivery implements Multicast.                         *)
From(t, queue) ==
  LET kept[i \in 0..Len(queue)] ==
        IF i = 0 THEN <<>>
        ELSE IF queue[i].from = t THEN Append(kept[i - 1], queue[i]) ELSE kept[i - 1]
  IN  kept[Len(queue)]

Underway(t, c) ==
  From(t, write_queue[c] \o posted[c])
    \o IF c \in task[t].todo THEN <<Outgoing(t)>> ELSE <<>>

Registered == {c \in Links : <<Session, c>> \in DOMAIN connections}

Abstract == INSTANCE Multicast
              WITH Receivers <- Links, members <- Registered, sent <- formed,
                   channel <- [t \in Senders |-> [c \in Links |-> Underway(t, c)]],
                   delivered <- received

ImplementsMulticast == Abstract!MulticastSpec

(* What is sent to an open stream is all written, unless the stream fails: *)
(* no message waits for ever for another one to start its write.           *)
Waits(c) == \E t \in Senders : Underway(t, c) # <<>>

SentIsWritten == \A c \in Links : Waits(c) ~> ~Waits(c) \/ stream[c] # "open"
=============================================================================
