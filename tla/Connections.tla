----------------------------- MODULE Connections -----------------------------
(***************************************************************************)
(* server/network/ws_connection.cpp: the connections of the clients, the   *)
(* commands they dispatch, and what their end does to the session.         *)
(*                                                                         *)
(* Every connection has a strand: its handlers run one at a time, so here  *)
(* a thread of SessionManager is the strand of a connection.  A handler    *)
(* calls several services, each call a step of its own; "handler" holds    *)
(* the calls a strand has still to make.                                   *)
(*                                                                         *)
(* The timers of the controller are left to GameServer, what is written to *)
(* the sockets to Delivery.                                                *)
(***************************************************************************)
EXTENDS SessionManager

CONSTANTS
  HostIds,        \* the ids hosts choose for themselves
  GeneratedIds,   \* the ids GeneratePlayerId gives, in their order (bound: joins)
  Nameless        \* the empty id, which a host may choose and nobody is given

ASSUME ConnectionAssumption ==
  /\ HostIds \subseteq PlayerIds
  /\ GeneratedIds \in Seq(PlayerIds \ {Nameless})

VARIABLES
  accepting,       \* an async_accept is under way
  socket,          \* per connection: new, open, mute, closed
  identity,        \* per connection, session_id_ and player_id_
  handler,         \* per connection, the rest of the handler in progress
  connections,     \* the registry
  next_player_id,  \* next_player_id_ of the controller
  abandoned,       \* history: identities given up unreported, and not taken again
  contested        \* history: identities taken, or left as, that another had

Registry == INSTANCE ConnectionManager

linkVars == <<accepting, socket, identity, connections, next_player_id, abandoned, contested>>
connectionVars == <<managerVars, linkVars, handler>>

NoOne == <<>>
Identity == Sids \X PlayerIds

Idle == [stage |-> "idle", who |-> NoOne]

ConnectionInit ==
  /\ ManagerInit
  /\ accepting = TRUE
  /\ socket = [c \in Threads |-> "new"]
  /\ identity = [c \in Threads |-> NoOne]
  /\ handler = [c \in Threads |-> Idle]
  /\ connections = Registry!NoConnections
  /\ next_player_id = 0
  /\ abandoned = {}
  /\ contested = {}

Remains(c, stage, who) == handler' = [handler EXCEPT ![c] = [stage |-> stage, who |-> who]]

Done(c) == handler' = [handler EXCEPT ![c] = Idle]

(* Nothing runs on the strand.                                             *)
Resting(c) == handler[c] = Idle /\ Free(c)

(* The read loop is on.  A connection whose peer is gone is, until a write *)
(* or read fails, like any other; after a failed write it is "mute", and   *)
(* messages that had arrived before may still be read from it.             *)
Reading(c) == socket[c] \in {"open", "mute"}

Serves(c) == Reading(c) /\ Resting(c)

-----------------------------------------------------------------------------
(* WsServer::DoAccept, then the handshake, which may fail.                 *)
Accept(c) ==
  /\ accepting /\ socket[c] = "new"
  /\ \E outcome \in {"open", "closed"} : socket' = [socket EXCEPT ![c] = outcome]
  /\ UNCHANGED <<managerVars, accepting, identity, handler, connections,
                 next_player_id, abandoned, contested>>

(* An accept that fails is the last one: DoAccept is not called again.     *)
(* (Bound: it matters only while a client is still to come.)               *)
AcceptFails ==
  /\ \E c \in Threads : socket[c] = "new"
  /\ accepting /\ accepting' = FALSE
  /\ UNCHANGED <<managerVars, socket, identity, handler, connections,
                 next_player_id, abandoned, contested>>

(* HandleMessage, one action per kind of command.                          *)
CreateQuizCommand(c) ==
  /\ Serves(c)
  /\ \E quiz \in QuizDrafts : StoreQuiz(quiz)
  /\ UNCHANGED <<linkVars, handler>>

CreateSessionCommand(c) ==
  /\ Serves(c)
  /\ \E code \in DOMAIN quizzes, host \in HostIds, pin \in Pins, delay \in Delays :
       /\ CreateSession(c, code, host, pin, delay)
       /\ Remains(c, "register", <<Len(sessions) + 1, host>>)
  /\ UNCHANGED linkVars

(* Another connection speaks for the player, or its handler is at it.      *)
TakenElsewhere(c, who) == \E d \in Threads \ {c} : who \in {identity[d], handler[d].who}

(* An id is used up even if the manager refuses the player, as it may for  *)
(* the PIN alone.  Taking it from the counter, which is atomic, is one     *)
(* step with the join: were another to come in between, the two ids would  *)
(* only be exchanged.                                                      *)
JoinCommand(c, s) ==
  LET id == GeneratedIds[next_player_id + 1]
  IN  /\ Serves(c)
      /\ next_player_id < Len(GeneratedIds)
      /\ next_player_id' = next_player_id + 1
      /\ \/ /\ \E pin \in Pins : JoinAsPlayer(c, s, pin, id)
            /\ Remains(c, "register", <<s, id>>)
            /\ contested' = contested \cup {w \in {<<s, id>>} : TakenElsewhere(c, w)}
         \/ UNCHANGED <<managerVars, handler, contested>>
      /\ UNCHANGED <<accepting, socket, identity, connections, abandoned>>

ReconnectCommand(c) ==
  /\ Serves(c)
  /\ \E who \in Identity :
       /\ Reconnect(who[1], who[2])
       /\ Remains(c, "register", who)
       /\ contested' = contested \cup {w \in {who} : TakenElsewhere(c, w)}
  /\ UNCHANGED <<accepting, socket, identity, connections, next_player_id, abandoned>>

(* The message says who leaves, and nothing is checked: it may be another  *)
(* than the player the connection speaks for, or nobody of the session.    *)
LeaveCommand(c) ==
  /\ Serves(c)
  /\ \E who \in Identity :
       /\ Leave(c, who[1], who[2])
       /\ Remains(c, "forget", who)
       /\ contested' = contested \cup {w \in {who} : TakenElsewhere(c, w)}
  /\ UNCHANGED <<accepting, socket, identity, connections, next_player_id, abandoned>>

(* Any connection may start any game.  next_question and submit_answer     *)
(* change nothing that is read here: see GameServer.                       *)
StartGameCommand(c, s) ==
  /\ Serves(c)
  /\ StartGame(c, s)
  /\ UNCHANGED <<linkVars, handler>>

SendEvent(c) == Broadcast(c) /\ UNCHANGED <<linkVars, handler>>

(* The identity a connection at work on "who" loses without reporting it.   *)
GivenUp(c, who) == {identity[c]} \ {NoOne, who}

(* Mutant: the old identity is unregistered after the new is registered. *)
TakeIdentityAfresh(c) ==
  LET who == handler[c].who
  IN  /\ handler[c].stage = "register" /\ Free(c)
      /\ identity' = [identity EXCEPT ![c] = who]
      /\ connections' = [k \in (DOMAIN connections \cup {who}) \ {identity[c]} |->
                           IF k = who THEN c ELSE connections[k]]
      /\ Done(c)
      /\ abandoned' = (abandoned \cup GivenUp(c, who)) \ {who}
      /\ UNCHANGED <<managerVars, accepting, socket, next_player_id, contested>>

(* The end of create_session, join and reconnect: the connection speaks    *)
(* for the player now, whomever it spoke for before.                       *)
TakeIdentity(c) ==
  LET who == handler[c].who
  IN  /\ handler[c].stage = "register" /\ Free(c)
      /\ identity' = [identity EXCEPT ![c] = who]
      /\ Registry!Register(who[1], who[2], c)
      /\ Done(c)
      /\ abandoned' = (abandoned \cup GivenUp(c, who)) \ {who}
      /\ UNCHANGED <<managerVars, accepting, socket, next_player_id, contested>>

(* The end of leave: the connection speaks for nobody now, even if it was  *)
(* another who left.                                                       *)
DropIdentity(c) ==
  LET who == handler[c].who
  IN  /\ handler[c].stage = "forget" /\ Free(c)
      /\ Registry!Unregister(who[1], who[2])
      /\ identity' = [identity EXCEPT ![c] = NoOne]
      /\ Done(c)
      /\ abandoned' = abandoned \cup GivenUp(c, who)
      /\ UNCHANGED <<managerVars, accepting, socket, next_player_id, contested>>

-----------------------------------------------------------------------------
(* Mutant: the manager is not told.                                      *)
ForgetOnly(c) ==
  LET who == identity[c]
  IN  IF who = NoOne \/ who[2] = Nameless
      THEN UNCHANGED <<identity, connections, handler>>
      ELSE /\ identity' = [identity EXCEPT ![c] = NoOne]
           /\ Registry!Unregister(who[1], who[2])
           /\ Done(c)

(* Mutant: a connection without an identity reports its end as well.     *)
ReportNobody(c) ==
  LET who == identity[c]
  IN  /\ identity' = [identity EXCEPT ![c] = NoOne]
      /\ IF who = NoOne THEN UNCHANGED connections ELSE Registry!Unregister(who[1], who[2])
      /\ Remains(c, "disconnect", who)

(* OnDisconnect: the identity is dropped and unregistered, and then the    *)
(* manager is told, another step.  Without an identity, or with an empty   *)
(* player id, nothing is done; the destructor, which calls it again, finds *)
(* nothing else to do.                                                     *)
OnDisconnect(c) ==
  LET who == identity[c]
  IN  IF who = NoOne \/ who[2] = Nameless
      THEN UNCHANGED <<identity, connections, handler>>
      ELSE /\ identity' = [identity EXCEPT ![c] = NoOne]
           /\ Registry!Unregister(who[1], who[2])
           /\ Remains(c, "disconnect", who)

(* OnWrite with an error: nothing will be written any more, but the read   *)
(* loop runs on until it fails as well.                                    *)
WriteFails(c) ==
  /\ socket[c] = "open" /\ Resting(c)
  /\ OnDisconnect(c)
  /\ socket' = [socket EXCEPT ![c] = "mute"]
  /\ UNCHANGED <<managerVars, accepting, next_player_id, abandoned, contested>>

(* OnRead with an error, a timeout of the stream included.                 *)
ReadFails(c) ==
  /\ Reading(c) /\ Resting(c)
  /\ OnDisconnect(c)
  /\ socket' = [socket EXCEPT ![c] = "closed"]
  /\ UNCHANGED <<managerVars, accepting, next_player_id, abandoned, contested>>

(* controller_.Disconnect, which does nothing if the player is gone.       *)
TellManager(c) ==
  LET who == handler[c].who
  IN  /\ handler[c].stage = "disconnect"
      /\ \/ Disconnect(who[1], who[2])
         \/ ~HasPlayer(sessions[who[1]], who[2]) /\ UNCHANGED managerVars
      /\ Done(c)
      /\ UNCHANGED linkVars

HandlerStep(c) == SendEvent(c) \/ TakeIdentity(c) \/ DropIdentity(c) \/ TellManager(c)

(* A cleanup that begins while everybody is connected removes nobody whom  *)
(* one that begins later would spare: it is left out.                      *)
SomebodyAway ==
  \E s \in Sids : \E p \in DOMAIN sessions[s].players : ~sessions[s].players[p].connected

TickHandler ==
  /\ (SomebodyAway /\ CleanupBegin) \/ CleanupStep
  /\ UNCHANGED <<linkVars, handler>>

ClockRuns == TimePasses(SessionInstants) /\ UNCHANGED <<linkVars, handler>>

ConnectionNext ==
  \/ \E c \in Threads :
       \/ Accept(c)
       \/ CreateQuizCommand(c)
       \/ CreateSessionCommand(c)
       \/ \E s \in Sids : JoinCommand(c, s) \/ StartGameCommand(c, s)
       \/ ReconnectCommand(c)
       \/ LeaveCommand(c)
       \/ HandlerStep(c)
       \/ WriteFails(c)
       \/ ReadFails(c)
  \/ AcceptFails
  \/ TickHandler
  \/ ClockRuns

ConnectionSpec == ConnectionInit /\ [][ConnectionNext]_connectionVars

-----------------------------------------------------------------------------
(* Properties                                                              *)

(* The variables this module adds hold what the code's types allow.        *)
ConnectionTypeOK ==
  /\ accepting \in BOOLEAN
  /\ socket \in [Threads -> {"new", "open", "mute", "closed"}]
  /\ identity \in [Threads -> Identity \cup {NoOne}]
  /\ handler \in [Threads -> [stage : {"idle"}, who : {NoOne}]
                       \cup [stage : {"register", "forget", "disconnect"}, who : Identity]]
  /\ DOMAIN connections \subseteq Identity
  /\ \A k \in DOMAIN connections : connections[k] \in Threads
  /\ next_player_id \in 0..Len(GeneratedIds)
  /\ abandoned \subseteq Identity /\ contested \subseteq Identity

(* Some connection still read from speaks for the player, or a handler is  *)
(* about to make it speak or to report that it does no more.               *)
SpokenFor(who) ==
  \E c \in Threads :
    \/ identity[c] = who /\ Reading(c)
    \/ handler[c].stage \in {"register", "disconnect"} /\ handler[c].who = who

(* What the code does not follow to its end: a player whose connection     *)
(* took another identity, or left as somebody else, before anyone spoke    *)
(* for it again; and a host without a name.                                *)
Untracked(who) == who \in abandoned \/ who[2] = Nameless

(* No ghosts: a player counts as connected only while some connection      *)
(* speaks for it, whatever order the ends and returns of several           *)
(* connections come in; the untracked excepted, whom nobody disconnects.   *)
NoGhosts ==
  \A s \in Sids : \A p \in DOMAIN sessions[s].players :
    sessions[s].players[p].connected => SpokenFor(<<s, p>>) \/ Untracked(<<s, p>>)

(* The registry never sends a player's events to a connection that has     *)
(* ended or speaks for somebody else, again but for the untracked.         *)
RegistryIsCurrent ==
  \A who \in DOMAIN connections :
    \/ Untracked(who)
    \/ Reading(connections[who]) /\ identity[connections[who]] = who

(* A player whose connections never overlapped is reachable: between the   *)
(* handlers of the connection that speaks for it, it is registered with    *)
(* it and counts as connected.                                             *)
SoleConnectionReachable ==
  \A c \in Threads :
    identity[c] \notin {NoOne} \cup contested /\ Serves(c) =>
      LET who == identity[c]
      IN  HasPlayer(sessions[who[1]], who[2]) =>
            /\ who \in DOMAIN connections /\ connections[who] = c
            /\ sessions[who[1]].players[who[2]].connected

-----------------------------------------------------------------------------
(* What a test says and the code does not do (see the findings).           *)

(* tests/network_integration_test.cpp:378: a player that has reconnected   *)
(* is connected.  With no handler under way, an open connection's player   *)
(* counts as connected.                                                    *)
BackMeansConnected ==
  \A c \in Threads :
    /\ socket[c] = "open" /\ identity[c] # NoOne
    /\ \A d \in Threads : Resting(d)
    => LET who == identity[c]
       IN  HasPlayer(sessions[who[1]], who[2]) => sessions[who[1]].players[who[2]].connected
=============================================================================
