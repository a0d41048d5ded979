-------------------------- MODULE ConnectionsProofs --------------------------
(***************************************************************************)
(* What Connections promises for any number of connections, sessions and   *)
(* players, whatever ids hosts choose and however often a player comes     *)
(* back.                                                                   *)
(*                                                                         *)
(* The connections read of the sessions only who counts as connected: the  *)
(* proofs follow that set, "Online", and the identities, handlers and      *)
(* entries of the registry that speak of it.                               *)
(***************************************************************************)
EXTENDS Connections, SessionManagerProofs

-----------------------------------------------------------------------------
(* Who counts as connected.                                                *)

IsOnline(session, p) == HasPlayer(session, p) /\ session.players[p].connected

Online == {who \in Identity : IsOnline(sessions[who[1]], who[2])}

(* A new session: its host is online.                                      *)
LEMMA NewOnline ==
  ASSUME NEW code, NEW pin, NEW host, NEW delay
  PROVE  \A p : IsOnline(NewSession(code, pin, host, delay), p) <=> p = host
BY DEF IsOnline, HasPlayer, NewSession, NewPlayer

(* Whoever joins is online, next to those who were.                        *)
LEMMA AddOnline ==
  ASSUME NEW s, IsSession(s), NEW id
  PROVE  \A p : IsOnline(AddPlayer(s, id), p) <=> p = id \/ IsOnline(s, p)
<1> DEFINE f == [p \in DOMAIN s.players \cup {id} |-> IF p = id THEN NewPlayer ELSE s.players[p]]
           x == [s EXCEPT !.players = f]
<1>1. x.players = f
  <2> HIDE DEF f
  <2> QED BY DEF IsSession
<1>2. /\ DOMAIN f = DOMAIN s.players \cup {id} /\ f[id].connected
      /\ \A p \in DOMAIN s.players : p # id => f[p] = s.players[p]
  BY DEF NewPlayer
<1> HIDE DEF x, f
<1>3. \A p : IsOnline(x, p) <=> p = id \/ IsOnline(s, p)
  BY <1>1, <1>2 DEF IsOnline, HasPlayer
<1> QED
  BY <1>3 DEF AddPlayer, x, f

(* Whoever is removed is not online.                                       *)
LEMMA RemoveOnline ==
  ASSUME NEW s, IsSession(s), NEW ids
  PROVE  \A p : IsOnline(RemovePlayers(s, ids), p) <=> IsOnline(s, p) /\ p \notin ids
<1> DEFINE f == [p \in DOMAIN s.players \ ids |-> s.players[p]]
           x == [s EXCEPT !.players = f]
<1>1. x.players = f
  <2> HIDE DEF f
  <2> QED BY DEF IsSession
<1>2. DOMAIN f = DOMAIN s.players \ ids /\ \A p \in DOMAIN f : f[p] = s.players[p]
  OBVIOUS
<1> HIDE DEF x, f
<1>3. \A p : IsOnline(x, p) <=> IsOnline(s, p) /\ p \notin ids
  BY <1>1, <1>2 DEF IsOnline, HasPlayer
<1> QED
  BY <1>3 DEF RemovePlayers, x, f

(* The start of the game disconnects nobody.                               *)
LEMMA StartOnline ==
  ASSUME NEW s, IsSession(s), NEW deadline
  PROVE  \A p : IsOnline(WithDeadline(StartedGame(s), deadline), p) <=> IsOnline(s, p)
<1> DEFINE f == FlagsCleared(s.players)
           y == StartedGame(s)
           x == WithDeadline(y, deadline)
<1>1. y.players = f /\ DOMAIN y = DOMAIN s
  <2> HIDE DEF f
  <2> QED BY DEF StartedGame, IsSession, f
<1>2. DOMAIN s = {"pin", "quiz_code", "state", "players", "current_question_index",
                  "question_deadline", "has_question_deadline", "auto_advance_delay_ms"}
  BY DEF IsSession
<1>3. x.players = f
  <2> HIDE DEF y, f
  <2> QED BY <1>1, <1>2 DEF WithDeadline
<1>4. DOMAIN f = DOMAIN s.players
      /\ \A p \in DOMAIN f : f[p].connected = s.players[p].connected
  BY DEF FlagsCleared, IsSession, IsMap, Player
<1> HIDE DEF x, y, f
<1>5. \A p : IsOnline(x, p) <=> IsOnline(s, p)
  BY <1>3, <1>4 DEF IsOnline, HasPlayer
<1> QED
  BY <1>5 DEF x, y

(* Disconnect and Reconnect.                                               *)
LEMMA PresenceOnline ==
  ASSUME NEW s, IsSession(s), NEW id \in DOMAIN s.players, NEW at
  PROVE  /\ \A p : IsOnline(DisconnectPlayer(s, id, at), p) <=> IsOnline(s, p) /\ p # id
         /\ \A p : IsOnline(ReconnectPlayer(s, id), p) <=> IsOnline(s, p) \/ p = id
<1>1. s.players[id] \in Player
  BY DEF IsSession, IsMap
<1>2. ASSUME NEW player, NEW on \in BOOLEAN, player.connected = on
      PROVE  \A p : IsOnline(WithPlayer(s, id, player), p) <=>
                      \/ p = id /\ on
                      \/ p # id /\ IsOnline(s, p)
  <2> DEFINE f == [s.players EXCEPT ![id] = player]
             x == [s EXCEPT !.players = f]
  <2>1. x.players = f
    <3> HIDE DEF f
    <3> QED BY DEF IsSession
  <2>2. DOMAIN f = DOMAIN s.players /\ f[id] = player
        /\ \A p \in DOMAIN f : p # id => f[p] = s.players[p]
    BY DEF IsSession, IsMap
  <2> HIDE DEF x, f
  <2>3. ASSUME NEW p
        PROVE  IsOnline(x, p) <=> (p = id /\ on) \/ (p # id /\ IsOnline(s, p))
    <3>1. CASE p = id
      <4>1. id \in DOMAIN x.players /\ x.players[id].connected = on
        BY <1>2, <2>1, <2>2
      <4> QED BY <3>1, <4>1 DEF IsOnline, HasPlayer
    <3>2. CASE p # id
      BY <2>1, <2>2, <3>2 DEF IsOnline, HasPlayer
    <3> QED BY <3>1, <3>2
  <2>4. x = WithPlayer(s, id, player)
    BY DEF WithPlayer, x, f
  <2> QED
    BY <2>3, <2>4
<1>3. \A p : IsOnline(DisconnectPlayer(s, id, at), p) <=> IsOnline(s, p) /\ p # id
  <2>1. PICK entry : entry = [s.players[id] EXCEPT !.connected = FALSE, !.disconnected_at = at]
    OBVIOUS
  <2>2. entry.connected = FALSE
    BY <1>1, <2>1 DEF Player
  <2>3. DisconnectPlayer(s, id, at) = WithPlayer(s, id, entry)
    BY <2>1 DEF DisconnectPlayer
  <2>4. \A p : IsOnline(WithPlayer(s, id, entry), p) <=>
                 \/ p = id /\ FALSE
                 \/ p # id /\ IsOnline(s, p)
    BY <1>2, <2>2
  <2> QED BY <2>3, <2>4
<1>4. \A p : IsOnline(ReconnectPlayer(s, id), p) <=> IsOnline(s, p) \/ p = id
  <2>1. PICK entry : entry = [s.players[id] EXCEPT !.connected = TRUE, !.disconnected_at = Never]
    OBVIOUS
  <2>2. entry.connected = TRUE
    BY <1>1, <2>1 DEF Player
  <2>3. ReconnectPlayer(s, id) = WithPlayer(s, id, entry)
    BY <2>1 DEF ReconnectPlayer
  <2>4. \A p : IsOnline(WithPlayer(s, id, entry), p) <=>
                 \/ p = id /\ TRUE
                 \/ p # id /\ IsOnline(s, p)
    BY <1>2, <2>2
  <2> QED BY <2>3, <2>4
<1> QED
  BY <1>3, <1>4

(* What an update of one session means for the players of all.             *)
LEMMA UpdateOnline ==
  ASSUME IInv, NEW s \in Sids, NEW x, Update(s, x)
  PROVE  /\ Sids' = Sids /\ Identity' = Identity
         /\ \A who \in Identity :
              who \in Online' <=> IF who[1] = s THEN IsOnline(x, who[2]) ELSE who \in Online
<1>1. /\ Sids' = Sids /\ sessions'[s] = x
      /\ \A r \in Sids : r # s => sessions'[r] = sessions[r]
  BY SeqExcept DEF IInv, TypeOK, SessionsTyped, Update, Sids
<1>2. Identity' = Identity
  BY <1>1 DEF Identity
<1>3. \A who \in Identity : who[1] \in Sids
  BY DEF Identity
<1>4. ASSUME NEW who \in Identity
      PROVE  who \in Online' <=> IF who[1] = s THEN IsOnline(x, who[2]) ELSE who \in Online
  BY <1>1, <1>2, <1>3 DEF Online, IsOnline, HasPlayer
<1> QED
  BY <1>1, <1>2, <1>4

-----------------------------------------------------------------------------
(* What the calls to the manager do to who is online.                      *)

(* Updated so that nothing changes for anybody.                            *)
LEMMA SameOnline ==
  ASSUME IInv, NEW s \in Sids, NEW x, Update(s, x),
         \A p : IsOnline(x, p) <=> IsOnline(sessions[s], p)
  PROVE  Online' = Online /\ Identity' = Identity
<1>1. /\ Identity' = Identity
      /\ \A who \in Identity :
           who \in Online' <=> IF who[1] = s THEN IsOnline(x, who[2]) ELSE who \in Online
  BY UpdateOnline
<1>2. \A who \in Identity : who \in Online <=> IsOnline(sessions[who[1]], who[2])
  BY DEF Online
<1>3. Online \subseteq Identity /\ Online' \subseteq Identity'
  BY DEF Online
<1>4. ASSUME NEW who \in Identity
      PROVE  who \in Online' <=> who \in Online
  BY <1>1, <1>2
<1> QED
  BY <1>1, <1>3, <1>4

(* Updated so that one player comes online.                                *)
LEMMA OneMoreOnline ==
  ASSUME IInv, NEW s \in Sids, NEW x, Update(s, x), NEW id \in PlayerIds,
         \A p : IsOnline(x, p) <=> p = id \/ IsOnline(sessions[s], p)
  PROVE  Online' = Online \cup {<<s, id>>} /\ Identity' = Identity
<1>1. /\ Identity' = Identity
      /\ \A who \in Identity :
           who \in Online' <=> IF who[1] = s THEN IsOnline(x, who[2]) ELSE who \in Online
  BY UpdateOnline
<1>2. \A who \in Identity : who \in Online <=> IsOnline(sessions[who[1]], who[2])
  BY DEF Online
<1>3. Online \subseteq Identity /\ Online' \subseteq Identity' /\ <<s, id>> \in Identity
  BY DEF Online, Identity
<1>4. ASSUME NEW who \in Identity
      PROVE  who \in Online' <=> who \in Online \/ who = <<s, id>>
  <2>1. who = <<s, id>> <=> who[1] = s /\ who[2] = id
    BY DEF Identity
  <2> QED BY <1>1, <1>2, <2>1
<1> QED
  BY <1>1, <1>3, <1>4

(* Updated so that one player goes offline.                                *)
LEMMA OneLessOnline ==
  ASSUME IInv, NEW s \in Sids, NEW x, Update(s, x), NEW id,
         \A p : IsOnline(x, p) <=> IsOnline(sessions[s], p) /\ p # id
  PROVE  Online' = Online \ {<<s, id>>} /\ Identity' = Identity
<1>1. /\ Identity' = Identity
      /\ \A who \in Identity :
           who \in Online' <=> IF who[1] = s THEN IsOnline(x, who[2]) ELSE who \in Online
  BY UpdateOnline
<1>2. \A who \in Identity : who \in Online <=> IsOnline(sessions[who[1]], who[2])
  BY DEF Online
<1>3. Online \subseteq Identity /\ Online' \subseteq Identity'
  BY DEF Online
<1>4. ASSUME NEW who \in Identity
      PROVE  who \in Online' <=> who \in Online /\ who # <<s, id>>
  <2>1. who = <<s, id>> <=> who[1] = s /\ who[2] = id
    BY DEF Identity
  <2> QED BY <1>1, <1>2, <2>1
<1> QED
  BY <1>1, <1>3, <1>4

(* The host of a new session is online, and the first to go by that        *)
(* identity.                                                               *)
LEMMA CreateOnline ==
  ASSUME IInv, NEW t, NEW code, NEW host \in PlayerIds, NEW pin, NEW delay,
         CreateSession(t, code, host, pin, delay)
  PROVE  /\ Online' = Online \cup {<<Len(sessions) + 1, host>>}
         /\ Identity \subseteq Identity'
         /\ <<Len(sessions) + 1, host>> \in Identity' \ Identity
<1> DEFINE n == Len(sessions) + 1
           x == NewSession(code, pin, host, delay)
<1>1. sessions' = Append(sessions, x) /\ IsSeq(sessions) /\ DOMAIN sessions = Sids
  BY DEF CreateSession, IInv, TypeOK, SessionsTyped, Sids
<1>2. \A p : IsOnline(x, p) <=> p = host
  BY NewOnline
<1>3. n \notin Sids
  BY <1>1, SeqDomain
<1> HIDE DEF x
<1>4. /\ Sids' = Sids \cup {n} /\ sessions'[n] = x
      /\ \A s \in Sids : sessions'[s] = sessions[s]
  BY <1>1, SeqAppend DEF Sids
<1> HIDE DEF n
<1>5. Identity' = Identity \cup ({n} \X PlayerIds)
  BY <1>4 DEF Identity
<1>6. \A who \in Identity : who \in Online' <=> who \in Online
  BY <1>4, <1>5 DEF Online, Identity
<1>7. \A p \in PlayerIds : <<n, p>> \in Online' <=> p = host
  <2>1. \A p \in PlayerIds : <<n, p>> \in Identity'
    BY <1>5
  <2> QED BY <1>2, <1>4, <2>1 DEF Online
<1>8. Online' = Online \cup {<<n, host>>}
  <2>1. Online \subseteq Identity /\ Online' \subseteq Identity'
    BY DEF Online
  <2>2. \A who \in {n} \X PlayerIds : \E p \in PlayerIds : who = <<n, p>>
    OBVIOUS
  <2>3. <<n, host>> \in Online'
    BY <1>7
  <2> QED BY <1>5, <1>6, <1>7, <2>1, <2>2, <2>3
<1>9. <<n, host>> \in Identity' \ Identity
  BY <1>3, <1>5 DEF Identity
<1> QED
  BY <1>5, <1>8, <1>9 DEF n

(* Join, leave, reconnect, disconnect.                                     *)
LEMMA CallsOnline ==
  ASSUME IInv, NEW t, NEW s \in Sids, NEW pin, NEW id \in PlayerIds
  PROVE  /\ JoinAsPlayer(t, s, pin, id) \/ Reconnect(s, id) =>
              Online' = Online \cup {<<s, id>>} /\ Identity' = Identity
         /\ Leave(t, s, id) \/ Disconnect(s, id) =>
              Online' = Online \ {<<s, id>>} /\ Identity' = Identity
<1>1. IsSession(sessions[s])
  BY DEF IInv, TypeOK, SessionsTyped
<1>2. ASSUME JoinAsPlayer(t, s, pin, id)
      PROVE  Online' = Online \cup {<<s, id>>} /\ Identity' = Identity
  BY <1>1, <1>2, AddOnline, OneMoreOnline DEF JoinAsPlayer
<1>3. ASSUME Reconnect(s, id)
      PROVE  Online' = Online \cup {<<s, id>>} /\ Identity' = Identity
  <2>1. id \in DOMAIN sessions[s].players /\ Update(s, ReconnectPlayer(sessions[s], id))
    BY <1>3 DEF Reconnect, HasPlayer
  <2> QED
    BY <1>1, <2>1, PresenceOnline, OneMoreOnline
<1>4. ASSUME Leave(t, s, id)
      PROVE  Online' = Online \ {<<s, id>>} /\ Identity' = Identity
  <2>1. Update(s, RemovePlayers(sessions[s], {id}))
    BY <1>4 DEF Leave
  <2>2. \A p : IsOnline(RemovePlayers(sessions[s], {id}), p) <=> IsOnline(sessions[s], p) /\ p # id
    BY <1>1, RemoveOnline
  <2> QED
    BY <2>1, <2>2, OneLessOnline
<1>5. ASSUME Disconnect(s, id)
      PROVE  Online' = Online \ {<<s, id>>} /\ Identity' = Identity
  <2>1. id \in DOMAIN sessions[s].players /\ Update(s, DisconnectPlayer(sessions[s], id, now))
    BY <1>5 DEF Disconnect, HasPlayer
  <2> QED
    BY <1>1, <2>1, PresenceOnline, OneLessOnline
<1> QED
  BY <1>2, <1>3, <1>4, <1>5

(* Nobody comes online or goes offline by any other step, not by the       *)
(* cleanup either: it removes only those who were not online.              *)
LEMMA OthersOnline ==
  ASSUME IInv,
         \/ UNCHANGED sessions
         \/ \E t \in Threads, s \in Sids : StartGame(t, s)
         \/ CleanupBegin \/ CleanupStep
  PROVE  Online' = Online /\ Identity' = Identity
<1>1. CASE UNCHANGED sessions
  BY <1>1 DEF Online, Identity, Sids, IsOnline, HasPlayer
<1>2. ASSUME NEW t \in Threads, NEW s \in Sids, StartGame(t, s)
      PROVE  Online' = Online /\ Identity' = Identity
  <2>1. IsSession(sessions[s])
    BY DEF IInv, TypeOK, SessionsTyped
  <2>2. PICK deadline : Update(s, WithDeadline(StartedGame(sessions[s]), deadline))
    BY <1>2 DEF StartGame
  <2> QED
    BY <2>1, <2>2, StartOnline, SameOnline
<1>3. ASSUME NEW s \in Sids, CleanupSession(s)
      PROVE  Online' = Online /\ Identity' = Identity
  <2> DEFINE gone == LongGone(sessions[s], cleanup.now, ReconnectTimeout)
  <2>1. IsSession(sessions[s])
    BY DEF IInv, TypeOK, SessionsTyped
  <2>2. Update(s, RemovePlayers(sessions[s], gone))
    BY <1>3 DEF CleanupSession
  <2>3. \A p \in gone : ~IsOnline(sessions[s], p)
    BY DEF LongGone, IsOnline
  <2> HIDE DEF gone
  <2>4. \A p : IsOnline(RemovePlayers(sessions[s], gone), p) <=> IsOnline(sessions[s], p)
    BY <2>1, <2>3, RemoveOnline
  <2> QED
    BY <2>2, <2>4, SameOnline
<1>4. CASE \/ CleanupBegin \/ CleanupList \/ CleanupEnd
           \/ \E s \in Sids, id \in PlayerIds : CleanupAnnounce(s, id)
  BY <1>1, <1>4 DEF CleanupBegin, CleanupList, CleanupEnd, CleanupAnnounce
<1> QED
  BY <1>1, <1>2, <1>3, <1>4 DEF CleanupStep

-----------------------------------------------------------------------------
(* The sessions under the connections: whoever calls, and whatever breaks, *)
(* the invariant of the manager is kept.                                   *)
LEMMA ManagerKept ==
  ASSUME IInv, ConnectionTypeOK, [ConnectionNext]_connectionVars
  PROVE  IInv'
<1>1. CASE UNCHANGED managerVars
  BY <1>1, NextIInv
<1>2. ASSUME NEW quiz \in QuizDrafts, StoreQuiz(quiz) PROVE IInv'
  BY <1>2, StoreQuizStep
<1>3. ASSUME NEW c \in Threads, CreateSessionCommand(c) PROVE IInv'
  BY <1>3, CreateSessionStep, ConnectionAssumption DEF CreateSessionCommand
<1>4. ASSUME NEW c \in Threads, NEW s \in Sids, JoinCommand(c, s) PROVE IInv'
  <2>1. GeneratedIds[next_player_id + 1] \in PlayerIds
    <3>1. Len(GeneratedIds) \in Nat /\ next_player_id + 1 \in 1..Len(GeneratedIds)
      BY <1>4, ConnectionAssumption, LenProperties DEF JoinCommand, ConnectionTypeOK
    <3> QED BY <3>1, ConnectionAssumption, ElementOfSeq
  <2> DEFINE id == GeneratedIds[next_player_id + 1]
  <2>2. CASE \E pin \in Pins : JoinAsPlayer(c, s, pin, id)
    <3> HIDE DEF id
    <3> QED BY <2>1, <2>2, JoinStep DEF id
  <2> QED
    BY <1>1, <1>4, <2>2 DEF JoinCommand
<1>5. ASSUME NEW c \in Threads, ReconnectCommand(c) PROVE IInv'
  BY <1>5, PresenceStep DEF ReconnectCommand, Identity
<1>6. ASSUME NEW c \in Threads, LeaveCommand(c) PROVE IInv'
  BY <1>6, LeaveStep DEF LeaveCommand, Identity
<1>7. ASSUME NEW c \in Threads, NEW s \in Sids, StartGameCommand(c, s) PROVE IInv'
  BY <1>7, StartGameStep DEF StartGameCommand
<1>8. ASSUME NEW c \in Threads, SendEvent(c) PROVE IInv'
  BY <1>8, BroadcastStep DEF SendEvent
<1>9. ASSUME NEW c \in Threads, TellManager(c) PROVE IInv'
  <2>1. handler[c].who \in Identity
    BY <1>9 DEF TellManager, ConnectionTypeOK
  <2>2. CASE Disconnect(handler[c].who[1], handler[c].who[2])
    BY <2>1, <2>2, PresenceStep DEF Identity
  <2> QED
    BY <1>1, <1>9, <2>2 DEF TellManager
<1>10. CASE TickHandler
  BY <1>10, CleanupKeeps DEF TickHandler
<1>11. CASE ClockRuns
  BY <1>11, TimeStep DEF ClockRuns
<1>12. ASSUME NEW c \in Threads,
              \/ Accept(c) \/ TakeIdentity(c) \/ DropIdentity(c) \/ WriteFails(c) \/ ReadFails(c)
              \/ AcceptFails
       PROVE  IInv'
  BY <1>1, <1>12 DEF Accept, TakeIdentity, DropIdentity, WriteFails, ReadFails, AcceptFails
<1>13. CASE AcceptFails
  BY <1>1, <1>13 DEF AcceptFails
<1>14. ASSUME NEW c \in Threads, CreateQuizCommand(c) PROVE IInv'
  BY <1>2, <1>14 DEF CreateQuizCommand
<1>15. CASE UNCHANGED connectionVars
  BY <1>1, <1>15 DEF connectionVars
<1> QED
  BY <1>3, <1>4, <1>5, <1>6, <1>7, <1>8, <1>9, <1>10, <1>11, <1>12, <1>13, <1>14, <1>15
  DEF ConnectionNext, HandlerStep

(* No session is lost: what a connection or handler speaks for stays one.  *)
LEMMA SidsGrow ==
  ASSUME IInv, ConnectionTypeOK, [ConnectionNext]_connectionVars
  PROVE  Identity \subseteq Identity'
<1>1. ASSUME NEW s, NEW x, Update(s, x) PROVE Identity \subseteq Identity'
  BY <1>1 DEF Identity, Update, Sids, IInv, TypeOK, SessionsTyped
<1>2. CASE UNCHANGED sessions
  BY <1>2 DEF Identity, Sids
<1>3. ASSUME NEW quiz \in QuizDrafts, StoreQuiz(quiz) PROVE UNCHANGED sessions
  BY <1>3 DEF StoreQuiz
<1>4. ASSUME NEW c \in Threads, CreateSessionCommand(c) PROVE Identity \subseteq Identity'
  BY <1>4, CreateOnline, ConnectionAssumption DEF CreateSessionCommand
<1>5. ASSUME NEW c \in Threads,
             \/ \E s \in Sids : JoinCommand(c, s) \/ StartGameCommand(c, s)
             \/ ReconnectCommand(c) \/ LeaveCommand(c) \/ TellManager(c)
      PROVE  Identity \subseteq Identity'
  BY <1>1, <1>2, <1>5
  DEF JoinCommand, JoinAsPlayer, ReconnectCommand, Reconnect, LeaveCommand, Leave,
      StartGameCommand, StartGame, TellManager, Disconnect, managerVars
<1>6. CASE TickHandler
  BY <1>1, <1>2, <1>6 DEF TickHandler, CleanupBegin, CleanupStep, CleanupList, CleanupSession,
                          CleanupAnnounce, CleanupEnd
<1>7. ASSUME NEW c \in Threads,
             \/ Accept(c) \/ TakeIdentity(c) \/ DropIdentity(c) \/ WriteFails(c) \/ ReadFails(c)
             \/ AcceptFails \/ SendEvent(c) \/ CreateQuizCommand(c)
      PROVE  UNCHANGED sessions
  BY <1>3, <1>7 DEF Accept, TakeIdentity, DropIdentity, WriteFails, ReadFails, AcceptFails,
                    SendEvent, Broadcast, CreateQuizCommand, managerVars
<1>8. CASE ClockRuns \/ AcceptFails \/ UNCHANGED connectionVars
  BY <1>2, <1>8 DEF ClockRuns, TimePasses, AcceptFails, connectionVars, managerVars
<1> QED
  BY <1>2, <1>4, <1>5, <1>6, <1>7, <1>8 DEF ConnectionNext, HandlerStep

-----------------------------------------------------------------------------
(* What a step may do to the connections, whoever takes it.                *)

(* No two connections have gone by the player at once, and none has sent   *)
(* it away from another: what SoleConnectionReachable excepts.             *)
Undisputed(who) == who # NoOne /\ who \notin contested

(* A connection whose end is reported to nobody.                           *)
Unreported(c) == handler[c] = Idle /\ (identity[c] = NoOne \/ identity[c][2] = Nameless)

(* All connections read before still are, but perhaps those in "cut".      *)
StillRead(cut) == \A d \in Threads \ cut : Reading(d) => Reading(d)'

LinksAlone ==
  /\ Online' = Online /\ UNCHANGED <<identity, handler, connections, abandoned, contested>>
  /\ StillRead({d \in Threads : Unreported(d)})

(* create_session, join or reconnect: the player is online, and the        *)
(* connection about to speak for it.                                       *)
Begins(c, who) ==
  /\ handler[c] = Idle /\ Reading(c)
  /\ Online' = Online \cup {who}
  /\ Remains(c, "register", who)
  /\ contested' = contested \cup {w \in {who} : TakenElsewhere(c, w)}
  /\ UNCHANGED <<socket, identity, connections, abandoned>>

(* leave, as anybody.                                                      *)
Leaves(c, who) ==
  /\ handler[c] = Idle /\ Reading(c)
  /\ Online' = Online \ {who}
  /\ Remains(c, "forget", who)
  /\ contested' = contested \cup {w \in {who} : TakenElsewhere(c, w)}
  /\ UNCHANGED <<socket, identity, connections, abandoned>>

Takes(c) ==
  /\ handler[c].stage = "register" /\ Done(c)
  /\ identity' = [identity EXCEPT ![c] = handler[c].who]
  /\ Registry!Register(handler[c].who[1], handler[c].who[2], c)
  /\ abandoned' = (abandoned \cup GivenUp(c, handler[c].who)) \ {handler[c].who}
  /\ Online' = Online /\ UNCHANGED <<socket, contested>>

Drops(c) ==
  /\ handler[c].stage = "forget" /\ Done(c)
  /\ identity' = [identity EXCEPT ![c] = NoOne]
  /\ Registry!Unregister(handler[c].who[1], handler[c].who[2])
  /\ abandoned' = abandoned \cup GivenUp(c, handler[c].who)
  /\ Online' = Online /\ UNCHANGED <<socket, contested>>

Breaks(c) ==
  /\ handler[c] = Idle /\ identity[c] # NoOne
  /\ identity' = [identity EXCEPT ![c] = NoOne]
  /\ Registry!Unregister(identity[c][1], identity[c][2])
  /\ Remains(c, "disconnect", identity[c])
  /\ Online' = Online /\ UNCHANGED <<abandoned, contested>>
  /\ StillRead({c})

Tells(c) ==
  /\ handler[c].stage = "disconnect" /\ Done(c)
  /\ Online' = Online \ {handler[c].who}
  /\ UNCHANGED <<socket, identity, connections, abandoned, contested>>

(* Every step is of one of these kinds.                                    *)
LEMMA LinkKinds ==
  ASSUME IInv, ConnectionTypeOK, [ConnectionNext]_connectionVars
  PROVE  \/ LinksAlone
         \/ \E c \in Threads : \/ \E who \in Identity' : Begins(c, who) \/ Leaves(c, who)
                               \/ Takes(c) \/ Drops(c) \/ Breaks(c) \/ Tells(c)
<1>1. UNCHANGED sessions => Online' = Online
  BY OthersOnline
<1>2. \A who \in Identity : who = <<who[1], who[2]>> /\ who[1] \in Sids /\ who[2] \in PlayerIds
  BY DEF Identity
<1>3. ASSUME NEW c \in Threads, CreateSessionCommand(c)
      PROVE  \E who \in Identity' : Begins(c, who)
  <2>1. PICK code \in DOMAIN quizzes, host \in HostIds, pin \in Pins, delay \in Delays :
          /\ CreateSession(c, code, host, pin, delay)
          /\ Remains(c, "register", <<Len(sessions) + 1, host>>)
    BY <1>3 DEF CreateSessionCommand
  <2> DEFINE who == <<Len(sessions) + 1, host>>
  <2>2. Online' = Online \cup {who} /\ who \in Identity' \ Identity
    BY <2>1, CreateOnline, ConnectionAssumption
  <2>3. Remains(c, "register", who)
    BY <2>1
  <2> HIDE DEF who
  <2>4. ~TakenElsewhere(c, who)
    <3>1. \A d \in Threads : identity[d] \in Identity \cup {NoOne} /\ handler[d].who \in Identity \cup {NoOne}
      BY DEF ConnectionTypeOK
    <3>2. who # NoOne
      BY DEF who, NoOne
    <3> QED BY <2>2, <3>1, <3>2 DEF TakenElsewhere
  <2>5. handler[c] = Idle /\ Reading(c)
        /\ UNCHANGED <<socket, identity, connections, abandoned, contested>>
    BY <1>3 DEF CreateSessionCommand, linkVars, Serves, Resting
  <2>6. contested' = contested \cup {w \in {who} : TakenElsewhere(c, w)}
    BY <2>4, <2>5
  <2>7. Begins(c, who)
    BY <2>2, <2>3, <2>5, <2>6 DEF Begins
  <2> QED BY <2>2, <2>7
<1>4. ASSUME NEW c \in Threads, NEW s \in Sids, JoinCommand(c, s)
      PROVE  LinksAlone \/ \E who \in Identity' : Begins(c, who)
  <2>1. GeneratedIds[next_player_id + 1] \in PlayerIds
    <3>1. Len(GeneratedIds) \in Nat /\ next_player_id + 1 \in 1..Len(GeneratedIds)
      BY <1>4, ConnectionAssumption, LenProperties DEF JoinCommand, ConnectionTypeOK
    <3> QED BY <3>1, ConnectionAssumption, ElementOfSeq
  <2>2. PICK id \in PlayerIds : id = GeneratedIds[next_player_id + 1]
    BY <2>1
  <2>3. CASE /\ \E pin \in Pins : JoinAsPlayer(c, s, pin, id)
             /\ Remains(c, "register", <<s, id>>)
             /\ contested' = contested \cup {w \in {<<s, id>>} : TakenElsewhere(c, w)}
    <3>1. Online' = Online \cup {<<s, id>>} /\ Identity' = Identity
      BY <2>3, CallsOnline
    <3>2. handler[c] = Idle /\ Reading(c) /\ UNCHANGED <<socket, identity, connections, abandoned>>
      BY <1>4 DEF JoinCommand, Serves, Resting
    <3>3. Begins(c, <<s, id>>)
      BY <2>3, <3>1, <3>2 DEF Begins
    <3>4. <<s, id>> \in Identity'
      BY <3>1 DEF Identity
    <3> QED BY <3>3, <3>4
  <2>4. CASE UNCHANGED <<managerVars, handler, contested>>
    BY <1>1, <1>4, <2>4 DEF JoinCommand, LinksAlone, StillRead, Reading, managerVars
  <2> QED
    BY <1>4, <2>2, <2>3, <2>4 DEF JoinCommand
<1>5. ASSUME NEW c \in Threads, ReconnectCommand(c)
      PROVE  \E who \in Identity' : Begins(c, who)
  <2>1. PICK who \in Identity :
          /\ Reconnect(who[1], who[2]) /\ Remains(c, "register", who)
          /\ contested' = contested \cup {w \in {who} : TakenElsewhere(c, w)}
    BY <1>5 DEF ReconnectCommand
  <2>2. Online' = Online \cup {who} /\ Identity' = Identity
    BY <1>2, <2>1, CallsOnline
  <2>3. handler[c] = Idle /\ Reading(c) /\ UNCHANGED <<socket, identity, connections, abandoned>>
    BY <1>5 DEF ReconnectCommand, Serves, Resting
  <2> QED BY <2>1, <2>2, <2>3 DEF Begins
<1>6. ASSUME NEW c \in Threads, LeaveCommand(c)
      PROVE  \E who \in Identity' : Leaves(c, who)
  <2>1. PICK who \in Identity :
          /\ Leave(c, who[1], who[2]) /\ Remains(c, "forget", who)
          /\ contested' = contested \cup {w \in {who} : TakenElsewhere(c, w)}
    BY <1>6 DEF LeaveCommand
  <2>2. Online' = Online \ {who} /\ Identity' = Identity
    BY <1>2, <2>1, CallsOnline
  <2>3. handler[c] = Idle /\ Reading(c) /\ UNCHANGED <<socket, identity, connections, abandoned>>
    BY <1>6 DEF LeaveCommand, Serves, Resting
  <2> QED BY <2>1, <2>2, <2>3 DEF Leaves
<1>7. ASSUME NEW c \in Threads, NEW s \in Sids, StartGameCommand(c, s)
      PROVE  LinksAlone
  <2>1. Online' = Online
    BY <1>7, OthersOnline DEF StartGameCommand
  <2> QED
    BY <1>7, <2>1 DEF StartGameCommand, LinksAlone, StillRead, Reading, linkVars
<1>8. ASSUME NEW c \in Threads, TellManager(c)
      PROVE  Tells(c)
  <2>1. handler[c].who \in Identity
    BY <1>8 DEF TellManager, ConnectionTypeOK
  <2>2. PICK who \in Identity : who = handler[c].who
    BY <2>1
  <2>3. CASE Disconnect(who[1], who[2])
    <3>1. Online' = Online \ {who}
      BY <1>2, <2>3, CallsOnline
    <3> QED BY <1>8, <2>2, <3>1 DEF TellManager, Tells, linkVars
  <2>4. CASE ~HasPlayer(sessions[who[1]], who[2]) /\ UNCHANGED managerVars
    <3>1. who \notin Online /\ Online' = Online
      BY <1>1, <2>4 DEF Online, IsOnline, managerVars
    <3>2. Online' = Online \ {who}
      BY <3>1
    <3> QED BY <1>8, <2>2, <3>2 DEF TellManager, Tells, linkVars
  <2> QED BY <1>8, <2>2, <2>3, <2>4 DEF TellManager
<1>9. ASSUME NEW c \in Threads, OnDisconnect(c), Resting(c), StillRead({c}),
             UNCHANGED <<managerVars, abandoned, contested>>
      PROVE  LinksAlone \/ Breaks(c)
  <2>1. Online' = Online
    BY <1>1, <1>9 DEF managerVars
  <2>2. CASE identity[c] = NoOne \/ identity[c][2] = Nameless
    BY <1>9, <2>1, <2>2 DEF OnDisconnect, LinksAlone, Resting, StillRead, Unreported
  <2>3. CASE ~(identity[c] = NoOne \/ identity[c][2] = Nameless)
    BY <1>9, <2>1, <2>3 DEF OnDisconnect, Breaks, Resting
  <2> QED BY <2>2, <2>3
<1>10. ASSUME NEW c \in Threads, WriteFails(c) \/ ReadFails(c)
       PROVE  LinksAlone \/ Breaks(c)
  <2>1. \A d \in Threads \ {c} : socket'[d] = socket[d]
    BY <1>10 DEF WriteFails, ReadFails, ConnectionTypeOK
  <2>2. StillRead({c})
    BY <2>1 DEF StillRead, Reading
  <2> QED BY <1>9, <1>10, <2>2 DEF WriteFails, ReadFails
<1>11. ASSUME NEW c \in Threads, TakeIdentity(c)
       PROVE  Takes(c)
  BY <1>1, <1>11 DEF TakeIdentity, Takes, managerVars
<1>12. ASSUME NEW c \in Threads, DropIdentity(c)
       PROVE  Drops(c)
  BY <1>1, <1>12 DEF DropIdentity, Drops, managerVars
<1>13. ASSUME NEW c \in Threads, Accept(c) \/ CreateQuizCommand(c) \/ SendEvent(c)
       PROVE  LinksAlone
  <2>1. UNCHANGED sessions /\ UNCHANGED <<identity, handler, connections, abandoned, contested>>
    BY <1>13 DEF Accept, CreateQuizCommand, StoreQuiz, SendEvent, Broadcast, managerVars, linkVars
  <2>2. \A d \in Threads : Reading(d) => Reading(d)'
    BY <1>13 DEF Accept, CreateQuizCommand, SendEvent, linkVars, Reading, ConnectionTypeOK
  <2> QED
    BY <1>1, <2>1, <2>2 DEF LinksAlone, StillRead
<1>14. CASE TickHandler
  <2>1. Online' = Online
    BY <1>14, OthersOnline DEF TickHandler
  <2> QED
    BY <1>14, <2>1 DEF TickHandler, LinksAlone, StillRead, Reading, linkVars
<1>15. CASE AcceptFails \/ ClockRuns \/ UNCHANGED connectionVars
  <2>1. UNCHANGED sessions
        /\ UNCHANGED <<socket, identity, handler, connections, abandoned, contested>>
    BY <1>15 DEF AcceptFails, ClockRuns, TimePasses, connectionVars, managerVars, linkVars
  <2> QED
    BY <1>1, <2>1 DEF LinksAlone, StillRead, Reading
<1> QED
  BY <1>3, <1>4, <1>5, <1>6, <1>7, <1>8, <1>10, <1>11, <1>12, <1>13, <1>14, <1>15
  DEF ConnectionNext, HandlerStep

-----------------------------------------------------------------------------
(* The inductive invariant.                                                *)

(* A handler that reports the end of a connection has dropped its identity.*)
Strands ==
  \A c \in Threads : handler[c].stage = "disconnect" => identity[c] = NoOne

(* A connection nobody reads from speaks for nobody but a nameless host,   *)
(* and its handlers have nothing to do but to report its end.              *)
Unread ==
  \A c \in Threads : ~Reading(c) =>
    /\ identity[c] = NoOne \/ identity[c][2] = Nameless
    /\ handler[c].stage \in {"idle", "disconnect"}

(* An identity nobody disputes is held by one connection.                  *)
Sole ==
  \A c \in Threads : \A who \in {identity[c], handler[c].who} :
    Undisputed(who) => ~TakenElsewhere(c, who)

(* The connection is about to forget the player.                           *)
Forgets(c, who) == handler[c].stage = "forget" /\ handler[c].who = who

(* It is online from the moment a handler is about to take it until its    *)
(* connection leaves or breaks, and registered as soon as it is taken.     *)
Attached ==
  \A c \in Threads :
    /\ Undisputed(identity[c]) /\ ~Forgets(c, identity[c]) =>
         /\ identity[c] \in Online
         /\ identity[c] \in DOMAIN connections /\ connections[identity[c]] = c
    /\ Undisputed(handler[c].who) /\ handler[c].stage = "register" =>
         handler[c].who \in Online

(* A connection about to forget a player speaks for it no more.            *)
Speaks(c, who) ==
  \/ identity[c] = who /\ Reading(c) /\ ~Forgets(c, who)
  \/ handler[c].stage \in {"register", "disconnect"} /\ handler[c].who = who

Spoken == \A who \in Online : Untracked(who) \/ \E c \in Threads : Speaks(c, who)

CInv == Strands /\ Unread /\ Sole /\ Attached /\ Spoken /\ RegistryIsCurrent

(* The variables are functions on the connections, and no identity is      *)
(* mistaken for none.                                                      *)
LEMMA LinkDomains ==
  ASSUME ConnectionTypeOK
  PROVE  /\ DOMAIN identity = Threads /\ DOMAIN handler = Threads
         /\ \A c \in Threads : handler[c] = Idle => handler[c].who = NoOne /\ handler[c].stage = "idle"
         /\ \A c \in Threads : handler[c].stage \in {"register", "forget", "disconnect"} =>
              handler[c].who \in Identity
         /\ \A c \in Threads : identity[c] # NoOne => identity[c] \in Identity
         /\ \A who \in Identity : who # NoOne /\ who = <<who[1], who[2]>>
BY DEF ConnectionTypeOK, Idle, Identity, NoOne

(* create_session, join and reconnect.                                     *)
LEMMA BeginsCInv ==
  ASSUME ConnectionTypeOK, CInv, NEW c \in Threads, NEW who, who # NoOne, Begins(c, who)
  PROVE  CInv'
<1>1. /\ handler[c].who = NoOne /\ handler[c].stage = "idle"
      /\ handler'[c].stage = "register" /\ handler'[c].who = who
      /\ \A d \in Threads : d # c => handler'[d] = handler[d]
  BY LinkDomains DEF Begins, Remains
<1>2. /\ Online' = Online \cup {who} /\ Reading(c)
      /\ contested' = contested \cup {w \in {who} : TakenElsewhere(c, w)}
      /\ UNCHANGED <<socket, identity, connections, abandoned>>
  BY DEF Begins
<1>3. Strands' /\ Unread'
  BY <1>1, <1>2 DEF CInv, Strands, Unread, Reading
<1>4. \A w : Undisputed(w)' => Undisputed(w) /\ (w = who => ~TakenElsewhere(c, who))
  BY <1>2 DEF Undisputed
<1>5. Sole'
  BY <1>1, <1>2, <1>4 DEF CInv, Sole, TakenElsewhere, Undisputed
<1>6. Attached'
  BY <1>1, <1>2, <1>4 DEF CInv, Attached, Forgets
<1>7. Spoken'
  <2>1. Speaks(c, who)'
    BY <1>1 DEF Speaks
  <2>2. \A d \in Threads : \A w : Speaks(d, w) => Speaks(d, w)'
    BY <1>1, <1>2 DEF Speaks, Forgets, Reading
  <2> QED BY <1>2, <2>1, <2>2 DEF CInv, Spoken, Untracked
<1>8. RegistryIsCurrent'
  BY <1>2 DEF CInv, RegistryIsCurrent, Untracked, Reading
<1> QED
  BY <1>3, <1>5, <1>6, <1>7, <1>8 DEF CInv

(* leave.                                                                  *)
LEMMA LeavesCInv ==
  ASSUME ConnectionTypeOK, CInv, NEW c \in Threads, NEW who, who # NoOne, Leaves(c, who)
  PROVE  CInv'
<1>1. /\ handler[c].who = NoOne /\ handler[c].stage = "idle"
      /\ handler'[c].stage = "forget" /\ handler'[c].who = who
      /\ \A d \in Threads : d # c => handler'[d] = handler[d]
  BY LinkDomains DEF Leaves, Remains
<1>2. /\ Online' = Online \ {who} /\ Reading(c)
      /\ contested' = contested \cup {w \in {who} : TakenElsewhere(c, w)}
      /\ UNCHANGED <<socket, identity, connections, abandoned>>
  BY DEF Leaves
<1>3. Strands' /\ Unread'
  BY <1>1, <1>2 DEF CInv, Strands, Unread, Reading
<1>4. \A w : Undisputed(w)' => Undisputed(w) /\ (w = who => ~TakenElsewhere(c, who))
  BY <1>2 DEF Undisputed
<1>5. Sole'
  BY <1>1, <1>2, <1>4 DEF CInv, Sole, TakenElsewhere, Undisputed
<1>6. Attached'
  <2>1. ASSUME NEW d \in Threads, d # c, NEW w \in {identity[d], handler[d].who}, Undisputed(w)'
        PROVE  Undisputed(w) /\ w # who
    BY <1>4, <2>1 DEF TakenElsewhere
  <2>2. ASSUME Undisputed(identity[c])', identity[c] # who
        PROVE  /\ identity[c] \in Online'
               /\ identity[c] \in DOMAIN connections /\ connections[identity[c]] = c
    BY <1>1, <1>2, <1>4, <2>2 DEF CInv, Attached, Forgets
  <2>3. ASSUME NEW d \in Threads, d # c
        PROVE  /\ Undisputed(identity[d])' /\ ~Forgets(d, identity[d]) =>
                    /\ identity[d] \in Online'
                    /\ identity[d] \in DOMAIN connections /\ connections[identity[d]] = d
               /\ Undisputed(handler[d].who)' /\ handler[d].stage = "register" =>
                    handler[d].who \in Online'
    <3>1. Undisputed(identity[d])' => Undisputed(identity[d]) /\ identity[d] # who
      BY <1>2, <2>1, <2>3 DEF Undisputed
    <3>2. Undisputed(handler[d].who)' /\ handler[d].stage = "register" =>
            Undisputed(handler[d].who) /\ handler[d].who # who
      BY <1>1, <1>2, <2>1, <2>3 DEF Undisputed
    <3> QED BY <1>2, <3>1, <3>2 DEF CInv, Attached
  <2> QED
    BY <1>1, <1>2, <2>2, <2>3 DEF Attached, Forgets
<1>7. Spoken'
  <2>1. \A d \in Threads : \A w : w # who /\ Speaks(d, w) => Speaks(d, w)'
    BY <1>1, <1>2 DEF Speaks, Forgets, Reading
  <2> QED BY <1>2, <2>1 DEF CInv, Spoken, Untracked
<1>8. RegistryIsCurrent'
  BY <1>2 DEF CInv, RegistryIsCurrent, Untracked, Reading
<1> QED
  BY <1>3, <1>5, <1>6, <1>7, <1>8 DEF CInv

(* The connection speaks for the player from here on; whom it spoke for    *)
(* before it has abandoned.                                                *)
LEMMA TakesCInv ==
  ASSUME ConnectionTypeOK, CInv, NEW c \in Threads, Takes(c)
  PROVE  CInv'
<1>1. PICK who : who = handler[c].who
  OBVIOUS
<1>2. /\ who # NoOne /\ who = <<who[1], who[2]>>
      /\ handler[c].stage = "register"
      /\ handler'[c].who = NoOne /\ handler'[c].stage = "idle"
      /\ \A d \in Threads : d # c => handler'[d] = handler[d]
  BY <1>1, LinkDomains DEF Takes, Done, Idle
<1>3. /\ identity'[c] = who
      /\ \A d \in Threads : d # c => identity'[d] = identity[d]
  BY <1>1, LinkDomains DEF Takes
<1>4. /\ DOMAIN connections' = DOMAIN connections \cup {who}
      /\ connections'[who] = c
      /\ \A k \in DOMAIN connections : k # who => connections'[k] = connections[k]
  BY <1>1, <1>2 DEF Takes, Registry!Register
<1>5. /\ Online' = Online /\ UNCHANGED <<socket, contested>> /\ Reading(c)
      /\ abandoned' = (abandoned \cup ({identity[c]} \ {NoOne, who})) \ {who}
  BY <1>1, <1>2 DEF Takes, GivenUp, CInv, Unread
<1>6. Strands' /\ Unread'
  BY <1>2, <1>3, <1>5 DEF CInv, Strands, Unread, Reading
<1>7. \A w : Undisputed(w)' <=> Undisputed(w)
  BY <1>5 DEF Undisputed
<1>8. ~Undisputed(NoOne)
  BY DEF Undisputed
<1>9. Sole'
  <2>1. ASSUME NEW d \in Threads, NEW w \in {identity'[d], handler'[d].who}, Undisputed(w)
        PROVE  w \in {identity[d], handler[d].who}
    BY <1>1, <1>2, <1>3, <1>8, <2>1
  <2> QED
    BY <1>7, <2>1 DEF CInv, Sole, TakenElsewhere
<1>10. Attached'
  <2>1. ASSUME Undisputed(who)
        PROVE  /\ who \in Online
               /\ \A d \in Threads : d # c => who \notin {identity[d], handler[d].who}
    BY <1>1, <1>2, <2>1 DEF CInv, Attached, Sole, TakenElsewhere
  <2>2. ASSUME NEW d \in Threads, d # c
        PROVE  /\ Undisputed(identity[d]) /\ ~Forgets(d, identity[d]) =>
                    /\ identity[d] \in Online
                    /\ identity[d] \in DOMAIN connections' /\ connections'[identity[d]] = d
               /\ Undisputed(handler[d].who) /\ handler[d].stage = "register" =>
                    handler[d].who \in Online
    <3>1. ASSUME NEW w \in {identity[d], handler[d].who}, Undisputed(w)
          PROVE  w # who
      BY <2>1, <2>2, <3>1
    <3> QED
      BY <1>4, <3>1 DEF CInv, Attached
  <2> QED
    BY <1>2, <1>3, <1>4, <1>5, <1>7, <2>1, <2>2 DEF Attached, Forgets
<1>11. Spoken'
  <2>1. Speaks(c, who)'
    BY <1>2, <1>3, <1>5 DEF Speaks, Reading, Forgets
  <2>2. ASSUME NEW w \in Online, w # who, ~Untracked(w)'
        PROVE  \E d \in Threads : Speaks(d, w)'
    <3>1. w # NoOne /\ w \notin abandoned /\ w # identity[c] /\ ~Untracked(w)
      BY <1>5, <2>2, LinkDomains DEF Online, Untracked
    <3>2. PICK d \in Threads : Speaks(d, w)
      BY <2>2, <3>1 DEF CInv, Spoken
    <3>3. d # c
      BY <1>1, <2>2, <3>1, <3>2, <1>2 DEF Speaks
    <3>4. /\ identity'[d] = identity[d] /\ handler'[d] = handler[d] /\ socket' = socket
      BY <1>2, <1>3, <1>5, <3>3
    <3> QED BY <3>2, <3>4 DEF Speaks, Forgets, Reading
  <2> QED
    BY <1>5, <2>1, <2>2 DEF Spoken
<1>12. RegistryIsCurrent'
  <2>1. ASSUME NEW k \in DOMAIN connections, ~Untracked(k)', k # who
        PROVE  \E d \in Threads : connections[k] = d /\ identity'[d] = k /\ socket'[d] \in {"open", "mute"}
    <3>1. k \notin abandoned /\ k # identity[c] /\ ~Untracked(k)
      <4>1. k # NoOne
        BY <2>1, LinkDomains DEF ConnectionTypeOK
      <4> QED BY <1>5, <2>1, <4>1 DEF Untracked
    <3>2. connections[k] \in Threads /\ identity[connections[k]] = k /\ Reading(connections[k])
      BY <3>1 DEF CInv, RegistryIsCurrent, ConnectionTypeOK
    <3> QED BY <1>3, <1>5, <3>1, <3>2 DEF Reading
  <2>2. Reading(c)' /\ identity'[c] = who
    BY <1>3, <1>5 DEF Reading
  <2> QED
    BY <1>4, <2>1, <2>2 DEF RegistryIsCurrent, Reading
<1> QED
  BY <1>6, <1>9, <1>10, <1>11, <1>12 DEF CInv

(* The end of leave: whoever left is forgotten, and whomever the           *)
(* connection spoke for otherwise it has abandoned.                        *)
LEMMA DropsCInv ==
  ASSUME ConnectionTypeOK, CInv, NEW c \in Threads, Drops(c)
  PROVE  CInv'
<1>1. PICK who : who = handler[c].who
  OBVIOUS
<1>2. /\ who # NoOne /\ who = <<who[1], who[2]>>
      /\ handler[c].stage = "forget"
      /\ handler'[c].who = NoOne /\ handler'[c].stage = "idle"
      /\ \A d \in Threads : d # c => handler'[d] = handler[d]
  BY <1>1, LinkDomains DEF Drops, Done, Idle
<1>3. /\ identity'[c] = NoOne
      /\ \A d \in Threads : d # c => identity'[d] = identity[d]
  BY LinkDomains DEF Drops
<1>4. /\ DOMAIN connections' = DOMAIN connections \ {who}
      /\ \A k \in DOMAIN connections' : connections'[k] = connections[k]
  BY <1>1, <1>2 DEF Drops, Registry!Unregister
<1>5. /\ Online' = Online /\ UNCHANGED <<socket, contested>>
      /\ abandoned' = abandoned \cup ({identity[c]} \ {NoOne, who})
  BY <1>1 DEF Drops, GivenUp
<1>6. Strands' /\ Unread'
  BY <1>2, <1>3, <1>5 DEF CInv, Strands, Unread, Reading
<1>7. \A w : Undisputed(w)' <=> Undisputed(w)
  BY <1>5 DEF Undisputed
<1>8. ~Undisputed(NoOne)
  BY DEF Undisputed
<1>9. Sole'
  <2>1. ASSUME NEW d \in Threads, NEW w \in {identity'[d], handler'[d].who}, Undisputed(w)
        PROVE  w \in {identity[d], handler[d].who}
    BY <1>2, <1>3, <1>8, <2>1
  <2> QED
    BY <1>7, <2>1 DEF CInv, Sole, TakenElsewhere
<1>10. Attached'
  <2>1. ASSUME NEW d \in Threads, d # c
        PROVE  /\ Undisputed(identity[d]) /\ ~Forgets(d, identity[d]) =>
                    /\ identity[d] \in Online
                    /\ identity[d] \in DOMAIN connections' /\ connections'[identity[d]] = d
               /\ Undisputed(handler[d].who) /\ handler[d].stage = "register" =>
                    handler[d].who \in Online
    <3>1. Undisputed(identity[d]) => identity[d] # who
      BY <1>1, <2>1 DEF CInv, Sole, TakenElsewhere
    <3> QED
      BY <1>4, <3>1 DEF CInv, Attached
  <2> QED
    BY <1>2, <1>3, <1>5, <1>7, <1>8, <2>1 DEF Attached, Forgets
<1>11. Spoken'
  <2>1. ASSUME NEW w \in Online, ~Untracked(w)'
        PROVE  \E d \in Threads : Speaks(d, w)'
    <3>1. w # NoOne /\ ~Untracked(w) /\ (w # who => w # identity[c])
      BY <1>5, <2>1, LinkDomains DEF Online, Untracked
    <3>2. PICK d \in Threads : Speaks(d, w)
      BY <2>1, <3>1 DEF CInv, Spoken
    <3>3. d # c
      BY <1>1, <1>2, <3>1, <3>2 DEF Speaks, Forgets
    <3>4. /\ identity'[d] = identity[d] /\ handler'[d] = handler[d] /\ socket' = socket
      BY <1>2, <1>3, <1>5, <3>3
    <3> QED BY <3>2, <3>4 DEF Speaks, Forgets, Reading
  <2> QED
    BY <1>5, <2>1 DEF Spoken
<1>12. RegistryIsCurrent'
  <2>1. ASSUME NEW k \in DOMAIN connections, ~Untracked(k)', k # who
        PROVE  \E d \in Threads : connections[k] = d /\ identity'[d] = k /\ socket'[d] \in {"open", "mute"}
    <3>1. k # identity[c] /\ ~Untracked(k)
      <4>1. k # NoOne
        BY <2>1, LinkDomains DEF ConnectionTypeOK
      <4> QED BY <1>5, <2>1, <4>1 DEF Untracked
    <3>2. connections[k] \in Threads /\ identity[connections[k]] = k /\ Reading(connections[k])
      BY <3>1 DEF CInv, RegistryIsCurrent, ConnectionTypeOK
    <3> QED BY <1>3, <1>5, <3>1, <3>2 DEF Reading
  <2> QED
    BY <1>4, <2>1 DEF RegistryIsCurrent, Reading
<1> QED
  BY <1>6, <1>9, <1>10, <1>11, <1>12 DEF CInv

(* The end of a connection that speaks for somebody.                       *)
LEMMA BreaksCInv ==
  ASSUME ConnectionTypeOK, CInv, NEW c \in Threads, Breaks(c)
  PROVE  CInv'
<1>1. PICK who : who = identity[c]
  OBVIOUS
<1>2. /\ who # NoOne /\ who = <<who[1], who[2]>>
      /\ handler[c].stage = "idle" /\ handler[c].who = NoOne
      /\ handler'[c].who = who /\ handler'[c].stage = "disconnect"
      /\ \A d \in Threads : d # c => handler'[d] = handler[d]
  BY <1>1, LinkDomains DEF Breaks, Remains
<1>3. /\ identity'[c] = NoOne
      /\ \A d \in Threads : d # c => identity'[d] = identity[d]
  BY LinkDomains DEF Breaks
<1>4. /\ DOMAIN connections' = DOMAIN connections \ {who}
      /\ \A k \in DOMAIN connections' : connections'[k] = connections[k]
  BY <1>1, <1>2 DEF Breaks, Registry!Unregister
<1>5. /\ Online' = Online /\ UNCHANGED <<abandoned, contested>>
      /\ \A d \in Threads : d # c /\ Reading(d) => Reading(d)'
  BY DEF Breaks, StillRead
<1>6. Strands' /\ Unread'
  BY <1>2, <1>3, <1>5 DEF CInv, Strands, Unread
<1>7. \A w : Undisputed(w)' <=> Undisputed(w)
  BY <1>5 DEF Undisputed
<1>8. ~Undisputed(NoOne)
  BY DEF Undisputed
<1>9. Sole'
  <2>1. ASSUME NEW d \in Threads, NEW w \in {identity'[d], handler'[d].who}, Undisputed(w)
        PROVE  w \in {identity[d], handler[d].who}
    BY <1>1, <1>2, <1>3, <1>8, <2>1
  <2> QED
    BY <1>7, <2>1 DEF CInv, Sole, TakenElsewhere
<1>10. Attached'
  <2>1. ASSUME NEW d \in Threads, d # c
        PROVE  /\ Undisputed(identity[d]) /\ ~Forgets(d, identity[d]) =>
                    /\ identity[d] \in Online
                    /\ identity[d] \in DOMAIN connections' /\ connections'[identity[d]] = d
               /\ Undisputed(handler[d].who) /\ handler[d].stage = "register" =>
                    handler[d].who \in Online
    <3>1. Undisputed(identity[d]) => identity[d] # who
      BY <1>1, <2>1 DEF CInv, Sole, TakenElsewhere
    <3> QED
      BY <1>4, <3>1 DEF CInv, Attached
  <2> QED
    BY <1>2, <1>3, <1>5, <1>7, <1>8, <2>1 DEF Attached, Forgets
<1>11. Spoken'
  <2>1. Speaks(c, who)'
    BY <1>2 DEF Speaks
  <2>2. ASSUME NEW w \in Online, w # who, ~Untracked(w)
        PROVE  \E d \in Threads : Speaks(d, w)'
    <3>1. PICK d \in Threads : Speaks(d, w)
      BY <2>2 DEF CInv, Spoken
    <3>2. d # c
      BY <1>1, <1>2, <2>2, <3>1 DEF Speaks
    <3>3. /\ identity'[d] = identity[d] /\ handler'[d] = handler[d]
          /\ (Reading(d) => Reading(d)')
      BY <1>2, <1>3, <1>5, <3>2
    <3> QED BY <3>1, <3>3 DEF Speaks, Forgets
  <2>3. \A w : Untracked(w)' <=> Untracked(w)
    BY <1>5 DEF Untracked
  <2> QED
    BY <1>5, <2>1, <2>2, <2>3 DEF Spoken
<1>12. RegistryIsCurrent'
  <2>1. ASSUME NEW k \in DOMAIN connections, ~Untracked(k), k # who
        PROVE  \E d \in Threads : connections[k] = d /\ identity'[d] = k /\ socket'[d] \in {"open", "mute"}
    <3>1. connections[k] \in Threads /\ identity[connections[k]] = k /\ Reading(connections[k])
      BY <2>1 DEF CInv, RegistryIsCurrent, ConnectionTypeOK
    <3> QED BY <1>1, <1>3, <1>5, <2>1, <3>1 DEF Reading
  <2>2. \A w : Untracked(w)' <=> Untracked(w)
    BY <1>5 DEF Untracked
  <2> QED
    BY <1>4, <2>1, <2>2 DEF RegistryIsCurrent, Reading
<1> QED
  BY <1>6, <1>9, <1>10, <1>11, <1>12 DEF CInv

(* controller_.Disconnect: nobody undisputed holds what it takes offline.  *)
LEMMA TellsCInv ==
  ASSUME ConnectionTypeOK, CInv, NEW c \in Threads, Tells(c)
  PROVE  CInv'
<1>1. PICK who : who = handler[c].who
  OBVIOUS
<1>2. /\ handler[c].stage = "disconnect"
      /\ handler'[c].who = NoOne /\ handler'[c].stage = "idle"
      /\ \A d \in Threads : d # c => handler'[d] = handler[d]
  BY LinkDomains DEF Tells, Done, Idle
<1>3. /\ Online' = Online \ {who}
      /\ UNCHANGED <<socket, identity, connections, abandoned, contested>>
  BY <1>1 DEF Tells
<1>4. Strands' /\ Unread'
  BY <1>2, <1>3 DEF CInv, Strands, Unread, Reading
<1>5. \A w : Undisputed(w)' <=> Undisputed(w)
  BY <1>3 DEF Undisputed
<1>6. ~Undisputed(NoOne) /\ identity[c] = NoOne
  BY <1>2 DEF Undisputed, CInv, Strands
<1>7. Sole'
  <2>1. ASSUME NEW d \in Threads, NEW w \in {identity'[d], handler'[d].who}, Undisputed(w)
        PROVE  w \in {identity[d], handler[d].who}
    BY <1>2, <1>3, <1>6, <2>1
  <2> QED
    BY <1>5, <2>1 DEF CInv, Sole, TakenElsewhere
<1>8. Attached'
  <2>1. ASSUME NEW d \in Threads, d # c, NEW w \in {identity[d], handler[d].who}, Undisputed(w)
        PROVE  w # who
    BY <1>1, <2>1 DEF CInv, Sole, TakenElsewhere
  <2> QED
    BY <1>2, <1>3, <1>5, <1>6, <2>1 DEF CInv, Attached, Forgets
<1>9. Spoken'
  <2>1. \A d \in Threads : \A w : w # who /\ w # NoOne /\ Speaks(d, w) => Speaks(d, w)'
    BY <1>1, <1>2, <1>3 DEF Speaks, Forgets, Reading
  <2>2. \A w \in Online : w # NoOne
    BY LinkDomains DEF Online
  <2> QED
    BY <1>3, <2>1, <2>2 DEF CInv, Spoken, Untracked
<1>10. RegistryIsCurrent'
  BY <1>3 DEF CInv, RegistryIsCurrent, Untracked, Reading
<1> QED
  BY <1>4, <1>7, <1>8, <1>9, <1>10 DEF CInv

(* Whatever leaves the links alone, the end of an unreported connection    *)
(* included.                                                               *)
LEMMA AloneCInv ==
  ASSUME ConnectionTypeOK, CInv, LinksAlone
  PROVE  CInv'
<1>1. Online' = Online /\ UNCHANGED <<identity, handler, connections, abandoned, contested>>
  BY DEF LinksAlone
<1>2. \A d \in Threads : Reading(d) => Reading(d)' \/ Unreported(d)
  BY DEF LinksAlone, StillRead
<1>3. \A d \in Threads : Unreported(d) =>
        (identity[d] = NoOne \/ identity[d][2] = Nameless) /\ handler[d].stage = "idle"
  BY LinkDomains DEF Unreported
<1>4. Strands' /\ Sole'
  BY <1>1 DEF CInv, Strands, Sole, TakenElsewhere, Undisputed
<1>5. Unread'
  BY <1>1, <1>2, <1>3 DEF CInv, Unread
<1>6. Attached'
  BY <1>1 DEF CInv, Attached, Undisputed, Forgets
<1>7. \A w : Untracked(w)' <=> Untracked(w)
  BY <1>1 DEF Untracked
<1>8. Spoken'
  <2>1. ASSUME NEW w \in Online, ~Untracked(w), NEW d \in Threads, Speaks(d, w)
        PROVE  Speaks(d, w)'
    <3>1. w # NoOne /\ w[2] # Nameless
      BY <2>1, LinkDomains DEF Online, Untracked
    <3> QED
      BY <1>1, <1>2, <1>3, <2>1, <3>1 DEF Speaks, Forgets
  <2> QED BY <1>1, <1>7, <2>1 DEF CInv, Spoken
<1>9. RegistryIsCurrent'
  <2>1. ASSUME NEW w \in DOMAIN connections, ~Untracked(w)
        PROVE  \E d \in Threads : connections[w] = d /\ identity[d] = w /\ Reading(d)'
    <3>1. w # NoOne /\ w[2] # Nameless
      BY <2>1, LinkDomains DEF ConnectionTypeOK, Untracked
    <3>2. connections[w] \in Threads /\ Reading(connections[w]) /\ identity[connections[w]] = w
      BY <2>1 DEF CInv, RegistryIsCurrent, ConnectionTypeOK
    <3> QED BY <1>2, <1>3, <3>1, <3>2
  <2> QED BY <1>1, <1>7, <2>1 DEF RegistryIsCurrent, Reading
<1> QED
  BY <1>4, <1>5, <1>6, <1>8, <1>9 DEF CInv

(* The types of the links.                                                 *)
LinksTyped ==
  /\ identity \in [Threads -> Identity \cup {NoOne}]
  /\ handler \in [Threads -> [stage : {"idle"}, who : {NoOne}]
                       \cup [stage : {"register", "forget", "disconnect"}, who : Identity]]
  /\ DOMAIN connections \subseteq Identity
  /\ \A k \in DOMAIN connections : connections[k] \in Threads
  /\ abandoned \subseteq Identity /\ contested \subseteq Identity

(* The moves of connections are typed: they begin, hand over or end with   *)
(* an identity, or leave it alone.                                         *)
LEMMA LinksStayTyped ==
  ASSUME LinksTyped, Identity \subseteq Identity',
         \/ LinksAlone
         \/ \E c \in Threads : \/ \E who \in Identity' : Begins(c, who) \/ Leaves(c, who)
                               \/ Takes(c) \/ Drops(c) \/ Breaks(c) \/ Tells(c)
  PROVE  LinksTyped'
<1> DEFINE Busy(I) == [stage : {"register", "forget", "disconnect"}, who : I]
           Handler(I) == [stage : {"idle"}, who : {NoOne}] \cup Busy(I)
<1>1. Idle \in Handler(Identity') /\ Handler(Identity) \subseteq Handler(Identity')
  BY DEF Idle
<1>2. /\ identity \in [Threads -> Identity \cup {NoOne}]
      /\ handler \in [Threads -> Handler(Identity)]
      /\ DOMAIN connections \subseteq Identity
      /\ \A k \in DOMAIN connections : connections[k] \in Threads
      /\ abandoned \subseteq Identity /\ contested \subseteq Identity
  BY DEF LinksTyped
<1>3. SUFFICES /\ identity' \in [Threads -> Identity' \cup {NoOne}]
               /\ handler' \in [Threads -> Handler(Identity')]
               /\ DOMAIN connections' \subseteq Identity'
               /\ \A k \in DOMAIN connections' : connections'[k] \in Threads
               /\ abandoned' \subseteq Identity' /\ contested' \subseteq Identity'
  BY DEF LinksTyped, NoOne
<1>4. \A c \in Threads : handler[c].stage \in {"register", "forget", "disconnect"} =>
        handler[c].who \in Identity
  BY <1>2
<1>5. \A stage \in {"register", "forget", "disconnect"} : \A who \in Identity' :
        [stage |-> stage, who |-> who] \in Handler(Identity')
  OBVIOUS
<1>6. \A who \in Identity : who = <<who[1], who[2]>>
  BY DEF Identity
<1>7. Identity \subseteq Identity'
  OBVIOUS
<1> HIDE DEF Handler
<1>8. CASE LinksAlone
  BY <1>1, <1>2, <1>8 DEF LinksAlone
<1>9. ASSUME NEW c \in Threads, NEW who \in Identity', Begins(c, who) \/ Leaves(c, who)
      PROVE  /\ identity' \in [Threads -> Identity' \cup {NoOne}]
             /\ handler' \in [Threads -> Handler(Identity')]
             /\ UNCHANGED <<connections, abandoned>> /\ contested' \subseteq Identity'
  BY <1>1, <1>2, <1>5, <1>9 DEF Begins, Leaves, Remains
<1>10. ASSUME NEW c \in Threads, Tells(c)
       PROVE  /\ handler' \in [Threads -> Handler(Identity')]
              /\ UNCHANGED <<identity, connections, abandoned, contested>>
  BY <1>1, <1>2, <1>10 DEF Tells, Done
<1>11. ASSUME NEW c \in Threads, Takes(c)
       PROVE  /\ identity' \in [Threads -> Identity' \cup {NoOne}]
              /\ handler' \in [Threads -> Handler(Identity')]
              /\ DOMAIN connections' \subseteq Identity'
              /\ \A k \in DOMAIN connections' : connections'[k] \in Threads
              /\ abandoned' \subseteq Identity' /\ contested' = contested
  <2>1. PICK who \in Identity : who = handler[c].who
    BY <1>4, <1>11 DEF Takes
  <2>2. /\ identity' = [identity EXCEPT ![c] = who] /\ Done(c) /\ UNCHANGED contested
        /\ abandoned' = (abandoned \cup ({identity[c]} \ {NoOne, who})) \ {who}
        /\ Registry!Register(who[1], who[2], c)
    BY <1>11, <2>1 DEF Takes, GivenUp
  <2>3. /\ DOMAIN connections' = DOMAIN connections \cup {who}
        /\ \A k \in DOMAIN connections' : connections'[k] \in {c, connections[k]}
        /\ \A k \in DOMAIN connections' : k # who => connections'[k] = connections[k]
        /\ connections'[who] = c
    BY <1>6, <2>2 DEF Registry!Register
  <2>4. /\ DOMAIN connections' \subseteq Identity'
        /\ \A k \in DOMAIN connections' : connections'[k] \in Threads
    BY <1>2, <2>3
  <2>5. handler' \in [Threads -> Handler(Identity')]
    BY <1>1, <1>2, <2>2 DEF Done
  <2>6. identity' \in [Threads -> Identity' \cup {NoOne}]
    BY <1>2, <2>2
  <2>7. abandoned' \subseteq Identity'
    BY <1>2, <2>2
  <2> QED BY <2>2, <2>4, <2>5, <2>6, <2>7
<1>12. ASSUME NEW c \in Threads, Drops(c) \/ Breaks(c)
       PROVE  /\ identity' \in [Threads -> Identity' \cup {NoOne}]
              /\ handler' \in [Threads -> Handler(Identity')]
              /\ DOMAIN connections' \subseteq DOMAIN connections
              /\ \A k \in DOMAIN connections' : connections'[k] = connections[k]
              /\ abandoned' \subseteq Identity' /\ UNCHANGED contested
  <2>1. identity' = [identity EXCEPT ![c] = NoOne] /\ UNCHANGED contested
    BY <1>12 DEF Drops, Breaks
  <2>5. abandoned' \subseteq abandoned \cup ({identity[c]} \ {NoOne})
    BY <1>12 DEF Drops, Breaks, GivenUp
  <2>6. abandoned' \subseteq Identity'
    BY <1>2, <2>5
  <2>2. identity' \in [Threads -> Identity' \cup {NoOne}]
    BY <1>2, <2>1
  <2>3. /\ DOMAIN connections' \subseteq DOMAIN connections
        /\ \A k \in DOMAIN connections' : connections'[k] = connections[k]
    BY <1>12 DEF Drops, Breaks, Registry!Unregister
  <2>4. handler' \in [Threads -> Handler(Identity')]
    <3>1. CASE Drops(c)
      BY <1>1, <1>2, <3>1 DEF Drops, Done
    <3>2. CASE Breaks(c)
      <4>1. identity[c] \in Identity'
        BY <1>2, <3>2 DEF Breaks
      <4> QED BY <1>1, <1>2, <1>5, <3>2, <4>1 DEF Breaks, Remains
    <3> QED BY <1>12, <3>1, <3>2
  <2> QED BY <2>1, <2>2, <2>3, <2>4, <2>6
<1>13. identity \in [Threads -> Identity' \cup {NoOne}]
  BY <1>2
<1>14. DOMAIN connections \subseteq Identity' /\ abandoned \subseteq Identity' /\ contested \subseteq Identity'
  BY <1>2
<1> QED
  BY <1>2, <1>8, <1>9, <1>10, <1>11, <1>12, <1>13, <1>14

(* Every step keeps the types.                                             *)
LEMMA NextTyped ==
  ASSUME IInv, ConnectionTypeOK, [ConnectionNext]_connectionVars
  PROVE  ConnectionTypeOK'
<1>1. LinksTyped'
  BY LinkKinds, SidsGrow, LinksStayTyped DEF ConnectionTypeOK, LinksTyped
<1>2. /\ accepting \in BOOLEAN
      /\ socket \in [Threads -> {"new", "open", "mute", "closed"}]
      /\ next_player_id \in 0..Len(GeneratedIds) /\ Len(GeneratedIds) \in Nat
  BY ConnectionAssumption, LenProperties DEF ConnectionTypeOK
<1>3. ASSUME NEW c \in Threads,
             \/ CreateQuizCommand(c) \/ CreateSessionCommand(c) \/ ReconnectCommand(c)
             \/ LeaveCommand(c) \/ HandlerStep(c) \/ \E s \in Sids : StartGameCommand(c, s)
      PROVE  UNCHANGED <<accepting, socket, next_player_id>>
  BY <1>3 DEF CreateQuizCommand, CreateSessionCommand, ReconnectCommand, LeaveCommand,
              StartGameCommand, HandlerStep, SendEvent, TakeIdentity, DropIdentity, TellManager,
              linkVars
<1>4. ASSUME TickHandler \/ ClockRuns \/ UNCHANGED connectionVars
      PROVE  UNCHANGED <<accepting, socket, next_player_id>>
  BY <1>4 DEF TickHandler, ClockRuns, connectionVars, linkVars
<1>5. ASSUME NEW c \in Threads, \E s \in Sids : JoinCommand(c, s)
      PROVE  /\ UNCHANGED <<accepting, socket>> /\ next_player_id' = next_player_id + 1
             /\ next_player_id < Len(GeneratedIds)
  BY <1>5 DEF JoinCommand
<1>6. ASSUME NEW c \in Threads, Accept(c) \/ WriteFails(c) \/ ReadFails(c)
      PROVE  /\ UNCHANGED <<accepting, next_player_id>>
             /\ \E x \in {"open", "mute", "closed"} : socket' = [socket EXCEPT ![c] = x]
  BY <1>6 DEF Accept, WriteFails, ReadFails
<1>7. /\ accepting' \in BOOLEAN
      /\ socket' \in [Threads -> {"new", "open", "mute", "closed"}]
      /\ next_player_id' \in 0..Len(GeneratedIds)
  <2>1. CASE UNCHANGED <<accepting, socket, next_player_id>>
    BY <1>2, <2>1
  <2>2. ASSUME NEW c \in Threads, \E s \in Sids : JoinCommand(c, s)
        PROVE  /\ accepting' \in BOOLEAN
               /\ socket' \in [Threads -> {"new", "open", "mute", "closed"}]
               /\ next_player_id' \in 0..Len(GeneratedIds)
    BY <1>2, <1>5, <2>2
  <2>3. ASSUME NEW c \in Threads, Accept(c) \/ WriteFails(c) \/ ReadFails(c)
        PROVE  /\ accepting' \in BOOLEAN
               /\ socket' \in [Threads -> {"new", "open", "mute", "closed"}]
               /\ next_player_id' \in 0..Len(GeneratedIds)
    BY <1>2, <1>6, <2>3
  <2>4. CASE AcceptFails
    BY <1>2, <2>4 DEF AcceptFails
  <2> QED
    BY <1>3, <1>4, <2>1, <2>2, <2>3, <2>4 DEF ConnectionNext
<1> QED
  BY <1>1, <1>7 DEF LinksTyped, ConnectionTypeOK

(* Every step keeps the invariant.                                         *)
LEMMA NextCInv ==
  ASSUME IInv, ConnectionTypeOK, CInv, [ConnectionNext]_connectionVars
  PROVE  CInv'
<1>1. \A who \in Identity' : who # NoOne
  BY DEF Identity, NoOne
<1> QED
  BY <1>1, LinkKinds, AloneCInv, BeginsCInv, LeavesCInv, TakesCInv, DropsCInv,
     BreaksCInv, TellsCInv

(* At the start nobody is connected.                                       *)
LEMMA InitCInv == ConnectionInit => IInv /\ ConnectionTypeOK /\ CInv
<1> SUFFICES ASSUME ConnectionInit
             PROVE  IInv /\ ConnectionTypeOK /\ CInv
  OBVIOUS
<1>1. IInv
  BY InitIInv DEF ConnectionInit
<1>2. Sids = {} /\ Online = {}
  <2>1. Sids = {}
    BY EmptyIsSeq DEF ConnectionInit, ManagerInit, Sids
  <2> QED BY <2>1 DEF Online, Identity
<1>3. DOMAIN connections = {}
  BY DEF ConnectionInit, Registry!NoConnections
<1>4. ConnectionTypeOK
  <2>1. Len(GeneratedIds) \in Nat
    BY ConnectionAssumption, LenProperties
  <2> QED
    BY <1>3, <2>1 DEF ConnectionInit, ConnectionTypeOK, Idle, NoOne
<1>5. CInv
  BY <1>2, <1>3 DEF ConnectionInit, CInv, Strands, Unread, Sole, Attached, Undisputed, Spoken,
                    RegistryIsCurrent, Idle, NoOne
<1> QED
  BY <1>1, <1>4, <1>5

(* The invariant holds in every state the connections reach.               *)
LEMMA AlwaysCInv == ConnectionSpec => [](IInv /\ ConnectionTypeOK /\ CInv)
<1>1. /\ IInv /\ ConnectionTypeOK /\ CInv /\ [ConnectionNext]_connectionVars
      => (IInv /\ ConnectionTypeOK /\ CInv)'
  BY ManagerKept, NextTyped, NextCInv
<1> QED
  BY <1>1, InitCInv, PTL DEF ConnectionSpec

-----------------------------------------------------------------------------
(* Every variable of the connections keeps its type; in particular a       *)
(* handler in progress always has a player of a session to finish with.    *)
THEOREM ConnectionTypeCorrect == ConnectionSpec => []ConnectionTypeOK
BY AlwaysCInv, PTL

(* A player counts as connected only while a connection still read from    *)
(* speaks for it, or a handler is at it: but for those whose connection    *)
(* took another identity, or left as somebody else, and nameless hosts.    *)
THEOREM GhostsAreAbandoned == ConnectionSpec => []NoGhosts
<1>1. ASSUME IInv, CInv
      PROVE  NoGhosts
  <2>1. SUFFICES ASSUME NEW s \in Sids, NEW p \in DOMAIN sessions[s].players,
                        sessions[s].players[p].connected
                 PROVE  SpokenFor(<<s, p>>) \/ Untracked(<<s, p>>)
    BY DEF NoGhosts
  <2>2. p \in PlayerIds
    BY <1>1 DEF IInv, TypeOK, SessionsTyped, IsSession, IsMap
  <2>3. <<s, p>> \in Online
    BY <2>1, <2>2 DEF Online, IsOnline, HasPlayer, Identity
  <2> QED
    BY <1>1, <2>3 DEF CInv, Spoken, Speaks, SpokenFor
<1> QED
  BY <1>1, AlwaysCInv, PTL

(* The registry's entry of a player names the connection that speaks for   *)
(* it and is read from, unless the player is one nobody tracks.            *)
THEOREM RegistryTellsTheTruth == ConnectionSpec => []RegistryIsCurrent
<1>1. CInv => RegistryIsCurrent
  BY DEF CInv
<1> QED
  BY <1>1, AlwaysCInv, PTL

(* A player whose connections never overlapped, and whom no other has sent *)
(* away, is registered with its connection and counts as connected,        *)
(* whatever the others do.                                                 *)
THEOREM UndisputedAreReachable == ConnectionSpec => []SoleConnectionReachable
<1>1. ASSUME CInv, ConnectionTypeOK
      PROVE  SoleConnectionReachable
  <2>1. SUFFICES ASSUME NEW c \in Threads, identity[c] \notin {NoOne} \cup contested, Serves(c)
                 PROVE  LET who == identity[c]
                        IN  HasPlayer(sessions[who[1]], who[2]) =>
                              /\ who \in DOMAIN connections /\ connections[who] = c
                              /\ sessions[who[1]].players[who[2]].connected
    BY DEF SoleConnectionReachable
  <2>2. Undisputed(identity[c]) /\ ~Forgets(c, identity[c])
    BY <1>1, <2>1, LinkDomains DEF Undisputed, Serves, Resting, Forgets
  <2>3. /\ identity[c] \in Online
        /\ identity[c] \in DOMAIN connections /\ connections[identity[c]] = c
    BY <1>1, <2>2 DEF CInv, Attached
  <2> QED
    BY <2>3 DEF Online, IsOnline
<1> QED
  BY <1>1, AlwaysCInv, PTL
=============================================================================
