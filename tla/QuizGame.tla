------------------------------ MODULE QuizGame ------------------------------
(***************************************************************************)
(* The game as the host and the participants know it, without threads,     *)
(* clocks and events: a lobby people enter, questions everybody answers at *)
(* most once, standings that only answers change, and an end after which   *)
(* they change no more.                                                    *)
(***************************************************************************)
EXTENDS Integers, Sequences, FiniteSets

CONSTANTS
  People, MaxPeople,
  Totals,    \* how many questions a game may have
  Points     \* what an answer may earn

VARIABLE games   \* in the order they were opened

Fresh(host, total) ==
  [phase |-> "Lobby", question |-> 0, total |-> total,
   standing |-> [p \in {host} |-> 0], answered |-> {}]

GamesInit == games = <<>>

Open(host, total) == games' = Append(games, Fresh(host, total))

Becomes(g, game) == games' = [games EXCEPT ![g] = game]

Enter(g, p) ==
  LET game == games[g]
  IN  /\ game.phase = "Lobby"
      /\ p \notin DOMAIN game.standing
      /\ Cardinality(DOMAIN game.standing) < MaxPeople
      /\ Becomes(g, [game EXCEPT !.standing =
           [q \in DOMAIN game.standing \cup {p} |-> IF q = p THEN 0 ELSE game.standing[q]]])

(* People may go at any time, several at once if they were away too long.  *)
Go(g, ps) ==
  LET game == games[g]
  IN  Becomes(g, [game EXCEPT
        !.standing = [p \in DOMAIN game.standing \ ps |-> game.standing[p]],
        !.answered = @ \ ps])

Begin(g) ==
  /\ games[g].phase = "Lobby" /\ games[g].standing # <<>>
  /\ Becomes(g, [games[g] EXCEPT !.phase = "Running"])

AnswerQuestion(g, p, points) ==
  LET game == games[g]
  IN  /\ game.phase = "Running"
      /\ p \in DOMAIN game.standing \ game.answered
      /\ Becomes(g, [game EXCEPT !.standing[p] = @ + points,
                                 !.answered = @ \cup {p}])

(* On to the next question, or to the end after the last.                  *)
Advance(g) ==
  LET game == games[g]
  IN  /\ game.phase = "Running"
      /\ Becomes(g, [game EXCEPT !.question = @ + 1, !.answered = {},
                       !.phase = IF game.question + 1 = game.total THEN "Finished" ELSE @])

GamesNext ==
  \/ \E host \in People, total \in Totals : Open(host, total)
  \/ \E g \in DOMAIN games :
       \/ \E p \in People : Enter(g, p)
       \/ \E ps \in SUBSET People : Go(g, ps)
       \/ Begin(g)
       \/ \E p \in People, points \in Points : AnswerQuestion(g, p, points)
       \/ Advance(g)

GamesSpec == GamesInit /\ [][GamesNext]_games
=============================================================================
