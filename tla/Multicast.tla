------------------------------ MODULE Multicast ------------------------------
(***************************************************************************)
(* What the delivery of the server promises: a sender's broadcast goes to  *)
(* exactly those who are members when it is sent, its reply to itself      *)
(* alone, each of them once; and between every sender and every receiver   *)
(* is a channel that neither loses, repeats nor reorders.  Messages of     *)
(* different senders come in any order, another one at every receiver.     *)
(***************************************************************************)
EXTENDS Integers, Sequences

CONSTANTS Senders, Receivers

VARIABLES
  members,    \* the receivers whom broadcasts reach
  sent,       \* per sender, how many messages it has sent
  channel,    \* per sender and receiver, what is under way
  delivered   \* per receiver, what has arrived

multicastVars == <<members, sent, channel, delivered>>

MulticastInit ==
  /\ members = {}
  /\ sent = [s \in Senders |-> 0]
  /\ channel = [s \in Senders |-> [r \in Receivers |-> <<>>]]
  /\ delivered = [r \in Receivers |-> <<>>]

Enter(r) == members' = members \cup {r} /\ UNCHANGED <<sent, channel, delivered>>

Exit(r) == members' = members \ {r} /\ UNCHANGED <<sent, channel, delivered>>

(* The next message of s, to every one of "to" and to nobody else.         *)
Send(s, kind, to) ==
  LET m == [kind |-> kind, from |-> s, n |-> sent[s] + 1]
  IN  /\ sent' = [sent EXCEPT ![s] = @ + 1]
      /\ channel' = [channel EXCEPT ![s] =
                       [r \in Receivers |-> IF r \in to THEN Append(@[r], m) ELSE @[r]]]
      /\ UNCHANGED <<members, delivered>>

Broadcast(s) == Send(s, "event", members)

Reply(s) == Send(s, "reply", {s})

Deliver(s, r) ==
  /\ channel[s][r] # <<>>
  /\ delivered' = [delivered EXCEPT ![r] = Append(@, Head(channel[s][r]))]
  /\ channel' = [channel EXCEPT ![s][r] = Tail(@)]
  /\ UNCHANGED <<members, sent>>

MulticastNext ==
  \/ \E r \in Receivers : Enter(r) \/ Exit(r)
  \/ \E s \in Senders : Broadcast(s) \/ Reply(s)
  \/ \E s \in Senders, r \in Receivers : Deliver(s, r)

MulticastSpec == MulticastInit /\ [][MulticastNext]_multicastVars
=============================================================================
