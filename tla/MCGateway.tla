------------------------------ MODULE MCGateway ------------------------------
EXTENDS Gateway, TLC

CONSTANTS a1, a2, room1, room2, alice, bob, bot, hello, bye, origin

Blank ==
  [senderID |-> Unset, roomID |-> Unset, eventType |-> Unset,
   inReplyTo |-> Unset, bodyRegex |-> Unset, reactionKey |-> Unset,
   relatesToEventID |-> Unset, hasAttachment |-> Unset,
   minTimestamp |-> 0, maxTimestamp |-> 0, allOf |-> Unset, anyOf |-> Unset, not |-> Unset]

List(include, exclude) == [include |-> include, exclude |-> exclude]

\* filters as a client may send them
Everything == <<Blank>>
EitherOf   == <<[Blank EXCEPT !.senderID = List({bot, alice}, {}), !.roomID = List({room1}, {}),
                         !.anyOf = {2, 3, 4}, !.maxTimestamp = 2],
                [Blank EXCEPT !.hasAttachment = TRUE, !.inReplyTo = origin],
                [Blank EXCEPT !.relatesToEventID = origin, !.not = 5],
                [Blank EXCEPT !.reactionKey = hello],
                [Blank EXCEPT !.bodyRegex = {hello}]>>
AllOf      == <<[Blank EXCEPT !.allOf = {2, 3}, !.anyOf = {}],
                [Blank EXCEPT !.eventType = List({"message", "edit"}, {}),
                         !.minTimestamp = 2],
                [Blank EXCEPT !.not = 4],
                [Blank EXCEPT !.senderID = List({bob, alice}, {alice})]>>
Broken     == <<[Blank EXCEPT !.not = 2], [Blank EXCEPT !.bodyRegex = BadRegex]>>

Named(f) == IF f[1].roomID = Unset THEN {} ELSE f[1].roomID.include

Call(route, account, filter) ==
  [route |-> route, account |-> account, rooms |-> Named(filter), filter |-> filter]

ManyCalls ==
  {Call("send", a2, Everything)}
  \cup {Call("ask", a1, f) : f \in {EitherOf, Broken}}
  \cup {Call("receive", a1, f) : f \in {AllOf, Broken}}

\* everything and the default rate; one account, one room and a rate of its own
SomePermissions ==
  {[routes |-> {}, accounts |-> {}, rooms |-> {}, rps |-> 0],
   [routes |-> {"ask", "send"}, accounts |-> {a1}, rooms |-> {room2}, rps |-> 1]}

Event == [type |-> "message", account |-> a1, room |-> room1, sender |-> alice, body |-> hello,
          inReplyTo |-> Unset, reactionKey |-> Unset, relatesToEventID |-> Unset,
          hasAttachment |-> FALSE, timestamp |-> 1]

Reply    == [Event EXCEPT !.inReplyTo = origin, !.hasAttachment = TRUE]
Reaction == [Event EXCEPT !.type = "reaction", !.relatesToEventID = origin]

SomeEvents ==
  {Event, Reply,
   [Reply EXCEPT !.sender = bot],
   [Reply EXCEPT !.account = a2],
   [Reply EXCEPT !.body = bye, !.timestamp = 3],
   [Event EXCEPT !.sender = bob, !.hasAttachment = TRUE, !.timestamp = 2],
   [Reaction EXCEPT !.reactionKey = hello],
   [Reaction EXCEPT !.reactionKey = bye],
   [Event EXCEPT !.type = "edit", !.relatesToEventID = origin, !.body = bye],
   [Event EXCEPT !.type = "edit", !.relatesToEventID = origin, !.room = room2, !.timestamp = 2],
   [Event EXCEPT !.type = "redaction", !.relatesToEventID = origin],
   [Event EXCEPT !.type = "membership", !.sender = bot],
   [Event EXCEPT !.type = "receipt", !.sender = bob]}

Symmetry == Permutations(Operators)

People == {alice, bob, bot}

Bots == [a \in {a1, a2} |-> bot]
=============================================================================
