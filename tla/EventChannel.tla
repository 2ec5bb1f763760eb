---------------------------- MODULE EventChannel ----------------------------
(***************************************************************************)
(* What the event bus promises of one subscription, said without locks and *)
(* publishers: a bounded FIFO that loses an event only when it is full,    *)
(* takes none once closed, and hands the events it took to the handler one *)
(* at a time, those it still holds when it is closed included.             *)
(***************************************************************************)
EXTENDS Naturals, Sequences

CONSTANTS Subs,      \* subscriptions
          Events,    \* envelopes
          NoEvent,   \* no envelope
          Capacity   \* events a subscription's channel holds

VARIABLES phase,    \* phase[s]: "unmade", "open" or "closed"
          queue,    \* queue[s]: events in the channel
          handling  \* handling[s]: the event its handler runs on, or NoEvent

channels == <<phase, queue, handling>>

ChannelsInit ==
  /\ phase = [s \in Subs |-> "unmade"]
  /\ queue = [s \in Subs |-> <<>>]
  /\ handling = [s \in Subs |-> NoEvent]

Open(s) ==
  /\ phase[s] = "unmade"
  /\ phase' = [phase EXCEPT ![s] = "open"]
  /\ UNCHANGED <<queue, handling>>

\* a send that does not block: a full channel drops the event
Offer(s, e) ==
  /\ phase[s] = "open"
  /\ queue' = [queue EXCEPT ![s] = IF Len(@) < Capacity THEN Append(@, e) ELSE @]
  /\ UNCHANGED <<phase, handling>>

\* an event goes to the handler, which is called again only when it returned
Take(s) ==
  /\ handling[s] = NoEvent
  /\ queue[s] # <<>>
  /\ handling' = [handling EXCEPT ![s] = Head(queue[s])]
  /\ queue' = [queue EXCEPT ![s] = Tail(@)]
  /\ UNCHANGED phase

\* the handler returned or its panic was recovered
Return(s) ==
  /\ handling[s] # NoEvent
  /\ handling' = [handling EXCEPT ![s] = NoEvent]
  /\ UNCHANGED <<phase, queue>>

Close(s) ==
  /\ phase[s] = "open"
  /\ phase' = [phase EXCEPT ![s] = "closed"]
  /\ UNCHANGED <<queue, handling>>

ChannelStep(s) ==
  \/ Open(s) \/ Take(s) \/ Return(s) \/ Close(s)
  \/ \E e \in Events : Offer(s, e)

ChannelsSpec == ChannelsInit /\ [][\E s \in Subs : ChannelStep(s)]_channels
=============================================================================
