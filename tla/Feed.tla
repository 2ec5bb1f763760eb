-------------------------------- MODULE Feed --------------------------------
(***************************************************************************)
(* What the sync loop of an account promises to those who listen on the    *)
(* bus, said without tokens in memory, responses, cache or cancellation:   *)
(* the items of a stream are handed out, each at least once or given up    *)
(* before the position is past it, and the position is never taken back.   *)
(* Within a session, the life of one process, none comes twice, and a      *)
(* room's items come in order, except that some may come late.             *)
(***************************************************************************)
EXTENDS Naturals, Sequences

CONSTANTS Count,      \* items; an item is its place in the stream
          RoomOf,
          Late,       \* the items that may come after later ones
          Wanted      \* the items that are of interest to anybody

VARIABLES position,   \* where the next process goes on, at worst
          handed,     \* items handed out at least once
          givenUp,    \* items that cannot be had
          session     \* items handed out since the process started

feed == <<position, handed, givenUp, session>>

FeedInit == position = 0 /\ handed = {} /\ givenUp = {} /\ session = <<>>

Follows(e) ==
  \A i \in 1 .. Len(session) :
    /\ session[i] # e
    /\ e \notin Late /\ RoomOf[session[i]] = RoomOf[e] => session[i] < e

HandOut(e) ==
  /\ Follows(e)
  /\ handed' = handed \cup {e}
  /\ session' = Append(session, e)
  /\ UNCHANGED <<position, givenUp>>

GiveUp(items) ==
  /\ givenUp' = givenUp \cup items
  /\ UNCHANGED <<position, handed, session>>

Settled(e) == e \in handed \cup givenUp

MoveTo(n) ==
  /\ position <= n
  /\ \A e \in Wanted : e <= n => Settled(e)
  /\ position' = n
  /\ UNCHANGED <<handed, givenUp, session>>

NewSession ==
  /\ session' = <<>>
  /\ UNCHANGED <<position, handed, givenUp>>

FeedNext ==
  \/ \E e \in 1 .. Count : HandOut(e)
  \/ \E items \in SUBSET (1 .. Count) : GiveUp(items)
  \/ \E n \in 0 .. Count : MoveTo(n)
  \/ NewSession

FeedSpec == FeedInit /\ [][FeedNext]_feed
=============================================================================
