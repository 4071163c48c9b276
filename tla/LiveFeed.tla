------------------------------ MODULE LiveFeed ------------------------------
(***************************************************************************)
(* backend/ws_manager.py and the /ws endpoint: the dashboards of one       *)
(* workspace, the list object its room holds, the replay a new socket is   *)
(* sent and the broadcasts that walk the live list with an await per send. *)
(***************************************************************************)
EXTENDS Naturals, FiniteSets, Sequences, SequencesExt

CONSTANTS
    Sockets,    \* the connections the browsers open
    Events,     \* the log events that are stored and then broadcast
    MaxLists    \* list objects at a time: the room's and one per broadcast

ASSUME FeedAssumption ==
    /\ IsFiniteSet(Sockets) /\ IsFiniteSet(Events)
    /\ MaxLists \in Nat /\ MaxLists > Cardinality(Events)

VARIABLES
    saved,      \* the events timeline of the store
    lists,      \* list object -> its sockets, in order
    room,       \* the list object _connections holds, or 0
    sock,       \* socket -> the state of its endpoint
    cast,       \* event -> the state of the handler that ingests it
    alive,      \* sockets whose browser is still there
    left        \* history: events whose broadcast a socket left in the middle

feedVars == <<saved, lists, room, sock, cast, alive, left>>

Idle == [at |-> "idle", list |-> 0, i |-> 1, to |-> {}, dead |-> {}]

FeedInit ==
    /\ saved = <<>>
    /\ lists = [n \in 1..MaxLists |-> <<>>]
    /\ room = 0
    /\ sock = [s \in Sockets |-> [at |-> "new", replay |-> <<>>, seen |-> {}, live |-> <<>>]]
    /\ cast = [e \in Events |-> Idle]
    /\ alive = Sockets
    /\ left = {}

Members == IF room = 0 THEN <<>> ELSE lists[room]
Fresh == CHOOSE n \in 1..MaxLists : n # room /\ \A e \in Events : cast[e].list # n

\* setdefault(wid, []).append(ws).
Joined(s) ==
    IF room # 0 THEN /\ lists' = [lists EXCEPT ![room] = Append(@, s)]
                     /\ room' = room
                ELSE /\ lists' = [lists EXCEPT ![Fresh] = <<s>>]
                     /\ room' = Fresh

\* list.remove() of every socket of D: the others, in the order they had.
Without(list, D) ==
    {others \in SeqOf(ToSet(list) \ D, Len(list)) :
        /\ ToSet(others) = ToSet(list) \ D
        /\ \A i, j \in DOMAIN others : i < j =>
              \E k, l \in DOMAIN list : k < l /\ list[k] = others[i] /\ list[l] = others[j]}

\* disconnect() of every socket of D: what is left of the list, and the room,
\* which is deleted with its last socket.  The broadcasts of amid are under way.
Left(D, amid) ==
    \E others \in Without(Members, D) :
        /\ lists' = IF room = 0 THEN lists ELSE [lists EXCEPT ![room] = others]
        /\ room' = IF others = <<>> THEN 0 ELSE room
        /\ left' = left \cup {e \in amid : cast[e].list = room /\ D \cap ToSet(Members) # {}}

Amid == {e \in Events : cast[e].at \in {"walking", "sending"}}

At(s, where) == sock[s].at = where
Goto(s, where) == sock' = [sock EXCEPT ![s].at = where]
\* What a socket was sent goes with its dashboard.
Ended(s, how) == sock' = [sock EXCEPT ![s] = [at |-> how, replay |-> <<>>, seen |-> {}, live |-> <<>>]]

-----------------------------------------------------------------------------
\* websocket_endpoint()

\* manager.connect(): the ticket or the session was accepted.
Connect(s) ==
    /\ At(s, "new")
    /\ Joined(s)
    /\ Goto(s, "joined")
    /\ UNCHANGED <<saved, cast, alive, left>>

\* Mutant: the replay is read before the socket joins the room.
ReadBeforeJoining(s) ==
    \/ /\ At(s, "joined")
       /\ Goto(s, "replaying")
       /\ UNCHANGED <<saved, lists, room, cast, alive, left>>
    \/ /\ At(s, "new")
       /\ sock[s].replay = <<>>
       /\ saved # <<>>
       /\ sock' = [sock EXCEPT ![s].replay = saved]
       /\ UNCHANGED <<saved, lists, room, cast, alive, left>>
\* get_recent_events(): the last events of the store, oldest first.
ReadRecent(s) ==
    /\ At(s, "joined")
    /\ sock' = [sock EXCEPT ![s].at = "replaying", ![s].replay = saved]
    /\ UNCHANGED <<saved, lists, room, cast, alive, left>>

Replay(s) ==
    /\ At(s, "replaying")
    /\ s \in alive
    /\ IF sock[s].replay = <<>>
       THEN Goto(s, "open")
       ELSE sock' = [sock EXCEPT ![s].replay = Tail(@), ![s].seen = @ \cup {Head(sock[s].replay)}]
    /\ UNCHANGED <<saved, lists, room, cast, alive, left>>

\* WebSocketDisconnect, from the receive loop or from a replayed event.
Notice(s) ==
    /\ sock[s].at \in {"replaying", "open"}
    /\ s \notin alive
    /\ Left({s}, Amid)
    /\ Ended(s, "closed")
    /\ UNCHANGED <<saved, cast, alive>>

\* Any other exception (the store does not answer, a send to a closed socket)
\* ends the endpoint without a disconnect().
EndpointFails(s) ==
    /\ \/ At(s, "joined")
       \/ At(s, "replaying") /\ s \notin alive
    /\ Ended(s, "failed")
    /\ alive' = alive \ {s}
    /\ UNCHANGED <<saved, lists, room, cast, left>>

\* The browser goes away.
Hangup(s) ==
    /\ s \in alive
    /\ ~At(s, "new")
    /\ alive' = alive \ {s}
    /\ UNCHANGED <<saved, lists, room, sock, cast, left>>

-----------------------------------------------------------------------------
\* ingest(): save_event(), then broadcast("log.event").

Save(e) ==
    /\ cast[e].at = "idle"
    /\ saved' = Append(saved, e)
    /\ cast' = [cast EXCEPT ![e].at = "saved"]
    /\ UNCHANGED <<lists, room, sock, alive, left>>

\* targets is the list object itself, or a fresh one when there is no room.
Broadcast(e) ==
    /\ cast[e].at = "saved"
    /\ cast' = [cast EXCEPT ![e].at = "walking", ![e].list = room]
    /\ UNCHANGED <<saved, lists, room, sock, alive, left>>

Targets(e) == IF cast[e].list = 0 THEN <<>> ELSE lists[cast[e].list]

\* The next element of the list as it is now; send_text() awaits.
Pick(e) ==
    /\ cast[e].at = "walking"
    /\ cast[e].i <= Len(Targets(e))
    /\ cast' = [cast EXCEPT ![e].at = "sending", ![e].i = @ + 1, ![e].to = {Targets(e)[cast[e].i]}]
    /\ UNCHANGED <<saved, lists, room, sock, alive, left>>

\* A send to a browser that is gone raises, or nobody notices.
Sent(e) ==
    /\ cast[e].at = "sending"
    /\ \E s \in cast[e].to :
          \/ /\ s \in alive
             /\ sock' = [sock EXCEPT ![s].live = Append(@, e)]
             /\ cast' = [cast EXCEPT ![e].at = "walking", ![e].to = {}]
          \/ /\ s \notin alive
             /\ cast' = [cast EXCEPT ![e].at = "walking", ![e].to = {}, ![e].dead = @ \cup {s}]
             /\ sock' = sock
          \/ /\ s \notin alive
             /\ ~At(s, "failed")
             /\ cast' = [cast EXCEPT ![e].at = "walking", ![e].to = {}]
             /\ sock' = sock
    /\ UNCHANGED <<saved, lists, room, alive, left>>

\* The dead sockets are disconnected after the walk.
Finish(e) ==
    /\ cast[e].at = "walking"
    /\ cast[e].i > Len(Targets(e))
    /\ Left(cast[e].dead, Amid \ {e})
    /\ cast' = [cast EXCEPT ![e] = [Idle EXCEPT !.at = "done"]]
    /\ UNCHANGED <<saved, sock, alive>>

FeedNext ==
    \/ \E s \in Sockets : \/ Connect(s) \/ ReadRecent(s) \/ Replay(s) \/ Notice(s)
                          \/ EndpointFails(s) \/ Hangup(s)
    \/ \E e \in Events : Save(e) \/ Broadcast(e) \/ Pick(e) \/ Sent(e) \/ Finish(e)

FeedSpec == FeedInit /\ [][FeedNext]_feedVars

-----------------------------------------------------------------------------
\* The handlers' and the endpoints' states.
FeedTypeOK ==
    /\ ToSet(saved) \subseteq Events
    /\ \A n \in 1..MaxLists : ToSet(lists[n]) \subseteq Sockets
    /\ room \in 0..MaxLists
    /\ \A s \in Sockets : /\ sock[s].at \in {"new", "joined", "replaying", "open", "closed", "failed"}
                          /\ sock[s].seen \cup ToSet(sock[s].live) \subseteq Events
    /\ \A e \in Events : /\ cast[e].at \in {"idle", "saved", "walking", "sending", "done"}
                         /\ cast[e].i \in 1..(Cardinality(Sockets) + 1)
    /\ alive \subseteq Sockets

\* A dashboard that has caught up has every event that was broadcast, in the
\* replay or live: the socket joins the room before the store is read and an
\* event is stored before it is broadcast.  The walk over the live list loses
\* one only when another socket leaves in the middle of it (ws_manager.py,
\* broadcast(); server.py, websocket_endpoint()).
NoEventLost ==
    \A s \in alive, e \in Events :
        At(s, "open") /\ cast[e].at = "done" /\ e \notin left
            => e \in sock[s].seen \cup ToSet(sock[s].live)

\* Sockets that join and leave while a broadcast awaits never make it send a
\* dashboard the same message twice (ws_manager.py, broadcast() iterates the
\* list that connect() and disconnect() change).
SentOnce == \A s \in Sockets : IsInjective(sock[s].live)

\* Whatever rooms were deleted and made again in between, the room holds every
\* socket whose endpoint runs for a browser that is there, and none whose
\* endpoint noticed that it left (ws_manager.py, connect() and disconnect()).
RoomIsLive ==
    \A s \in Sockets :
        /\ s \in alive /\ sock[s].at \in {"joined", "replaying", "open"} => s \in ToSet(Members)
        /\ At(s, "closed") => s \notin ToSet(Members)

\* What a dashboard makes of a broadcast, whoever joins and leaves around it:
\* each event once, in a room that is neither lost nor haunted (ws_manager.py
\* and the /ws endpoint).
EventsOnce == NoEventLost /\ SentOnce /\ RoomIsLive

=============================================================================
