---------------------------- MODULE Connections ----------------------------
(***************************************************************************)
(* The WebSocket connections to one run: ConnectionManager in              *)
(* backend/routes/websocket_routes.py and the broadcasts that the drive    *)
(* and the request handlers make through it.                               *)
(*                                                                         *)
(* The registry maps the run to a set object, which a broadcast goes       *)
(* through while it awaits each send; the set can change under it, or be   *)
(* replaced by another one.  A set that has changed its size when the next *)
(* element is asked for ends the broadcast with an exception, which the    *)
(* executor drops.                                                         *)
(***************************************************************************)
EXTENDS Naturals, FiniteSets

CONSTANTS Clients,       \* connections ever made to the run
          Senders,       \* the coroutines that broadcast
          MaxBroadcasts, \* bound on the messages of a sender
          MaxObjects     \* bound on the set objects made for the run

VARIABLES key,     \* the set object registered for the run, 0 when there is none
          objects, \* the connections in each set object
          handler, \* the handlers of the connections: "off", "on", "gone"
          alive,   \* the connections whose transport still works
          cast,    \* the broadcast each sender is in
          steady,  \* the connections that were there all along, by sender
          got,     \* the broadcasts a connection has received
          count,   \* broadcasts each sender has begun
          broken   \* a broadcast met no set when it removed dead connections

vars == <<key, objects, handler, alive, cast, steady, got, count, broken>>

NoCast == [pc |-> "idle"]
Members == IF key = 0 THEN {} ELSE objects[key]
Message(b) == <<b, count[b]>>

Leaves(c) == steady' = [b \in Senders |-> steady[b] \ {c}]

\* A connection that always gets a new set for its run.
ConnectAfresh(c) ==
    /\ handler[c] = "off" /\ handler' = [handler EXCEPT ![c] = "on"]
    /\ alive' = alive \cup {c}
    /\ Cardinality(DOMAIN objects) < MaxObjects
    /\ LET new == Cardinality(DOMAIN objects) + 1
       IN  /\ key' = new
           /\ objects' = [o \in 1..new |-> IF o = new THEN {c} ELSE objects[o]]
    /\ UNCHANGED <<cast, steady, got, count, broken>>

\* connect, after the connection has been accepted
Connect(c) ==
    /\ handler[c] = "off" /\ handler' = [handler EXCEPT ![c] = "on"]
    /\ alive' = alive \cup {c}
    /\ \/ /\ key # 0 /\ UNCHANGED key
          /\ objects' = [objects EXCEPT ![key] = @ \cup {c}]
       \/ LET new == Cardinality(DOMAIN objects) + 1
          IN  /\ key = 0 /\ new <= MaxObjects /\ key' = new
              /\ objects' = [o \in 1..new |-> IF o = new THEN {c} ELSE objects[o]]
    /\ UNCHANGED <<cast, steady, got, count, broken>>

\* The transport breaks; the handler will find out.
Break(c) ==
    /\ c \in alive /\ alive' = alive \ {c}
    /\ Leaves(c)
    /\ UNCHANGED <<key, objects, handler, cast, got, count, broken>>

\* disconnect, when the handler ends
Disconnect(c) ==
    /\ handler[c] = "on" /\ handler' = [handler EXCEPT ![c] = "gone"]
    /\ alive' = alive \ {c} /\ Leaves(c)
    /\ objects' = IF key = 0 THEN objects ELSE [objects EXCEPT ![key] = @ \ {c}]
    /\ key' = IF key # 0 /\ objects[key] \subseteq {c} THEN 0 ELSE key
    /\ UNCHANGED <<cast, got, count, broken>>

\* broadcast_workflow_status: the set object is looked up once.
Begin(b) ==
    /\ cast[b] = NoCast /\ count[b] < MaxBroadcasts
    /\ count' = [count EXCEPT ![b] = @ + 1]
    /\ steady' = [steady EXCEPT ![b] = {c \in alive : handler[c] = "on"}]
    /\ cast' = [cast EXCEPT ![b] = [pc |-> IF key = 0 THEN "end" ELSE "next", object |-> key,
                                    began |-> Members, visited |-> {}, dead |-> {},
                                    to |-> {}, exchanged |-> FALSE]]
    /\ UNCHANGED <<key, objects, handler, alive, got, broken>>

\* The set asked for its next element has another size than it had.
Raise(b) ==
    /\ cast[b].pc = "next"
    /\ Cardinality(objects[cast[b].object]) # Cardinality(cast[b].began)
    /\ cast' = [cast EXCEPT ![b] = NoCast]
    /\ UNCHANGED <<key, objects, handler, alive, steady, got, count, broken>>

\* The next element; the order is the set's.
Pick(b) ==
    LET object == objects[cast[b].object]
    IN  /\ cast[b].pc = "next" /\ Cardinality(object) = Cardinality(cast[b].began)
        /\ \E c \in object \ cast[b].visited :
               cast' = [cast EXCEPT ![b].pc = "send", ![b].visited = @ \cup {c}, ![b].to = {c}]
        /\ UNCHANGED <<key, objects, handler, alive, steady, got, count, broken>>

\* The send returns, or raises on a connection that is gone.
Send(b) ==
    /\ cast[b].pc = "send"
    /\ \E c \in cast[b].to :
           \/ /\ c \in alive /\ got' = [got EXCEPT ![c] = @ \cup {Message(b)}]
              /\ cast' = [cast EXCEPT ![b].pc = "next"]
           \/ /\ c \notin alive /\ UNCHANGED got
              /\ cast' = [cast EXCEPT ![b].pc = "next", ![b].dead = @ \cup {c}]
    /\ UNCHANGED <<key, objects, handler, alive, steady, count, broken>>

\* The set has no more elements; a set whose elements were exchanged may come to
\* its end before it has given all.  The dead connections are removed from the set
\* that is registered now.
Finish(b) ==
    LET object == objects[cast[b].object]
    IN  /\ cast[b].pc = "next" /\ Cardinality(object) = Cardinality(cast[b].began)
        /\ object \subseteq cast[b].visited \/ object # cast[b].began
        /\ cast' = [cast EXCEPT ![b].pc = "end", ![b].exchanged = object # cast[b].began]
        /\ objects' = IF cast[b].dead = {} \/ key = 0 THEN objects
                      ELSE [objects EXCEPT ![key] = @ \ cast[b].dead]
        /\ broken' = (broken \/ (cast[b].dead # {} /\ key = 0))
        /\ UNCHANGED <<key, handler, alive, steady, got, count>>

\* The broadcast returns to the executor.
End(b) ==
    /\ cast[b].pc = "end" /\ cast' = [cast EXCEPT ![b] = NoCast]
    /\ UNCHANGED <<key, objects, handler, alive, steady, got, count, broken>>

Init ==
    /\ key = 0 /\ objects = << >>
    /\ handler = [c \in Clients |-> "off"] /\ alive = {}
    /\ cast = [b \in Senders |-> NoCast]
    /\ steady = [b \in Senders |-> {}]
    /\ got = [c \in Clients |-> {}]
    /\ count = [b \in Senders |-> 0]
    /\ broken = FALSE

Next ==
    \/ \E c \in Clients : Connect(c) \/ Break(c) \/ Disconnect(c)
    \/ \E b \in Senders : Begin(b) \/ Raise(b) \/ Pick(b) \/ Send(b) \/ Finish(b) \/ End(b)

Spec == Init /\ [][Next]_vars

-----------------------------------------------------------------------------
(* Properties. *)

\* A broadcast that comes to its end has reached every connection that worked
\* from before it began, unless connections were exchanged while it went on; and
\* the removal of dead connections always finds the set of the run, although the
\* last connection may leave during a send (broadcast_workflow_status, disconnect).
BroadcastsReach ==
    /\ ~broken
    /\ \A b \in Senders :
           cast[b].pc = "end" =>
               cast[b].exchanged \/ \A c \in steady[b] : Message(b) \in got[c]

=============================================================================
