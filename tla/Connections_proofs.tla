------------------------- MODULE Connections_proofs -------------------------
(* A broadcast reaches the connections that were there all along, for any       *)
(* number of connections, senders and broadcasts.                               *)
EXTENDS Connections, FiniteSetTheorems, TLAPS

Casting == [pc: {"next", "send", "end"}, object: Nat, began: SUBSET Clients,
            visited: SUBSET Clients, dead: SUBSET Clients, to: SUBSET Clients,
            exchanged: BOOLEAN]

TypeInv ==
    /\ key \in Nat
    /\ \E n \in Nat : objects \in [1..n -> SUBSET Clients]
    /\ handler \in [Clients -> {"off", "on", "gone"}]
    /\ alive \in SUBSET Clients
    /\ cast \in [Senders -> Casting \cup {NoCast}]
    /\ steady \in [Senders -> SUBSET Clients]
    /\ got \in [Clients -> SUBSET (Senders \X Nat)]
    /\ count \in [Senders -> Nat]
    /\ broken \in BOOLEAN

\* Connections are in the registered set object and in no other; those that still
\* work are all there.
RegistryInv ==
    /\ key # 0 => key \in DOMAIN objects
    /\ \A o \in DOMAIN objects :
           /\ IsFiniteSet(objects[o])
           /\ o # key => objects[o] = {}
           /\ \A c \in objects[o] : handler[c] # "off"
    /\ \A c \in alive : handler[c] # "off"
                        /\ (handler[c] = "on" => key # 0 /\ c \in objects[key])

\* What a broadcast knows of the connections: those it has found dead stay dead, and
\* every other one it has visited has the message or is getting it.
CastInv(b) ==
    /\ steady[b] \subseteq alive
    /\ cast[b].pc \in {"next", "send"} =>
           /\ cast[b].object \in DOMAIN objects
           /\ steady[b] \subseteq cast[b].began
           /\ IsFiniteSet(cast[b].began)
           /\ cast[b].visited # {} => cast[b].began # {}
           /\ cast[b].to \subseteq cast[b].visited
           /\ \A x, y \in cast[b].to : x = y
           /\ cast[b].dead \subseteq cast[b].visited \ alive
           /\ \A c \in cast[b].visited :
                  /\ handler[c] # "off"
                  /\ \/ c \in cast[b].dead
                     \/ Message(b) \in got[c]
                     \/ cast[b].pc = "send" /\ c \in cast[b].to
    /\ cast[b].pc = "end" =>
           cast[b].exchanged \/ \A c \in steady[b] : Message(b) \in got[c]

ReachInv == RegistryInv /\ ~broken /\ \A b \in Senders : CastInv(b)

-----------------------------------------------------------------------------
(* The set objects: a new one has a number of its own. *)

LEMMA NewObject ==
    ASSUME NEW n \in Nat, objects \in [1..n -> SUBSET Clients]
    PROVE  DOMAIN objects = 1..n /\ Cardinality(DOMAIN objects) = n
  BY FS_Interval

\* What a connection does to the set objects.
LEMMA Connected ==
    ASSUME TypeInv, RegistryInv, NEW c \in Clients, Connect(c)
    PROVE  /\ \E n \in Nat : objects' \in [1..n -> SUBSET Clients]
           /\ key' \in DOMAIN objects' /\ key' # 0 /\ key' \in Nat
           /\ objects'[key'] = Members \cup {c}
           /\ DOMAIN objects \subseteq DOMAIN objects'
           /\ \A o \in DOMAIN objects' \ {key'} : o \in DOMAIN objects /\ o # key /\ objects'[o] = objects[o]
           /\ key # 0 => key' = key
  <1>1. PICK n \in Nat : objects \in [1..n -> SUBSET Clients]
    BY DEF TypeInv
  <1>2. DOMAIN objects = 1..n /\ Cardinality(DOMAIN objects) = n
    BY <1>1, NewObject
  <1>3. CASE key # 0 /\ key' = key /\ objects' = [objects EXCEPT ![key] = @ \cup {c}]
    <2>1. key \in 1..n /\ objects' \in [1..n -> SUBSET Clients]
      BY <1>1, <1>2, <1>3 DEF RegistryInv
    <2>2. QED
      BY <1>1, <1>2, <1>3, <2>1 DEF Members
  <1>4. CASE /\ key = 0 /\ key' = n + 1
             /\ objects' = [o \in 1..(n+1) |-> IF o = n + 1 THEN {c} ELSE objects[o]]
    <2>1. objects' \in [1..(n+1) -> SUBSET Clients]
      BY <1>1, <1>4
    <2>2. QED
      BY <1>1, <1>2, <1>4, <2>1 DEF Members
  <1>5. QED
    BY <1>2, <1>3, <1>4 DEF Connect

-----------------------------------------------------------------------------
(* Types. *)

LEMMA TypeOfStep == TypeInv /\ ReachInv /\ [Next]_vars => TypeInv'
  <1>. SUFFICES ASSUME TypeInv, ReachInv, [Next]_vars PROVE TypeInv'
    OBVIOUS
  <1>. USE DEF ReachInv
  <1>0. PICK n \in Nat : objects \in [1..n -> SUBSET Clients]
    BY DEF TypeInv
  <1>1. ASSUME NEW c \in Clients, Connect(c) PROVE TypeInv'
    BY <1>1, Connected DEF Connect, TypeInv
  <1>2. ASSUME NEW c \in Clients, Break(c) \/ Disconnect(c) PROVE TypeInv'
    <2>1. objects' \in [1..n -> SUBSET Clients]
      BY <1>0, <1>2 DEF Break, Disconnect
    <2>2. steady' \in [Senders -> SUBSET Clients]
      BY <1>2 DEF Break, Disconnect, Leaves, TypeInv
    <2>3. /\ key' = key \/ key' = 0
          /\ handler' = handler \/ handler' = [handler EXCEPT ![c] = "gone"]
          /\ alive' = alive \ {c}
      BY <1>2 DEF Break, Disconnect
    <2>4. key' \in Nat /\ handler' \in [Clients -> {"off", "on", "gone"}] /\ alive' \in SUBSET Clients
      BY <2>3 DEF TypeInv
    <2>5. UNCHANGED <<cast, got, count, broken>>
      BY <1>2 DEF Break, Disconnect
    <2>. QED
      BY <2>1, <2>2, <2>4, <2>5 DEF TypeInv
  <1>3. ASSUME NEW b \in Senders, Begin(b) PROVE TypeInv'
    <2>1. Members \in SUBSET Clients
      BY <1>0 DEF Members, RegistryInv
    <2>2. cast' \in [Senders -> Casting \cup {NoCast}]
      BY <1>3, <2>1 DEF Begin, Casting, TypeInv
    <2>3. /\ count' \in [Senders -> Nat] /\ steady' \in [Senders -> SUBSET Clients]
          /\ UNCHANGED <<key, objects, handler, alive, got, broken>>
      BY <1>3 DEF Begin, TypeInv
    <2>4. QED
      BY <2>2, <2>3 DEF TypeInv
  <1>4. ASSUME NEW b \in Senders, Raise(b) \/ End(b) PROVE TypeInv'
    BY <1>4 DEF Raise, End, TypeInv
  <1>5. ASSUME NEW b \in Senders, Pick(b) PROVE TypeInv'
    <2>1. cast[b] \in Casting /\ objects[cast[b].object] \subseteq Clients
      BY <1>0, <1>5 DEF Pick, TypeInv, NoCast, CastInv
    <2>2. PICK c \in Clients :
             cast' = [cast EXCEPT ![b].pc = "send", ![b].visited = @ \cup {c}, ![b].to = {c}]
      BY <1>5, <2>1 DEF Pick
    <2>3. [cast[b] EXCEPT !.pc = "send", !.visited = @ \cup {c}, !.to = {c}] \in Casting
      BY <2>1 DEF Casting
    <2>4. cast' \in [Senders -> Casting \cup {NoCast}]
      BY <2>2, <2>3 DEF TypeInv
    <2>5. QED
      BY <1>5, <2>4 DEF Pick, TypeInv
  <1>6. ASSUME NEW b \in Senders, Send(b) PROVE TypeInv'
    <2>1. cast[b] \in Casting
      BY <1>6 DEF Send, TypeInv, NoCast
    <2>2. PICK c \in Clients :
             \/ /\ got' = [got EXCEPT ![c] = @ \cup {Message(b)}]
                /\ cast' = [cast EXCEPT ![b].pc = "next"]
             \/ /\ UNCHANGED got
                /\ cast' = [cast EXCEPT ![b].pc = "next", ![b].dead = @ \cup {c}]
      BY <1>6, <2>1 DEF Send, Casting
    <2>3. /\ [cast[b] EXCEPT !.pc = "next"] \in Casting
          /\ [cast[b] EXCEPT !.pc = "next", !.dead = @ \cup {c}] \in Casting
      BY <2>1 DEF Casting
    <2>4. cast' \in [Senders -> Casting \cup {NoCast}]
      BY <2>2, <2>3 DEF TypeInv
    <2>5. got' \in [Clients -> SUBSET (Senders \X Nat)]
      <3>1. Message(b) \in Senders \X Nat
        BY DEF Message, TypeInv
      <3>2. got[c] \cup {Message(b)} \in SUBSET (Senders \X Nat)
        BY <3>1 DEF TypeInv
      <3>3. QED
        BY <2>2, <3>2, ZenonT(90) DEF TypeInv
    <2>6. QED
      BY <1>6, <2>4, <2>5 DEF Send, TypeInv
  <1>7. ASSUME NEW b \in Senders, Finish(b) PROVE TypeInv'
    <2>1. cast[b] \in Casting
      BY <1>7 DEF Finish, TypeInv, NoCast
    <2>2. cast' \in [Senders -> Casting \cup {NoCast}]
      <3>1. \A x \in BOOLEAN : [cast[b] EXCEPT !.pc = "end", !.exchanged = x] \in Casting
        BY <2>1 DEF Casting
      <3>2. PICK x \in BOOLEAN : cast' = [cast EXCEPT ![b].pc = "end", ![b].exchanged = x]
        BY <1>7 DEF Finish
      <3>3. QED
        BY <3>1, <3>2 DEF TypeInv
    <2>3. objects' \in [1..n -> SUBSET Clients]
      BY <1>0, <1>7 DEF Finish
    <2>4. broken' \in BOOLEAN
      <3>1. PICK x \in BOOLEAN : broken' = (broken \/ x)
        BY <1>7 DEF Finish
      <3>2. QED
        BY <3>1 DEF TypeInv
    <2>5. QED
      BY <1>7, <2>2, <2>3, <2>4 DEF Finish, TypeInv
  <1>8. CASE UNCHANGED vars
    BY <1>8 DEF vars, TypeInv
  <1>9. QED
    BY <1>1, <1>2, <1>3, <1>4, <1>5, <1>6, <1>7, <1>8 DEF Next

-----------------------------------------------------------------------------
(* The registry. *)

LEMMA RegistryOfConnect ==
    ASSUME TypeInv, RegistryInv, NEW c \in Clients, Connect(c)
    PROVE  RegistryInv'
  <1>1. Members \in SUBSET Clients /\ IsFiniteSet(Members) /\ \A x \in Members : handler[x] # "off"
    BY FS_EmptySet DEF TypeInv, RegistryInv, Members
  <1>2. IsFiniteSet(Members \cup {c})
    BY <1>1, FS_AddElement
  <1>3. handler' = [handler EXCEPT ![c] = "on"] /\ alive' = alive \cup {c}
    BY DEF Connect
  <1>4. ASSUME NEW o \in DOMAIN objects'
        PROVE  /\ IsFiniteSet(objects'[o])
               /\ o # key' => objects'[o] = {}
               /\ \A x \in objects'[o] : handler'[x] # "off"
    BY <1>1, <1>2, <1>3, Connected, ZenonT(90) DEF TypeInv, RegistryInv
  <1>5. ASSUME NEW x \in alive'
        PROVE  handler'[x] # "off" /\ (handler'[x] = "on" => key' # 0 /\ x \in objects'[key'])
    BY <1>3, Connected, ZenonT(90) DEF TypeInv, RegistryInv, Members
  <1>6. key' \in DOMAIN objects'
    BY Connected
  <1>7. QED
    BY <1>4, <1>5, <1>6 DEF RegistryInv

LEMMA RegistryOfLoss ==
    ASSUME TypeInv, RegistryInv, NEW c \in Clients, Break(c) \/ Disconnect(c)
    PROVE  RegistryInv'
  <1>0. PICK n \in Nat : objects \in [1..n -> SUBSET Clients]
    BY DEF TypeInv
  <1>1. CASE Break(c)
    BY <1>1 DEF Break, RegistryInv
  <1>2. CASE Disconnect(c)
    <2>1. handler' = [handler EXCEPT ![c] = "gone"] /\ alive' = alive \ {c}
      BY <1>2 DEF Disconnect
    <2>2. CASE key = 0
      BY <1>2, <2>1, <2>2 DEF Disconnect, RegistryInv, TypeInv
    <2>3. CASE key # 0
      <3>1. key \in 1..n /\ objects' = [objects EXCEPT ![key] = @ \ {c}]
        BY <1>0, <1>2, <2>3 DEF Disconnect, RegistryInv
      <3>2. IsFiniteSet(objects[key] \ {c})
        BY <1>0, <3>1, FS_RemoveElement DEF RegistryInv
      <3>3. key' = IF objects[key] \subseteq {c} THEN 0 ELSE key
        BY <1>2, <2>3 DEF Disconnect
      <3>4. ASSUME NEW o \in DOMAIN objects'
            PROVE  /\ IsFiniteSet(objects'[o])
                   /\ o # key' => objects'[o] = {}
                   /\ \A x \in objects'[o] : handler'[x] # "off"
        BY <1>0, <2>1, <3>1, <3>2, <3>3 DEF RegistryInv, TypeInv
      <3>5. ASSUME NEW x \in alive'
            PROVE  handler'[x] # "off" /\ (handler'[x] = "on" => key' # 0 /\ x \in objects'[key'])
        BY <1>0, <2>1, <3>1, <3>3 DEF RegistryInv, TypeInv
      <3>6. key' # 0 => key' \in DOMAIN objects'
        BY <1>0, <3>1, <3>3
      <3>7. QED
        BY <3>4, <3>5, <3>6 DEF RegistryInv
    <2>4. QED
      BY <2>2, <2>3
  <1>3. QED
    BY <1>1, <1>2

\* A broadcast removes dead connections only.
LEMMA RegistryOfFinish ==
    ASSUME TypeInv, RegistryInv, NEW b \in Senders, CastInv(b), Finish(b)
    PROVE  RegistryInv'
  <1>0. PICK n \in Nat : objects \in [1..n -> SUBSET Clients]
    BY DEF TypeInv
  <1>1. UNCHANGED <<key, handler, alive>> /\ cast[b].dead \cap alive = {}
    BY DEF Finish, CastInv
  <1>2. CASE objects' = objects
    BY <1>1, <1>2 DEF RegistryInv
  <1>3. CASE key # 0 /\ objects' = [objects EXCEPT ![key] = @ \ cast[b].dead]
    <2>1. key \in 1..n
      BY <1>0, <1>3 DEF RegistryInv
    <2>2. IsFiniteSet(objects[key] \ cast[b].dead)
      BY <1>0, <2>1, FS_Subset DEF RegistryInv
    <2>3. QED
      BY <1>0, <1>1, <1>3, <2>1, <2>2 DEF RegistryInv, TypeInv
  <1>4. QED
    BY <1>2, <1>3 DEF Finish

-----------------------------------------------------------------------------
(* The broadcasts. *)

\* What connections do to a broadcast under way.
LEMMA CastOfClient ==
    ASSUME TypeInv, RegistryInv, NEW c \in Clients, Connect(c) \/ Break(c) \/ Disconnect(c),
           NEW b \in Senders, CastInv(b)
    PROVE  CastInv(b)'
  <1>0. PICK n \in Nat : objects \in [1..n -> SUBSET Clients]
    BY DEF TypeInv
  <1>1. UNCHANGED <<cast, got, count>>
    BY DEF Connect, Break, Disconnect
  <1>2. DOMAIN objects \subseteq DOMAIN objects'
    <2>1. CASE Connect(c)
      BY <2>1, Connected
    <2>2. CASE Break(c) \/ Disconnect(c)
      BY <1>0, <2>2 DEF Break, Disconnect
    <2>3. QED
      BY <2>1, <2>2
  <1>3. \A x \in Clients : handler[x] # "off" => handler'[x] # "off"
    BY DEF Connect, Break, Disconnect, TypeInv
  <1>4. steady'[b] \subseteq steady[b] /\ steady'[b] \subseteq alive'
    BY DEF Connect, Break, Disconnect, Leaves, CastInv, TypeInv
  <1>5. \A x \in alive' : x \in alive \/ handler[x] = "off"
    BY DEF Connect, Break, Disconnect
  <1>6. CASE cast[b].pc \in {"next", "send"}
    <2>1. cast[b] \in Casting
      BY <1>6 DEF TypeInv, NoCast
    <2>2. cast[b].dead \subseteq cast[b].visited \ alive'
      BY <1>5, <1>6 DEF CastInv
    <2>3. \A x \in cast[b].visited : handler'[x] # "off"
      BY <1>3, <1>6, <2>1 DEF CastInv, Casting
    <2>4. QED
      BY <1>1, <1>2, <1>4, <1>6, <2>2, <2>3 DEF CastInv, Message
  <1>7. CASE cast[b].pc \notin {"next", "send"}
    BY <1>1, <1>4, <1>7 DEF CastInv, Message
  <1>8. QED
    BY <1>6, <1>7

\* A step of another sender.
LEMMA CastOfOther ==
    ASSUME TypeInv, NEW b \in Senders, CastInv(b), cast'[b] = cast[b], steady'[b] = steady[b],
           count'[b] = count[b], UNCHANGED <<handler, alive>>,
           DOMAIN objects \subseteq DOMAIN objects',
           \A c \in Clients : got[c] \subseteq got'[c]
    PROVE  CastInv(b)'
  <1>1. cast[b].pc \in {"next", "send"} => cast[b].visited \subseteq Clients
    BY SMTT(60) DEF TypeInv, NoCast, Casting
  <1>2. steady[b] \subseteq Clients
    BY DEF TypeInv
  <1>3. Message(b)' = Message(b)
    BY DEF Message
  <1>4. QED
    BY <1>1, <1>2, <1>3 DEF CastInv

\* A step of the broadcast itself.
LEMMA CastOfSender ==
    ASSUME TypeInv, RegistryInv, NEW b \in Senders, CastInv(b),
           Begin(b) \/ Raise(b) \/ Pick(b) \/ Send(b) \/ Finish(b) \/ End(b)
    PROVE  CastInv(b)'
  <1>0. PICK n \in Nat : objects \in [1..n -> SUBSET Clients]
    BY DEF TypeInv
  <1>1. CASE Begin(b)
    <2>1. /\ steady'[b] = {c \in alive : handler[c] = "on"}
          /\ cast'[b] = [pc |-> IF key = 0 THEN "end" ELSE "next", object |-> key,
                         began |-> Members, visited |-> {}, dead |-> {},
                         to |-> {}, exchanged |-> FALSE]
          /\ UNCHANGED <<objects, alive, handler>>
      BY <1>1 DEF Begin, TypeInv
    <2>2. CASE key = 0
      <3>1. steady'[b] = {}
        BY <2>1, <2>2 DEF RegistryInv
      <3>2. QED
        BY <2>1, <2>2, <3>1 DEF CastInv
    <2>3. CASE key # 0
      <3>1. steady'[b] \subseteq Members /\ IsFiniteSet(Members)
        BY <1>0, <2>1, <2>3 DEF RegistryInv, Members
      <3>2. QED
        BY <2>1, <2>3, <3>1 DEF CastInv, RegistryInv
    <2>4. QED
      BY <2>2, <2>3
  <1>2. CASE Raise(b) \/ End(b)
    <2>1. cast'[b] = NoCast /\ UNCHANGED <<steady, alive>>
      BY <1>2 DEF Raise, End, TypeInv
    <2>2. QED
      BY <2>1 DEF CastInv, NoCast
  <1>3. CASE Pick(b)
    <2>0. cast[b] \in Casting /\ cast[b].pc = "next"
      <3>1. cast[b].pc = "next"
        BY <1>3 DEF Pick
      <3>2. QED
        BY <3>1 DEF TypeInv, NoCast
    <2>1. cast[b] \in Casting /\ cast[b].pc = "next" /\ cast[b].object \in 1..n
      BY <1>0, <2>0 DEF CastInv
    <2>2. PICK c \in objects[cast[b].object] :
             cast'[b] = [cast[b] EXCEPT !.pc = "send", !.visited = @ \cup {c}, !.to = {c}]
      BY <1>3 DEF Pick, TypeInv
    <2>3. handler[c] # "off" /\ IsFiniteSet(objects[cast[b].object])
      BY <1>0, <2>1 DEF RegistryInv
    <2>4. cast[b].began # {}
      BY <1>3, <2>1, <2>2, <2>3, FS_EmptySet DEF Pick
    <2>5. /\ cast'[b].pc = "send" /\ cast'[b].visited = cast[b].visited \cup {c} /\ cast'[b].to = {c}
          /\ cast'[b].object = cast[b].object /\ cast'[b].began = cast[b].began
          /\ cast'[b].dead = cast[b].dead
      BY <2>1, <2>2 DEF Casting
    <2>6. UNCHANGED <<objects, handler, alive, steady, got, count>>
      BY <1>3 DEF Pick
    <2>7. QED
      BY <2>1, <2>3, <2>4, <2>5, <2>6 DEF CastInv, Message
  <1>4. CASE Send(b)
    <2>1. cast[b] \in Casting /\ cast[b].pc = "send"
      BY <1>4 DEF Send, TypeInv, NoCast
    <2>2. PICK c \in cast[b].to :
             \/ /\ c \in alive /\ got' = [got EXCEPT ![c] = @ \cup {Message(b)}]
                /\ cast' = [cast EXCEPT ![b].pc = "next"]
             \/ /\ c \notin alive /\ UNCHANGED got
                /\ cast' = [cast EXCEPT ![b].pc = "next", ![b].dead = @ \cup {c}]
      BY <1>4 DEF Send
    <2>3. c \in Clients /\ UNCHANGED <<objects, handler, alive, steady, count>>
      BY <1>4, <2>1 DEF Send, Casting
    <2>4. /\ cast'[b].pc = "next" /\ cast'[b].visited = cast[b].visited /\ cast'[b].to = cast[b].to
          /\ cast'[b].object = cast[b].object /\ cast'[b].began = cast[b].began
          /\ cast'[b].dead = cast[b].dead \/ (c \notin alive /\ cast'[b].dead = cast[b].dead \cup {c})
      BY <2>1, <2>2 DEF Casting, TypeInv
    <2>5. Message(b)' = Message(b)
      BY <2>3 DEF Message
    <2>6. ASSUME NEW x \in cast[b].visited
          PROVE  x \in cast'[b].dead \/ Message(b) \in got'[x]
      <3>1. cast[b].visited \subseteq Clients
        BY <2>1 DEF Casting
      <3>2. \/ x \in cast[b].dead \/ Message(b) \in got[x] \/ x \in cast[b].to
        BY <2>1, <2>6 DEF CastInv
      <3>3. x \in cast[b].to => x = c
        BY <2>1, <2>2 DEF CastInv
      <3>4. CASE x = c
        <4>1. Message(b) \in got'[c] \/ c \in cast'[b].dead
          BY <2>1, <2>2, <2>3 DEF TypeInv, Casting
        <4>2. QED
          BY <3>4, <4>1
      <3>5. CASE x # c
        <4>1. got'[x] = got[x] /\ cast[b].dead \subseteq cast'[b].dead
          BY <2>2, <2>3, <2>4, <3>1, <3>5 DEF TypeInv
        <4>2. QED
          BY <3>2, <3>3, <3>5, <4>1
      <3>6. QED
        BY <3>4, <3>5
    <2>7. QED
      BY <2>1, <2>2, <2>3, <2>4, <2>5, <2>6 DEF CastInv
  <1>5. CASE Finish(b)
    <2>. DEFINE object == objects[cast[b].object]
    <2>1. cast[b] \in Casting /\ cast[b].pc = "next"
      BY <1>5 DEF Finish, TypeInv, NoCast
    <2>2. /\ object \subseteq cast[b].visited \/ object # cast[b].began
          /\ cast'[b].pc = "end" /\ cast'[b].exchanged = (object # cast[b].began)
          /\ UNCHANGED <<alive, steady, got, count>>
      BY <1>5, <2>1 DEF Finish, Casting, TypeInv
    <2>3. ASSUME object = cast[b].began, NEW c \in steady[b] PROVE Message(b) \in got[c]
      BY <2>1, <2>2, <2>3 DEF CastInv
    <2>. HIDE DEF object
    <2>4. QED
      BY <2>2, <2>3 DEF CastInv, Message
  <1>6. QED
    BY <1>1, <1>2, <1>3, <1>4, <1>5

\* A broadcast that removes connections finds the set of the run: what it has
\* visited was in that set, and a set that lost its last connection has changed its
\* size.
LEMMA FinishFindsSet ==
    ASSUME TypeInv, RegistryInv, NEW b \in Senders, CastInv(b), Finish(b), cast[b].dead # {}
    PROVE  key # 0
  <1>0. PICK n \in Nat : objects \in [1..n -> SUBSET Clients]
    BY DEF TypeInv
  <1>. DEFINE object == objects[cast[b].object]
  <1>1. cast[b] \in Casting /\ cast[b].pc = "next" /\ Cardinality(object) = Cardinality(cast[b].began)
    BY DEF Finish, TypeInv, NoCast
  <1>2. /\ cast[b].object \in DOMAIN objects
        /\ cast[b].began # {} /\ IsFiniteSet(cast[b].began)
    BY <1>1 DEF CastInv
  <1>3. IsFiniteSet(object)
    BY <1>2 DEF RegistryInv
  <1>4. object # {}
    BY <1>1, <1>2, <1>3, FS_EmptySet
  <1>5. cast[b].object = key /\ cast[b].object # 0
    BY <1>0, <1>2, <1>4 DEF RegistryInv
  <1>6. QED
    BY <1>5

LEMMA ReachOfStep == TypeInv /\ ReachInv /\ [Next]_vars => ReachInv'
  <1>. SUFFICES ASSUME TypeInv, ReachInv, [Next]_vars PROVE ReachInv'
    OBVIOUS
  <1>. USE DEF ReachInv
  <1>0. PICK n \in Nat : objects \in [1..n -> SUBSET Clients]
    BY DEF TypeInv
  <1>1. ASSUME NEW c \in Clients, Connect(c) \/ Break(c) \/ Disconnect(c) PROVE ReachInv'
    <2>1. RegistryInv'
      BY <1>1, RegistryOfConnect, RegistryOfLoss
    <2>2. \A b \in Senders : CastInv(b)'
      BY <1>1, CastOfClient
    <2>3. ~broken'
      BY <1>1 DEF Connect, Break, Disconnect
    <2>4. QED
      BY <2>1, <2>2, <2>3
  <1>2. ASSUME NEW b \in Senders,
               Begin(b) \/ Raise(b) \/ Pick(b) \/ Send(b) \/ Finish(b) \/ End(b)
        PROVE  ReachInv'
    <2>1. RegistryInv'
      <3>1. CASE Finish(b)
        BY <3>1, RegistryOfFinish
      <3>2. CASE ~Finish(b)
        BY <1>2, <3>2 DEF Begin, Raise, Pick, Send, End, RegistryInv
      <3>3. QED
        BY <3>1, <3>2
    <2>2. CastInv(b)'
      BY <1>2, CastOfSender
    <2>3. ASSUME NEW a \in Senders \ {b} PROVE CastInv(a)'
      <3>1. UNCHANGED <<handler, alive>> /\ cast'[a] = cast[a]
        BY <1>2 DEF Begin, Raise, Pick, Send, Finish, End, TypeInv
      <3>2. steady'[a] = steady[a] /\ count'[a] = count[a]
        BY <1>2 DEF Begin, Raise, Pick, Send, Finish, End, TypeInv
      <3>3. DOMAIN objects \subseteq DOMAIN objects'
        BY <1>0, <1>2 DEF Begin, Raise, Pick, Send, Finish, End
      <3>4. \A c \in Clients : got[c] \subseteq got'[c]
        BY <1>2, ZenonT(90) DEF Begin, Raise, Pick, Send, Finish, End, TypeInv
      <3>5. QED
        BY <3>1, <3>2, <3>3, <3>4, CastOfOther
    <2>4. ~broken'
      <3>1. CASE Finish(b)
        BY <3>1, FinishFindsSet DEF Finish
      <3>2. CASE ~Finish(b)
        BY <1>2, <3>2 DEF Begin, Raise, Pick, Send, End
      <3>3. QED
        BY <3>1, <3>2
    <2>5. QED
      BY <2>1, <2>2, <2>3, <2>4
  <1>3. CASE UNCHANGED vars
    BY <1>3 DEF vars, RegistryInv, CastInv, Message
  <1>4. QED
    BY <1>1, <1>2, <1>3 DEF Next

\* For any number of connections, senders and broadcasts, whoever connects, breaks or
\* leaves between two sends: a broadcast that comes to its end has reached every
\* connection that was there all along, and always finds the set of the run.
THEOREM BroadcastsAlwaysReach == Spec => []BroadcastsReach
  <1>1. Init => TypeInv /\ ReachInv
    <2>. SUFFICES ASSUME Init PROVE TypeInv /\ ReachInv
      OBVIOUS
    <2>1. objects \in [1..0 -> SUBSET Clients] /\ DOMAIN objects = {}
      BY DEF Init
    <2>2. TypeInv
      BY <2>1 DEF Init, TypeInv
    <2>3. ReachInv
      BY <2>1 DEF Init, ReachInv, RegistryInv, CastInv, NoCast
    <2>4. QED
      BY <2>2, <2>3
  <1>2. TypeInv /\ ReachInv => BroadcastsReach
    BY DEF ReachInv, CastInv, BroadcastsReach
  <1>3. QED
    BY <1>1, <1>2, TypeOfStep, ReachOfStep, PTL DEF Spec

=============================================================================
