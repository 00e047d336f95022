---------------------------- MODULE ServerProofs ----------------------------
(***************************************************************************)
(* The descriptors of the server, for any number of clients, descriptors,  *)
(* pending connections and lines: the list of select is exact, a callback  *)
(* gets the connection that was ready, and a response goes to a client     *)
(* that sent its request.                                                  *)
(***************************************************************************)
EXTENDS Server, TLAPS

(* The descriptors that the list of select has to account for: those that  *)
(* are open, except the duplicate of in.                                   *)
Held == {d \in Fds : table[d] # Free /\ d # hin}

InPass == pc \in {"process", "request", "answer"}
InRequest == pc \in {"request", "answer"}

(* No two descriptors that are held are one connection, a connection is    *)
(* open by a descriptor that is held, and only Port is the socket.         *)
TableInv ==
  /\ \A d, e \in Held : table[d] = table[e] => d = e
  /\ \A c \in Clients : stage[c] = "open" <=> \E d \in Held : table[d] = c
  /\ \A d \in Fds : table[d] = Srv => d = Port
  /\ Port \in Held => table[Port] = Srv

(* The duplicate of in is on the connection being handled.                 *)
HinInv ==
  /\ ~InRequest => hin = None
  /\ InRequest =>
       /\ hin \in Fds /\ todo # <<>>
       /\ Head(todo) # Port
       /\ table[hin] = table[Head(todo)]
  /\ pc = "answer" => Whole(table[hin])

(* During a pass the two parts of the list are what is held, each once.    *)
ListInv ==
  /\ pc \in {"listen", "hung"} => Held = {}
  /\ pc \in {"select", "stopped"} => ToSet(fds) = Held /\ IsInjective(fds)
  /\ ~InPass => todo = <<>> /\ res = <<>>
  /\ InPass =>
       /\ ToSet(todo) \cup ToSet(res) = Held
       /\ ToSet(todo) \cap ToSet(res) = {}
       /\ IsInjective(todo) /\ IsInjective(res)

(* The backlog holds connections nobody accepted, and is not empty when    *)
(* the socket was found readable and not yet seen.                         *)
QueueInv ==
  /\ IsInjective(queue)
  /\ \A i \in DOMAIN queue : stage[queue[i]] = "queued"
  /\ InPass /\ Port \in ToSet(todo) \cap DOMAIN ready.read => queue # <<>>

ServerInv ==
  TypeOK /\ TableInv /\ HinInv /\ ListInv /\ QueueInv /\ CallbackFresh

-----------------------------------------------------------------------------
(* Lists that hold each element once.                                      *)
LEMMA EmptyList == ToSet(<<>>) = {} /\ IsInjective(<<>>)
BY DEF ToSet, IsInjective

LEMMA HeadOnce ==
  ASSUME NEW S, NEW s \in Seq(S), s # <<>>, IsInjective(s)
  PROVE  /\ Head(s) \in S /\ Tail(s) \in Seq(S)
         /\ ToSet(s) = {Head(s)} \cup ToSet(Tail(s))
         /\ Head(s) \notin ToSet(Tail(s))
         /\ IsInjective(Tail(s))
<1>1. /\ Len(s) \in Nat /\ Len(s) > 0 /\ DOMAIN s = 1..Len(s)
      /\ Head(s) = s[1] /\ Head(s) \in S
      /\ Tail(s) \in Seq(S) /\ DOMAIN Tail(s) = 1..(Len(s) - 1)
      /\ \A i \in 1..(Len(s) - 1) : Tail(s)[i] = s[i + 1]
  OBVIOUS
<1>2. \A i \in 2..Len(s) : i - 1 \in 1..(Len(s) - 1) /\ (i - 1) + 1 = i
  BY <1>1
<1>3. ToSet(s) = {Head(s)} \cup ToSet(Tail(s))
  <2>1. ToSet(s) \subseteq {Head(s)} \cup ToSet(Tail(s))
    <3>. SUFFICES ASSUME NEW i \in 1..Len(s)
                  PROVE  s[i] \in {Head(s)} \cup ToSet(Tail(s))
      BY <1>1 DEF ToSet
    <3>1. CASE i = 1
      BY <3>1, <1>1
    <3>2. CASE i # 1
      <4>1. i - 1 \in DOMAIN Tail(s) /\ Tail(s)[i - 1] = s[i]
        BY <3>2, <1>1
      <4>. QED  BY <4>1 DEF ToSet
    <3>. QED  BY <3>1, <3>2
  <2>2. {Head(s)} \cup ToSet(Tail(s)) \subseteq ToSet(s)
    <3>1. Head(s) \in ToSet(s)
      BY <1>1 DEF ToSet
    <3>2. ASSUME NEW i \in 1..(Len(s) - 1) PROVE Tail(s)[i] \in ToSet(s)
      <4>1. i + 1 \in DOMAIN s /\ Tail(s)[i] = s[i + 1]
        BY <1>1
      <4>. QED  BY <4>1 DEF ToSet
    <3>. QED  BY <3>1, <3>2, <1>1 DEF ToSet
  <2>. QED  BY <2>1, <2>2
<1>4. \A i, j \in 1..Len(s) : s[i] = s[j] => i = j
  BY <1>1 DEF IsInjective
<1>5. Head(s) \notin ToSet(Tail(s))
  <2>. SUFFICES ASSUME NEW i \in 1..(Len(s) - 1), Tail(s)[i] = s[1] PROVE FALSE
    BY <1>1 DEF ToSet
  <2>1. i + 1 \in 1..Len(s) /\ 1 \in 1..Len(s) /\ s[i + 1] = s[1] /\ i + 1 # 1
    BY <1>1
  <2>. QED  BY <2>1, <1>4
<1>6. IsInjective(Tail(s))
  <2>. SUFFICES ASSUME NEW i \in 1..(Len(s) - 1), NEW j \in 1..(Len(s) - 1),
                       Tail(s)[i] = Tail(s)[j]
                PROVE  i = j
    BY <1>1 DEF IsInjective
  <2>1. i + 1 \in 1..Len(s) /\ j + 1 \in 1..Len(s) /\ s[i + 1] = s[j + 1]
    BY <1>1
  <2>2. i + 1 = j + 1
    BY <2>1, <1>4
  <2>. QED  BY <2>2
<1>. QED  BY <1>1, <1>3, <1>5, <1>6

LEMMA AppendOnce ==
  ASSUME NEW S, NEW s \in Seq(S), NEW e \in S, IsInjective(s), e \notin ToSet(s)
  PROVE  /\ Append(s, e) \in Seq(S)
         /\ ToSet(Append(s, e)) = ToSet(s) \cup {e}
         /\ IsInjective(Append(s, e))
<1> DEFINE t == Append(s, e)
<1>1. /\ t \in Seq(S) /\ Len(s) \in Nat
      /\ DOMAIN s = 1..Len(s) /\ DOMAIN t = 1..(Len(s) + 1)
      /\ \A i \in 1..Len(s) : t[i] = s[i]
      /\ t[Len(s) + 1] = e
  OBVIOUS
<1>2. \A i \in 1..(Len(s) + 1) : i \in 1..Len(s) \/ i = Len(s) + 1
  BY <1>1
<1>3. \A i \in 1..Len(s) : i \in 1..(Len(s) + 1)
  BY <1>1
<1>. HIDE DEF t
<1>4. ToSet(t) = ToSet(s) \cup {e}
  BY <1>1, <1>2, <1>3 DEF ToSet
<1>5. \A i \in 1..Len(s) : s[i] # e
  BY <1>1 DEF ToSet
<1>6. IsInjective(t)
  BY <1>1, <1>2, <1>5 DEF IsInjective
<1>. QED  BY <1>1, <1>4, <1>6 DEF t

(* What process_r adds to the list it builds is Append, once or twice.     *)
LEMMA ReadAppends ==
  ASSUME NEW d \in Fds, NEW e \in Fds, res \in Seq(Fds)
  PROVE  /\ res \o <<>> \o <<d>> = Append(res, d)
         /\ res \o <<d>> \o <<e>> = Append(Append(res, d), e)
OBVIOUS

-----------------------------------------------------------------------------
LEMMA ServerInit == Init => ServerInv
<1>. SUFFICES ASSUME Init PROVE ServerInv
  OBVIOUS
<1>1. TypeOK
  BY ServerAssumption DEF Init, TypeOK, None
<1>2. Held = {}
  BY DEF Init, Held
<1>3. TableInv
  BY <1>2, ServerAssumption DEF Init, TableInv
<1>4. HinInv
  BY DEF Init, HinInv, InRequest
<1>5. ListInv
  BY <1>2 DEF Init, ListInv, InPass
<1>6. QueueInv
  BY DEF Init, QueueInv, InPass, IsInjective
<1>7. CallbackFresh
  BY DEF Init, CallbackFresh
<1>. QED  BY <1>1, <1>3, <1>4, <1>5, <1>6, <1>7 DEF ServerInv

(* The descriptor a callback is run on is held, and seen once; but for the *)
(* socket, it is a connection.                                             *)
LEMMA Handled ==
  ASSUME ServerInv, InPass, todo # <<>>
  PROVE  /\ Head(todo) \in Held /\ Head(todo) \in Fds
         /\ Tail(todo) \in Seq(Fds) /\ IsInjective(Tail(todo))
         /\ ToSet(todo) = {Head(todo)} \cup ToSet(Tail(todo))
         /\ Head(todo) \notin ToSet(Tail(todo)) /\ Head(todo) \notin ToSet(res)
         /\ Head(todo) # Port => table[Head(todo)] \in Clients
<1>1. todo \in Seq(Fds) /\ IsInjective(todo)
  BY DEF ServerInv, TypeOK, ListInv
<1>2. /\ Head(todo) \in Fds
      /\ Tail(todo) \in Seq(Fds) /\ IsInjective(Tail(todo))
      /\ ToSet(todo) = {Head(todo)} \cup ToSet(Tail(todo))
      /\ Head(todo) \notin ToSet(Tail(todo))
  BY <1>1, HeadOnce
<1>3. Head(todo) \in Held /\ Head(todo) \notin ToSet(res)
  BY <1>2 DEF ServerInv, ListInv
<1>4. Head(todo) # Port => table[Head(todo)] \in Clients
  BY <1>2, <1>3 DEF ServerInv, TableInv, TypeOK, Held
<1>. QED  BY <1>2, <1>3, <1>4

(* A client changes what it has sent, or goes from new to queued.          *)
LEMMA ClientStep ==
  ASSUME ServerInv, NEW c \in Clients, Connect(c) \/ Send(c) \/ Urgent(c) \/ Eof(c)
  PROVE  ServerInv'
<1>1. UNCHANGED serverVars /\ Held' = Held
  BY DEF Connect, Send, Urgent, Eof, serverVars, Held
<1>2. TypeOK'
  <2>1. CASE Connect(c)
    <3>1. queue' \in Seq(Clients) /\ Len(queue') <= Backlog
      BY <2>1, ServerAssumption DEF Connect, ServerInv, TypeOK
    <3>. QED  BY <2>1, <3>1, <1>1 DEF Connect, ServerInv, TypeOK, serverVars
  <2>2. CASE Send(c)
    <3>1. sent' \in [Clients -> 0..ReqLines]
      BY <2>2, ServerAssumption DEF Send, ServerInv, TypeOK
    <3>. QED  BY <2>2, <3>1, <1>1 DEF Send, ServerInv, TypeOK, serverVars
  <2>3. CASE Urgent(c) \/ Eof(c)
    BY <2>3, <1>1 DEF Urgent, Eof, ServerInv, TypeOK, serverVars
  <2>. QED  BY <2>1, <2>2, <2>3
<1>3. \A b \in Clients : stage'[b] = stage[b] \/ (stage[b] = "new" /\ stage'[b] = "queued")
  BY DEF Connect, Send, Urgent, Eof, ServerInv, TypeOK
<1>4. TableInv'
  <2>1. \A b \in Clients : stage'[b] = "open" <=> stage[b] = "open"
    BY <1>3
  <2>. QED  BY <1>1, <2>1 DEF ServerInv, TableInv, serverVars
<1>5. HinInv'
  <2>1. ASSUME NEW b \in Clients, Whole(b) PROVE Whole(b)'
    <3>1. eof \subseteq eof'
      BY DEF Connect, Send, Urgent, Eof
    <3>2. sent'[b] = sent[b] \/ (sent[b] < ReqLines /\ b \notin eof)
      BY DEF Connect, Send, Urgent, Eof, ServerInv, TypeOK
    <3>3. sent[b] # ReqLines \/ ~(sent[b] < ReqLines)
      BY ServerAssumption
    <3>. QED  BY <2>1, <3>1, <3>2, <3>3 DEF Whole
  <2>2. pc = "answer" => table[hin] \in Clients
    BY Handled DEF ServerInv, HinInv, InRequest, InPass
  <2>. QED  BY <1>1, <2>1, <2>2 DEF ServerInv, HinInv, InRequest, serverVars, Whole
<1>6. ListInv'
  BY <1>1 DEF ServerInv, ListInv, serverVars, InPass
<1>7. QueueInv'
  <2>1. CASE Connect(c)
    <3>1. queue \in Seq(Clients) /\ queue' = Append(queue, c)
      BY <2>1 DEF Connect, ServerInv, TypeOK
    <3>2. \A i \in DOMAIN queue : queue[i] # c
      BY <2>1 DEF Connect, ServerInv, QueueInv
    <3>3. IsInjective(queue')
      BY <3>1, <3>2, AppendOnce DEF ToSet, ServerInv, QueueInv
    <3>4. \A i \in DOMAIN queue' : stage'[queue'[i]] = "queued"
      BY <2>1, <3>1 DEF Connect, ServerInv, QueueInv, TypeOK
    <3>5. queue' # <<>>
      BY <3>1
    <3>. QED  BY <3>3, <3>4, <3>5 DEF QueueInv
  <2>2. CASE Send(c) \/ Urgent(c) \/ Eof(c)
    BY <2>2, <1>1 DEF Send, Urgent, Eof, ServerInv, QueueInv, serverVars, InPass
  <2>. QED  BY <2>1, <2>2
<1>8. CallbackFresh'
  BY <1>1 DEF ServerInv, CallbackFresh, serverVars, Conn
<1>. QED  BY <1>2, <1>4, <1>5, <1>6, <1>7, <1>8 DEF ServerInv

(* Before the loop and between two passes, nothing is being handled.       *)
LEMMA StartStep ==
  ASSUME ServerInv, Listen \/ ListenFails
  PROVE  ServerInv'
<1>0. /\ pc = "listen" /\ Held = {} /\ hin = None /\ UNCHANGED <<todo, res, hin>>
      /\ todo = <<>> /\ res = <<>> /\ UNCHANGED <<clientVars, answered, ready>>
  BY DEF Listen, ListenFails, ServerInv, HinInv, ListInv, InRequest, InPass
<1>1. CASE Listen
  <2>1. /\ Port \in Fds /\ table' = [table EXCEPT ![Port] = Srv]
        /\ fds' = <<Port>> /\ pc' = "select"
    BY <1>1 DEF Listen, Install, Unused
  <2>2. Held' = {Port}
    <3>1. \A d \in Fds : table[d] = Free /\ d # hin
      BY <1>0, FdsAssumption DEF Held, None, ServerInv, TypeOK
    <3>. QED  BY <3>1, <2>1, <1>0, ServerAssumption DEF Held, ServerInv, TypeOK
  <2>3. TypeOK'
    BY <2>1, <1>0 DEF ServerInv, TypeOK, clientVars
  <2>4. TableInv'
    <3>1. \A d \in Fds : table'[d] = IF d = Port THEN Srv ELSE Free
      BY <2>1, <1>0, FdsAssumption DEF Held, None, ServerInv, TypeOK
    <3>2. \A c \in Clients : stage[c] # "open"
      BY <1>0 DEF ServerInv, TableInv
    <3>. QED  BY <3>1, <3>2, <2>1, <2>2, <1>0, ServerAssumption DEF TableInv, clientVars
  <2>5. HinInv' /\ ListInv' /\ QueueInv' /\ CallbackFresh'
    <3>1. ToSet(fds') = {Port} /\ IsInjective(fds')
      BY <2>1 DEF ToSet, IsInjective
    <3>. QED  BY <3>1, <2>1, <2>2, <1>0
         DEF ServerInv, HinInv, ListInv, QueueInv, CallbackFresh, InRequest, InPass,
             clientVars
  <2>. QED  BY <2>3, <2>4, <2>5 DEF ServerInv
<1>2. CASE ListenFails
  <2>1. pc' = "hung" /\ UNCHANGED <<table, fds>> /\ Held' = Held
    BY <1>2 DEF ListenFails, Held
  <2>. QED  BY <2>1, <1>0
       DEF ServerInv, TypeOK, TableInv, HinInv, ListInv, QueueInv, CallbackFresh,
           InRequest, InPass, clientVars
<1>. QED  BY <1>1, <1>2

LEMMA SelectStep ==
  ASSUME ServerInv, Select
  PROVE  ServerInv'
<1>1. /\ pc = "select" /\ pc' = "process" /\ todo' = fds
      /\ UNCHANGED <<clientVars, table, answered, fds, res, hin>>
      /\ Held' = Held
  BY DEF Select, Held
<1>2. PICK r \in SUBSET Fds :
        /\ \A d \in r : Readable(d)
        /\ ready'.read = [d \in r |-> Conn(d)]
  <2>1. {d \in Watched : Readable(d)} \subseteq Fds
    BY DEF ServerInv, TypeOK, Watched, ToSet
  <2>. QED  BY <2>1 DEF Select
<1>3. TypeOK'
  BY <1>1 DEF ServerInv, TypeOK, clientVars
<1>4. TableInv' /\ HinInv'
  BY <1>1 DEF ServerInv, TableInv, HinInv, InRequest, clientVars
<1>5. ListInv'
  BY <1>1, EmptyList DEF ServerInv, ListInv, InPass
<1>6. QueueInv'
  <2>1. Port \in ToSet(todo') \cap DOMAIN ready'.read => queue # <<>>
    <3>1. Port \in ToSet(todo') => Port \in Held
      BY <1>1 DEF ServerInv, ListInv
    <3>. QED  BY <3>1, <1>2 DEF ServerInv, TableInv, Readable, Conn
  <2>. QED  BY <2>1, <1>1 DEF ServerInv, QueueInv, clientVars
<1>7. CallbackFresh'
  BY <1>1, <1>2 DEF CallbackFresh, Conn
<1>. QED  BY <1>3, <1>4, <1>5, <1>6, <1>7 DEF ServerInv

LEMMA ProcessErrorStep ==
  ASSUME ServerInv, ProcessError
  PROVE  ServerInv'
<1>1. /\ pc = "process" /\ todo = <<>> /\ fds' = res /\ res' = <<>>
      /\ pc' \in {"select", "stopped"}
      /\ UNCHANGED <<clientVars, table, answered, todo, hin>>
      /\ Held' = Held
  BY DEF ProcessError, Held
<1>2. ToSet(fds') = Held /\ IsInjective(fds')
  BY <1>1, EmptyList DEF ServerInv, ListInv, InPass
<1>3. TypeOK'
  BY <1>1 DEF ServerInv, TypeOK, clientVars
<1>. QED  BY <1>1, <1>2, <1>3
     DEF ServerInv, TableInv, HinInv, ListInv, QueueInv, CallbackFresh, InRequest,
         InPass, clientVars

LEMMA NotReadyStep ==
  ASSUME ServerInv, NotReady
  PROVE  ServerInv'
<1>1. /\ pc = "process" /\ todo # <<>> /\ todo' = Tail(todo)
      /\ res' = Append(res, Head(todo))
      /\ UNCHANGED <<clientVars, table, answered, pc, fds, ready, hin>>
      /\ Held' = Held
  BY Handled, ReadAppends
  DEF NotReady, ProcessRead, Seen, Held, ServerInv, TypeOK, InPass
<1>2. /\ res' \in Seq(Fds) /\ IsInjective(res')
      /\ ToSet(res') = ToSet(res) \cup {Head(todo)}
  BY <1>1, Handled, AppendOnce DEF ServerInv, TypeOK, ListInv, InPass
<1>3. TypeOK'
  BY <1>1, <1>2, Handled DEF ServerInv, TypeOK, InPass, clientVars
<1>4. ListInv'
  BY <1>1, <1>2, Handled DEF ServerInv, ListInv, InPass
<1>5. QueueInv' /\ CallbackFresh'
  BY <1>1, Handled DEF ServerInv, QueueInv, CallbackFresh, InPass, Conn, clientVars
<1>. QED  BY <1>1, <1>3, <1>4, <1>5
     DEF ServerInv, TableInv, HinInv, InRequest, clientVars

-----------------------------------------------------------------------------
(* An accepted connection is in the list under a number that was free.     *)
LEMMA AcceptStep ==
  ASSUME ServerInv, Accept
  PROVE  ServerInv'
<1> DEFINE c == Head(queue)
<1>1. PICK d \in Fds :
        /\ Install(d, c)
        /\ stage' = [stage EXCEPT ![c] = "open"]
        /\ ProcessRead(<<d>>)
  BY DEF Accept
<1>2. /\ pc = "process" /\ InPass /\ todo # <<>> /\ Head(todo) = Port /\ hin = None
      /\ Port \in ToSet(todo) \cap DOMAIN ready.read
      /\ queue' = Tail(queue)
      /\ UNCHANGED <<sent, eof, urgent, answered, pc, fds, ready, hin>>
  BY Handled DEF Accept, AtReady, Seen, InPass, ServerInv, HinInv, InRequest
<1>3. /\ queue \in Seq(Clients) /\ queue # <<>> /\ IsInjective(queue)
      /\ Len(queue) <= Backlog
  BY <1>2 DEF ServerInv, TypeOK, QueueInv
<1>4. /\ c \in Clients /\ Tail(queue) \in Seq(Clients) /\ IsInjective(Tail(queue))
      /\ c \notin ToSet(Tail(queue))
      /\ ToSet(queue) = {c} \cup ToSet(Tail(queue))
      /\ Len(Tail(queue)) <= Backlog
  <2>1. Len(Tail(queue)) <= Len(queue)
    BY <1>3
  <2>2. Len(Tail(queue)) \in Nat /\ Len(queue) \in Nat /\ Backlog \in Nat
    BY <1>3, ServerAssumption
  <2>. QED  BY <1>3, <2>1, <2>2, HeadOnce
<1>5. \A b \in ToSet(queue) : stage[b] = "queued"
  BY DEF ToSet, ServerInv, QueueInv
<1>. HIDE DEF c
<1>6. /\ table[d] = Free /\ d \notin Held
      /\ table' = [table EXCEPT ![d] = c]
      /\ \A e \in Fds : table'[e] = IF e = d THEN c ELSE table[e]
  BY <1>1 DEF Install, Unused, Held, ServerInv, TypeOK
<1>7. Held' = Held \cup {d}
  BY <1>2, <1>4, <1>6, FdsAssumption, ServerAssumption DEF Held, None
<1>8. todo' = Tail(todo) /\ res' = Append(Append(res, d), Port)
  BY <1>1, <1>2, ReadAppends, Handled DEF ProcessRead, Seen, ServerInv, TypeOK
<1>9. /\ Append(res, d) \in Seq(Fds) /\ IsInjective(Append(res, d))
      /\ ToSet(Append(res, d)) = ToSet(res) \cup {d}
  <2>1. res \in Seq(Fds) /\ IsInjective(res) /\ d \notin ToSet(res)
    BY <1>2, <1>6 DEF ServerInv, TypeOK, ListInv
  <2>. QED  BY <2>1, AppendOnce
<1>10. /\ res' \in Seq(Fds) /\ IsInjective(res')
       /\ ToSet(res') = ToSet(res) \cup {d, Port}
  <2>1. Port \in Fds /\ Port \in Held /\ Port \notin ToSet(res)
    BY <1>2, Handled
  <2>2. Port \notin ToSet(Append(res, d))
    BY <1>6, <1>9, <2>1
  <2>3. \A s \in Seq(Fds) : IsInjective(s) /\ Port \notin ToSet(s) =>
          /\ Append(s, Port) \in Seq(Fds) /\ IsInjective(Append(s, Port))
          /\ ToSet(Append(s, Port)) = ToSet(s) \cup {Port}
    BY <2>1, AppendOnce
  <2>4. /\ res' \in Seq(Fds) /\ IsInjective(res')
        /\ ToSet(res') = ToSet(Append(res, d)) \cup {Port}
    BY <1>8, <1>9, <2>2, <2>3
  <2>. QED  BY <1>9, <2>4
<1>11. TypeOK'
  BY <1>1, <1>2, <1>4, <1>6, <1>8, <1>10, Handled DEF ServerInv, TypeOK
<1>12. TableInv'
  <2>1. stage[c] = "queued"
    BY <1>4, <1>5
  <2>2. \A e \in Held : table[e] # c
    BY <1>4, <2>1 DEF ServerInv, TableInv
  <2>3. \A e \in Held : e \in Fds /\ table'[e] = table[e] /\ e # d
    BY <1>6 DEF Held
  <2>4. \A e, f \in Held' : table'[e] = table'[f] => e = f
    BY <1>6, <1>7, <2>2, <2>3 DEF ServerInv, TableInv
  <2>5. \A b \in Clients : stage'[b] = "open" <=> \E e \in Held' : table'[e] = b
    <3>1. \A b \in Clients : b # c => stage'[b] = stage[b]
      BY <1>1 DEF ServerInv, TypeOK
    <3>2. stage'[c] = "open" /\ table'[d] = c /\ d \in Held'
      BY <1>1, <1>4, <1>6, <1>7 DEF ServerInv, TypeOK
    <3>3. \A b \in Clients : b # c =>
            ((\E e \in Held' : table'[e] = b) <=> \E e \in Held : table[e] = b)
      BY <1>6, <1>7, <2>3
    <3>. QED  BY <3>1, <3>2, <3>3 DEF ServerInv, TableInv
  <2>6. \A e \in Fds : table'[e] = Srv => e = Port
    BY <1>4, <1>6, ServerAssumption DEF ServerInv, TableInv
  <2>7. table'[Port] = Srv
    BY <1>2, <1>6, Handled DEF ServerInv, TableInv
  <2>. QED  BY <2>4, <2>5, <2>6, <2>7 DEF TableInv
<1>13. ListInv'
  <2>1. /\ IsInjective(Tail(todo)) /\ Port \notin ToSet(Tail(todo))
        /\ ToSet(todo) = {Port} \cup ToSet(Tail(todo))
    BY <1>2, Handled
  <2>. QED  BY <1>2, <1>6, <1>7, <1>8, <1>10, <2>1 DEF ServerInv, ListInv, InPass
<1>14. QueueInv'
  <2>1. Port \notin ToSet(todo')
    BY <1>2, <1>8, Handled
  <2>2. \A b \in ToSet(queue') : b # c /\ b \in Clients /\ stage[b] = "queued"
    BY <1>2, <1>4, <1>5 DEF ToSet
  <2>3. \A b \in ToSet(queue') : stage'[b] = "queued"
    BY <2>2, <1>1 DEF ServerInv, TypeOK
  <2>. QED  BY <2>1, <2>3, <1>2, <1>4 DEF QueueInv, ToSet
<1>15. CallbackFresh'
  <2>1. \A e \in ToSet(todo') : e \in ToSet(todo) /\ e \in Fds /\ e # d
    BY <1>2, <1>6, <1>8, Handled DEF ServerInv, ListInv, Held
  <2>. QED  BY <2>1, <1>2, <1>6 DEF ServerInv, CallbackFresh, Conn, InPass
<1>16. HinInv'
  BY <1>2 DEF HinInv, InRequest
<1>. QED  BY <1>11, <1>12, <1>13, <1>14, <1>15, <1>16 DEF ServerInv

(* The socket is given up when accept fails.                               *)
LEMMA AcceptFailsStep ==
  ASSUME ServerInv, AcceptFails
  PROVE  ServerInv'
<1>1. /\ pc = "process" /\ InPass /\ todo # <<>> /\ Head(todo) = Port /\ hin = None
      /\ todo' = Tail(todo)
      /\ UNCHANGED <<clientVars, answered, pc, fds, ready, res, hin>>
  BY DEF AcceptFails, AtReady, Seen, InPass, ServerInv, HinInv, InRequest, ProcessNil
<1>2. /\ table' \in [Fds -> Clients \cup {Srv, Free}]
      /\ \A e \in Fds : table'[e] = IF e = Port THEN Free ELSE table[e]
  BY <1>1 DEF AcceptFails, CloseAll, ServerInv, TypeOK
<1>3. Held' = Held \ {Port}
  BY <1>1, <1>2 DEF Held
<1>4. Port \in Held /\ table[Port] = Srv
  BY <1>1, Handled DEF ServerInv, TableInv
<1>5. TypeOK'
  BY <1>1, <1>2, Handled DEF ServerInv, TypeOK, clientVars
<1>6. TableInv'
  <2>1. \A c \in Clients : (\E e \in Held' : table'[e] = c) <=> \E e \in Held : table[e] = c
    BY <1>2, <1>3, <1>4, ServerAssumption DEF Held
  <2>2. \A e \in Held' : e \in Held /\ table'[e] = table[e]
    BY <1>2, <1>3 DEF Held
  <2>3. \A e \in Fds : table'[e] # Srv
    BY <1>2, ServerAssumption DEF ServerInv, TableInv
  <2>. QED  BY <1>1, <1>3, <2>1, <2>2, <2>3 DEF ServerInv, TableInv, clientVars
<1>7. ListInv'
  BY <1>1, <1>3, Handled DEF ServerInv, ListInv, InPass
<1>8. QueueInv' /\ HinInv'
  BY <1>1, Handled DEF ServerInv, QueueInv, HinInv, InRequest, InPass, clientVars
<1>9. CallbackFresh'
  <2>1. \A e \in ToSet(todo') : e \in ToSet(todo) /\ e \in Fds /\ e # Port
    BY <1>1, Handled DEF ServerInv, ListInv, Held
  <2>. QED  BY <2>1, <1>1, <1>2 DEF ServerInv, CallbackFresh, Conn, InPass
<1>. QED  BY <1>5, <1>6, <1>7, <1>8, <1>9 DEF ServerInv

(* in works on a duplicate, which is not held.                             *)
LEMMA InStep ==
  ASSUME ServerInv, In
  PROVE  ServerInv'
<1>1. /\ pc = "process" /\ InPass /\ todo # <<>> /\ Head(todo) # Port /\ hin = None
      /\ pc' = "request"
      /\ UNCHANGED <<clientVars, answered, fds, ready, todo, res>>
  BY DEF In, AtReady, Seen, InPass, ServerInv, HinInv, InRequest
<1>2. PICK d \in Fds : Install(d, table[Head(todo)]) /\ hin' = d
  BY DEF In, Conn, Seen
<1>3. /\ table[d] = Free /\ d \notin Held
      /\ table' = [table EXCEPT ![d] = table[Head(todo)]]
      /\ \A e \in Fds : table'[e] = IF e = d THEN table[Head(todo)] ELSE table[e]
  BY <1>2 DEF Install, Unused, Held, ServerInv, TypeOK
<1>4. Held' = Held
  BY <1>1, <1>2, <1>3, FdsAssumption DEF Held, None
<1>5. Head(todo) \in Held /\ Head(todo) \in Fds /\ table[Head(todo)] \in Clients
  BY <1>1, Handled
<1>6. TypeOK'
  BY <1>1, <1>2, <1>3, <1>5 DEF ServerInv, TypeOK, clientVars
<1>7. \A e \in Held : e \in Fds /\ e # d /\ table'[e] = table[e]
  BY <1>3 DEF Held
<1>8. TableInv'
  <2>1. \A e \in Fds : table'[e] = Srv => e = Port
    BY <1>3, <1>5, ServerAssumption DEF ServerInv, TableInv
  <2>. QED  BY <1>1, <1>4, <1>7, <2>1 DEF ServerInv, TableInv, clientVars
<1>9. HinInv'
  BY <1>1, <1>2, <1>3, <1>5, <1>7 DEF HinInv, InRequest
<1>10. ListInv' /\ QueueInv'
  BY <1>1, <1>4 DEF ServerInv, ListInv, QueueInv, InPass, clientVars
<1>11. CallbackFresh'
  <2>1. \A e \in ToSet(todo) : e \in Held
    BY <1>1 DEF ServerInv, ListInv
  <2>. QED  BY <2>1, <1>1, <1>7 DEF ServerInv, CallbackFresh, Conn, InPass
<1>. QED  BY <1>6, <1>8, <1>9, <1>10, <1>11 DEF ServerInv

LEMMA RequestStep ==
  ASSUME ServerInv, Request
  PROVE  ServerInv'
<1>1. /\ pc = "request" /\ pc' = "answer" /\ Whole(table[hin])
      /\ UNCHANGED <<clientVars, table, answered, fds, ready, todo, res, hin>>
      /\ Held' = Held
  BY DEF Request, Conn, Held
<1>2. Whole(table[hin])'
  BY <1>1 DEF Whole, clientVars
<1>. QED  BY <1>1, <1>2
     DEF ServerInv, TypeOK, TableInv, HinInv, ListInv, QueueInv, CallbackFresh, Conn,
         InRequest, InPass, clientVars

(* The connection handled is finished with: the descriptor in the list is  *)
(* closed and leaves it, and the duplicate of in is closed with it.        *)
LEMMA CloseStep ==
  ASSUME ServerInv, todo # <<>>, Head(todo) # Port,
         NEW also, CloseSeen(also),
         \/ pc = "process" /\ also = {}
         \/ InRequest /\ also = {hin},
         pc' = "process", hin' = None,
         answered' \subseteq Clients,
         UNCHANGED <<queue, fds, ready>>
  PROVE  ServerInv'
<1> DEFINE d == Head(todo)
           c == table[d]
<1>1. InPass /\ InPass'
  BY DEF InPass, InRequest
<1>2. /\ d \in Held /\ d \in Fds /\ c \in Clients
      /\ Tail(todo) \in Seq(Fds) /\ IsInjective(Tail(todo))
      /\ ToSet(todo) = {d} \cup ToSet(Tail(todo))
      /\ d \notin ToSet(Tail(todo)) /\ d \notin ToSet(res)
  BY <1>1, Handled
<1>3. /\ todo' = Tail(todo) /\ res' = res
      /\ stage' = [b \in Clients |-> IF b = c THEN "closed" ELSE stage[b]]
      /\ sent' = [b \in Clients |-> IF b = c THEN 0 ELSE sent[b]]
      /\ eof' = eof \ {c} /\ urgent' = urgent \ {c}
  BY DEF CloseSeen, ProcessNil, Seen, Conn
<1>4. /\ table' \in [Fds -> Clients \cup {Srv, Free}]
      /\ \A e \in Fds : table'[e] = IF e = d \/ e \in also THEN Free ELSE table[e]
  BY DEF CloseSeen, CloseAll, Seen, ServerInv, TypeOK
<1>. HIDE DEF c, d
<1>5. also \cap Held = {} /\ \A e \in Fds : e \in Held \/ e \in also \/ table[e] = Free
  <2>1. CASE pc = "process" /\ also = {}
    BY <2>1, FdsAssumption DEF ServerInv, HinInv, InRequest, Held, None
  <2>2. CASE InRequest /\ also = {hin}
    BY <2>2 DEF Held
  <2>. QED  BY <2>1, <2>2
<1>6. Held' = Held \ {d}
  <2>1. \A e \in Fds : e # hin'
    BY FdsAssumption DEF None
  <2>2. \A e \in Fds : table'[e] # Free <=> e \in Held /\ e # d
    BY <1>4, <1>5 DEF Held
  <2>. QED  BY <2>1, <2>2 DEF Held
<1>7. \A e \in Held' : e \in Held /\ e # d /\ table'[e] = table[e]
  BY <1>4, <1>5, <1>6 DEF Held
<1>8. TypeOK'
  <2>1. /\ stage' \in [Clients -> {"new", "queued", "open", "closed"}]
        /\ sent' \in [Clients -> 0..ReqLines]
    BY <1>3, ServerAssumption DEF ServerInv, TypeOK
  <2>. QED  BY <2>1, <1>2, <1>3, <1>4 DEF ServerInv, TypeOK
<1>9. TableInv'
  <2>1. table[d] = c
    BY DEF c
  <2>2. \A e \in Held' : table'[e] # c
    BY <1>2, <1>7, <2>1 DEF ServerInv, TableInv
  <2>3. \A b \in Clients : stage'[b] = "open" <=> \E e \in Held' : table'[e] = b
    <3>1. ASSUME NEW b \in Clients, b # c
          PROVE  (\E e \in Held' : table'[e] = b) <=> \E e \in Held : table[e] = b
      BY <3>1, <1>6, <1>7, <2>1
    <3>. QED  BY <3>1, <2>2, <1>3 DEF ServerInv, TableInv
  <2>4. \A e \in Fds : table'[e] = Srv => e = Port
    BY <1>4, ServerAssumption DEF ServerInv, TableInv
  <2>5. Port \in Held' => table'[Port] = Srv
    BY <1>7 DEF ServerInv, TableInv
  <2>6. \A e, f \in Held' : table'[e] = table'[f] => e = f
    BY <1>7 DEF ServerInv, TableInv
  <2>. QED  BY <2>3, <2>4, <2>5, <2>6 DEF TableInv
<1>10. ListInv'
  BY <1>1, <1>2, <1>3, <1>6 DEF ServerInv, ListInv, InPass
<1>11. QueueInv'
  <2>1. stage[c] = "open"
    BY <1>2 DEF c, ServerInv, TableInv
  <2>2. \A i \in DOMAIN queue : queue[i] \in Clients /\ queue[i] # c
    BY <2>1 DEF ServerInv, QueueInv, TypeOK
  <2>. QED  BY <1>1, <1>2, <1>3, <2>2 DEF ServerInv, QueueInv
<1>12. CallbackFresh'
  <2>1. \A e \in ToSet(todo') : e \in ToSet(todo) /\ e \in Held'
    BY <1>1, <1>2, <1>3, <1>6 DEF ServerInv, ListInv
  <2>. QED  BY <1>1, <1>7, <2>1 DEF ServerInv, CallbackFresh, Conn, InPass
<1>13. HinInv'
  BY DEF HinInv, InRequest
<1>. QED  BY <1>8, <1>9, <1>10, <1>11, <1>12, <1>13 DEF ServerInv

(* InFails, NoRequest and Answer end the handling of a connection.         *)
LEMMA EndStep ==
  ASSUME ServerInv, InFails \/ NoRequest \/ Answer
  PROVE  /\ ServerInv'
         /\ stage' = [b \in Clients |-> IF b = table[Head(todo)] THEN "closed" ELSE stage[b]]
<1>1. CASE InFails
  <2>1. /\ pc = "process" /\ todo # <<>> /\ Head(todo) # Port /\ CloseSeen({})
        /\ UNCHANGED <<queue, answered, pc, fds, ready, hin>>
    BY <1>1 DEF InFails, AtReady, Seen
  <2>2. hin' = None /\ answered' \subseteq Clients
    BY <2>1 DEF ServerInv, HinInv, InRequest, TypeOK
  <2>. QED  BY <2>1, <2>2, CloseStep DEF CloseSeen, Seen, Conn
<1>2. CASE NoRequest \/ Answer
  <2>1. /\ InRequest /\ InPass /\ CloseSeen({hin})
        /\ pc' = "process" /\ hin' = None
        /\ UNCHANGED <<queue, fds, ready>>
    BY <1>2 DEF NoRequest, Answer, InRequest, InPass
  <2>2. todo # <<>> /\ Head(todo) # Port
    BY <2>1 DEF ServerInv, HinInv
  <2>3. answered' \subseteq Clients
    <3>1. table[Head(todo)] \in Clients /\ answered \subseteq Clients
      BY <2>1, <2>2, Handled DEF ServerInv, TypeOK
    <3>. QED  BY <3>1, <1>2 DEF NoRequest, Answer, Conn, Seen
  <2>. QED  BY <2>1, <2>2, <2>3, CloseStep DEF CloseSeen, Seen, Conn
<1>. QED  BY <1>1, <1>2

(* A select that fails leaves what is open open.                           *)
LEMMA SelectFailsStep ==
  ASSUME ServerInv, SelectFails
  PROVE  ServerInv'
<1>1. /\ pc \in {"select", "hung"} /\ pc' = "failed" /\ fds' = <<>>
      /\ UNCHANGED <<clientVars, table, answered, ready, todo, res, hin>>
      /\ Held' = Held
  BY DEF SelectFails, Held
<1>2. TypeOK'
  BY <1>1 DEF ServerInv, TypeOK, clientVars
<1>3. ~InPass' /\ ~InPass /\ ~InRequest' /\ ~InRequest
  BY <1>1 DEF InPass, InRequest
<1>4. TableInv' /\ HinInv'
  BY <1>1, <1>3 DEF ServerInv, TableInv, HinInv, clientVars
<1>5. ListInv' /\ QueueInv'
  BY <1>1, <1>3 DEF ServerInv, ListInv, QueueInv, InPass, clientVars
<1>6. CallbackFresh'
  BY <1>3 DEF CallbackFresh, InPass
<1>. QED  BY <1>2, <1>4, <1>5, <1>6 DEF ServerInv

LEMMA ServerNext == ServerInv /\ [Next]_vars => ServerInv'
<1>. SUFFICES ASSUME ServerInv, [Next]_vars PROVE ServerInv'
  OBVIOUS
<1>1. CASE UNCHANGED vars
  BY <1>1
  DEF vars, serverVars, clientVars, ServerInv, TypeOK, TableInv, HinInv, ListInv,
      QueueInv, CallbackFresh, Held, InPass, InRequest, Whole, Conn
<1>2. CASE \E c \in Clients : Connect(c) \/ Send(c) \/ Urgent(c) \/ Eof(c)
  BY <1>2, ClientStep
<1>3. CASE Listen \/ ListenFails
  BY <1>3, StartStep
<1>4. CASE Select \/ NotReady \/ ProcessError
  BY <1>4, SelectStep, NotReadyStep, ProcessErrorStep
<1>8. CASE SelectFails
  BY <1>8, SelectFailsStep
<1>5. CASE Accept \/ AcceptFails
  BY <1>5, AcceptStep, AcceptFailsStep
<1>6. CASE In \/ Request
  BY <1>6, InStep, RequestStep
<1>7. CASE InFails \/ NoRequest \/ Answer
  BY <1>7, EndStep
<1>. QED
  BY <1>1, <1>2, <1>3, <1>4, <1>5, <1>6, <1>7, <1>8 DEF Next, Serve, Stopped

LEMMA ServerInvariant == Spec => []ServerInv
BY ServerInit, ServerNext, PTL DEF Spec

-----------------------------------------------------------------------------
(* A connection that is open is so by a descriptor that is held: the       *)
(* duplicate of in refers to one that is.                                  *)
LEMMA OwnDescriptors == ServerInv => OwnDescriptor
<1>. SUFFICES ASSUME ServerInv, NEW c \in Clients
              PROVE  stage[c] = "open" <=> Open(c)
  BY DEF OwnDescriptor
<1>1. ASSUME NEW d \in Fds, table[d] = c PROVE \E e \in Held : table[e] = c
  <2>1. CASE d = hin
    <3>1. InPass /\ todo # <<>> /\ table[hin] = table[Head(todo)]
      BY <2>1, FdsAssumption DEF ServerInv, HinInv, None, InRequest, InPass
    <3>. QED  BY <3>1, <2>1, <1>1, Handled
  <2>2. CASE d # hin
    BY <2>2, <1>1, ServerAssumption DEF Held
  <2>. QED  BY <2>1, <2>2
<1>2. Open(c) <=> \E d \in Held : table[d] = c
  BY <1>1 DEF Open, Held
<1>. QED  BY <1>2 DEF ServerInv, TableInv

(* Types: for any number of clients, descriptors and lines (Server).       *)
THEOREM ServerTypes == Spec => []TypeOK
BY ServerInvariant, PTL DEF ServerInv

(* The list select is given holds what is open, each number once: no close *)
(* is missing or done twice, however the numbers are reused (process_r).   *)
(* It is lost only when select itself fails, which ends the loop.          *)
THEOREM ListCorrect == Spec => []ListExact
<1>1. ServerInv => ListExact
  <2>. SUFFICES ASSUME ServerInv, pc \in {"select", "stopped"}
                PROVE  ToSet(fds) = Fds \ Unused /\ IsInjective(fds)
    BY DEF ListExact
  <2>1. hin = None
    BY DEF ServerInv, HinInv, InRequest
  <2>2. Held = Fds \ Unused
    BY <2>1, FdsAssumption DEF Held, Unused, None
  <2>. QED  BY <2>2 DEF ServerInv, ListInv
<1>. QED  BY <1>1, ServerInvariant, PTL

(* A callback gets the connection select found ready, whatever the others  *)
(* closed and accepted before it, and only the server ends a connection.   *)
THEOREM CallbacksCorrect == Spec => []DescriptorsFresh
<1>1. ServerInv => DescriptorsFresh
  BY OwnDescriptors DEF ServerInv, DescriptorsFresh
<1>. QED  BY <1>1, ServerInvariant, PTL

(* Responses go to clients that sent their request to the end, whose       *)
(* connection is then closed and stays so (http/ingress and process_r).    *)
THEOREM AnswersCorrect == Spec => AnswersRequests
<1> DEFINE A == /\ \A c \in answered' \ answered : Whole(c) /\ stage'[c] = "closed"
                /\ \A c \in Clients :
                     stage[c] = "closed" => stage'[c] = "closed" /\ ~Open(c)'
<1>0. ServerInv' => OwnDescriptor'
  BY OwnDescriptors, PTL
<1>1. ServerInv /\ [Next]_vars => [A]_vars
  <2>. SUFFICES ASSUME ServerInv, Next PROVE A
    OBVIOUS
  <2>1. ServerInv'
    BY ServerNext
  <2>2. \A c \in Clients : stage[c] = "closed" => stage'[c] = "closed"
    <3>1. CASE InFails \/ NoRequest \/ Answer
      BY <3>1, EndStep
    <3>2. CASE Accept
      <4>1. /\ InPass /\ Port \in ToSet(todo) \cap DOMAIN ready.read
        BY <3>2, Handled DEF Accept, AtReady, Seen, InPass
      <4>2. queue \in Seq(Clients) /\ queue # <<>>
        BY <4>1 DEF ServerInv, TypeOK, QueueInv
      <4>3. Head(queue) \in Clients /\ stage[Head(queue)] = "queued"
        BY <4>2 DEF ServerInv, QueueInv
      <4>. QED  BY <3>2, <4>3 DEF Accept, ServerInv, TypeOK
    <3>3. CASE \E c \in Clients : Connect(c)
      BY <3>3 DEF Connect, ServerInv, TypeOK
    <3>4. CASE UNCHANGED stage
      BY <3>4
    <3>. QED
      BY <3>1, <3>2, <3>3, <3>4
      DEF Next, Serve, Stopped, Listen, ListenFails, Select, SelectFails, NotReady,
          AcceptFails, In, Request, ProcessError, Send, Urgent, Eof, vars, clientVars, serverVars
  <2>3. \A c \in Clients : stage[c] = "closed" => ~Open(c)'
    <3>1. \A c \in Clients : stage'[c] = "open" <=> Open(c)'
      BY <2>1, <1>0 DEF OwnDescriptor
    <3>. QED  BY <2>2, <3>1
  <2>4. ASSUME NEW c \in answered' \ answered PROVE Whole(c) /\ stage'[c] = "closed"
    <3>1. Answer
      BY DEF Next, Serve, Stopped, Listen, ListenFails, Select, SelectFails, NotReady, Accept,
         AcceptFails, In, InFails, Request, NoRequest, ProcessError, Connect, Send,
         Urgent, Eof, vars, clientVars, serverVars
    <3>2. c = table[Head(todo)] /\ pc = "answer"
      BY <3>1, <2>4 DEF Answer, Conn, Seen
    <3>3. Whole(c)
      BY <3>2 DEF ServerInv, HinInv, InRequest
    <3>4. c \in Clients
      BY <2>1, <2>4 DEF ServerInv, TypeOK
    <3>. QED  BY <3>1, <3>2, <3>3, <3>4, EndStep
  <2>. QED  BY <2>2, <2>3, <2>4
<1>2. AnswersRequests <=> [][A]_vars
  BY DEF AnswersRequests
<1>. QED  BY <1>1, <1>2, ServerInvariant, PTL DEF Spec

=============================================================================
