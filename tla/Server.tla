------------------------------- MODULE Server -------------------------------
(***************************************************************************)
(* The server of http.l: select (lib/mnml/unix/select.c) calls ON_READ for *)
(* each readable descriptor, http/ingress accepts a connection or reads a  *)
(* request and answers it, and what the callback returns decides whether   *)
(* select keeps the descriptor, adds one, or closes it.                    *)
(*                                                                         *)
(* The server is one thread; clients connect, send, close and raise urgent *)
(* data at any time.  A request is ReqLines lines: the server blocks in    *)
(* readline until it has them or the client closes.  A select that is      *)
(* interrupted ends the loop, with every descriptor left as it is.         *)
(***************************************************************************)
EXTENDS Descriptors

CONSTANTS
  Clients,     \* 1..n, one connection each, numbered as they connect
  Srv,         \* the listening socket
  Port,        \* the number listen returned for it
  ReqLines,    \* the lines of a request
  Backlog      \* the pending connections listen allows

ASSUME ServerAssumption ==
  /\ Port \in Fds /\ \A d \in Fds : Port <= d
  /\ Clients \in SUBSET Nat
  /\ Free \notin Clients \cup {Srv} /\ Srv \notin Clients
  /\ ReqLines \in Nat \ {0} /\ Backlog \in Nat \ {0}

VARIABLES
  stage,      \* of a connection: new, queued, open, closed (by the server)
  sent,       \* the lines a client has sent
  eof,        \* the clients that closed their end
  urgent,     \* the clients with urgent data
  queue,      \* the backlog of Srv
  answered,   \* the clients that were sent a response
  pc,         \* where the server is
  fds,        \* the list given to select
  ready,      \* what select returned: the readable descriptors, with what
              \* they were connected to, and the exceptional ones
  todo,       \* the part of the list process_r still has to see
  res,        \* the list it has built
  hin         \* the descriptor of the input context of in

clientVars == <<stage, sent, eof, urgent, queue>>
serverVars == <<table, answered, pc, fds, ready, todo, res, hin>>
vars == <<clientVars, serverVars>>

None == 0
Conn(d) == table[d]
Open(o) == \E d \in Fds : table[d] = o

Readable(d) ==
  IF Conn(d) = Srv THEN queue # <<>>
  ELSE Conn(d) \in Clients /\ (sent[Conn(d)] > 0 \/ Conn(d) \in eof)

Exceptional(d) == Conn(d) \in urgent

Init ==
  /\ table = [d \in Fds |-> Free]
  /\ stage = [c \in Clients |-> "new"]
  /\ sent = [c \in Clients |-> 0]
  /\ eof = {} /\ urgent = {} /\ queue = <<>> /\ answered = {}
  /\ pc = "listen"
  /\ fds = <<>> /\ todo = <<>> /\ res = <<>>
  /\ ready = [read |-> <<>>, error |-> {}]
  /\ hin = None

-----------------------------------------------------------------------------
(* listen: the socket is made and bound, or closed again and NIL returned. *)
Listen ==
  /\ pc = "listen"
  /\ Install(Port, Srv)
  /\ fds' = <<Port>>
  /\ pc' = "select"
  /\ UNCHANGED <<clientVars, answered, ready, todo, res, hin>>

(* select is then given a list without a number and waits for nothing.     *)
ListenFails ==
  /\ pc = "listen"
  /\ pc' = "hung"
  /\ UNCHANGED <<clientVars, table, answered, fds, ready, todo, res, hin>>

(* convert: the descriptors of the list, in both sets.                     *)
Watched == ToSet(fds)

(* select(): wait for a readable or exceptional descriptor.                *)
Select ==
  /\ pc = "select"
  /\ LET r == {d \in Watched : Readable(d)}
         e == {d \in Watched : Exceptional(d)}
     IN  /\ r \cup e # {}
         /\ ready' = [read |-> [d \in r |-> Conn(d)], error |-> e]
  /\ pc' = "process" /\ todo' = fds
  /\ UNCHANGED <<clientVars, table, answered, fds, res, hin>>

(* select() returns -1, which a signal makes it do (EINTR): lisp gets NIL  *)
(* for both lists, and http/serve ends without a descriptor to go on with. *)
SelectFails ==
  /\ pc \in {"select", "hung"}
  /\ fds' = <<>>
  /\ pc' = "failed"
  /\ UNCHANGED <<clientVars, table, answered, ready, todo, res, hin>>

-----------------------------------------------------------------------------
(* process_r over ON_READ: one element of the list, by what the callback   *)
(* returned: a number, NIL, or anything else.                              *)
Seen == Head(todo)
AtReady == pc = "process" /\ todo # <<>> /\ Seen \in DOMAIN ready.read

ProcessRead(new) ==
  /\ todo' = Tail(todo)
  /\ res' = res \o new \o <<Seen>>

\* Mutant of ProcessNil: the descriptor stays in the list.
MutProcessNil == todo' = Tail(todo) /\ res' = Append(res, Seen)

ProcessNil == todo' = Tail(todo) /\ UNCHANGED res

NotReady ==
  /\ pc = "process" /\ todo # <<>>
  /\ Seen \notin DOMAIN ready.read
  /\ ProcessRead(<<>>)
  /\ UNCHANGED <<clientVars, table, answered, pc, fds, ready, hin>>

(* http/ingress on the listening descriptor: the number accept returned.   *)
Accept ==
  /\ AtReady /\ Seen = Port
  /\ LET c == Head(queue)
     IN  \E d \in Fds :
           /\ Install(d, c)
           /\ stage' = [stage EXCEPT ![c] = "open"]
           /\ ProcessRead(<<d>>)
  /\ queue' = Tail(queue)
  /\ UNCHANGED <<sent, eof, urgent, answered, pc, fds, ready, hin>>

(* accept fails, for want of descriptors or for another reason: its NIL is *)
(* what the callback returns, and select closes the listening socket.      *)
AcceptFails ==
  /\ AtReady /\ Seen = Port
  /\ CloseAll({Port})
  /\ ProcessNil
  /\ UNCHANGED <<clientVars, answered, pc, fds, ready, hin>>

(* http/ingress on a connection: in duplicates the descriptor.             *)
In ==
  /\ AtReady /\ Seen # Port
  /\ \E d \in Fds : Install(d, Conn(Seen)) /\ hin' = d
  /\ pc' = "request"
  /\ UNCHANGED <<clientVars, answered, fds, ready, todo, res>>

(* What select does when the callback returns NIL: close the descriptor    *)
(* that is first in the list.  What the client had sent goes with it.      *)
CloseSeen(also) ==
  /\ CloseAll({Seen} \cup also)
  /\ stage' = [c \in Clients |-> IF c = Conn(Seen) THEN "closed" ELSE stage[c]]
  /\ sent' = [c \in Clients |-> IF c = Conn(Seen) THEN 0 ELSE sent[c]]
  /\ eof' = eof \ {Conn(Seen)}
  /\ urgent' = urgent \ {Conn(Seen)}
  /\ ProcessNil

(* dup fails, in returns NIL and the request is not read.                  *)
InFails ==
  /\ AtReady /\ Seen # Port
  /\ Unused = {}
  /\ CloseSeen({})
  /\ UNCHANGED <<queue, answered, pc, fds, ready, hin>>

(* http/request: a first line that asks for something, and header lines up *)
(* to an empty one or to the end of the input.                             *)
Whole(c) == sent[c] = ReqLines \/ (sent[c] > 0 /\ c \in eof)

\* Mutant of Request: the headers are not waited for.
MutRequest ==
  /\ pc = "request"
  /\ sent[Conn(hin)] > 0
  /\ pc' = "answer"
  /\ UNCHANGED <<clientVars, table, answered, fds, ready, todo, res, hin>>

Request ==
  /\ pc = "request"
  /\ Whole(Conn(hin))
  /\ pc' = "answer"
  /\ UNCHANGED <<clientVars, table, answered, fds, ready, todo, res, hin>>

\* Mutant of NoRequest: at the end of the input the line is read again.
MutNoRequest ==
  /\ pc = "request"
  /\ IF sent[Conn(hin)] > 0
     THEN CloseSeen({hin}) /\ pc' = "process" /\ hin' = None
     ELSE /\ Conn(hin) \in eof
          /\ UNCHANGED <<stage, sent, eof, urgent, table, todo, res, pc, hin>>
  /\ UNCHANGED <<queue, answered, fds, ready>>

(* The first line is not that of a request, or there is none: NIL.         *)
NoRequest ==
  /\ pc = "request"
  /\ sent[Conn(hin)] > 0 \/ Conn(hin) \in eof
  /\ CloseSeen({hin})
  /\ pc' = "process" /\ hin' = None
  /\ UNCHANGED <<queue, answered, fds, ready>>

\* Mutant of Answer: the response is written when the descriptor is closed.
MutAnswer ==
  /\ pc = "answer"
  /\ CloseSeen({hin})
  /\ answered' = IF Unused = {} THEN answered ELSE answered \cup {table'[Seen]}
  /\ pc' = "process" /\ hin' = None
  /\ UNCHANGED <<queue, fds, ready>>

(* out duplicates the descriptor, writes the response and closes the       *)
(* duplicate; without a free number nothing is written.  The callback      *)
(* returns NIL either way, after in has closed its own duplicate.          *)
Answer ==
  /\ pc = "answer"
  /\ answered' = IF Unused = {} THEN answered ELSE answered \cup {Conn(Seen)}
  /\ CloseSeen({hin})
  /\ pc' = "process" /\ hin' = None
  /\ UNCHANGED <<queue, fds, ready>>

\* Mutant of ProcessError: a NIL callback counts as one that returned NIL.
MutProcessError ==
  /\ pc = "process" /\ todo = <<>>
  /\ CloseAll(ready.error)
  /\ fds' = SelectSeq(res, LAMBDA d : d \notin ready.error)
  /\ pc' = IF Len(fds') > 1 THEN "select" ELSE "stopped"
  /\ res' = <<>>
  /\ ready' = [read |-> <<>>, error |-> {}]
  /\ UNCHANGED <<clientVars, answered, todo, hin>>

(* process_r over ON_ERROR, on the list as it was before ON_READ: the      *)
(* callback is NIL, so that its call returns a pair and every descriptor   *)
(* is kept, closed ones included.  http/serve only uses the first list.    *)
ProcessError ==
  /\ pc = "process" /\ todo = <<>>
  /\ fds' = res
  /\ pc' = IF Len(res) > 1 THEN "select" ELSE "stopped"
  /\ res' = <<>>
  /\ ready' = [read |-> <<>>, error |-> {}]
  /\ UNCHANGED <<clientVars, table, answered, todo, hin>>

-----------------------------------------------------------------------------
Connect(c) ==
  /\ stage[c] = "new"
  /\ \A d \in Clients : d < c => stage[d] # "new"
  /\ Open(Srv)
  /\ Len(queue) < Backlog
  /\ stage' = [stage EXCEPT ![c] = "queued"]
  /\ queue' = Append(queue, c)
  /\ UNCHANGED <<sent, eof, urgent, serverVars>>

Connected(c) == stage[c] \in {"queued", "open"}

Send(c) ==
  /\ Connected(c) /\ c \notin eof
  /\ sent[c] < ReqLines
  /\ sent' = [sent EXCEPT ![c] = @ + 1]
  /\ UNCHANGED <<stage, eof, urgent, queue, serverVars>>

Urgent(c) ==
  /\ Connected(c) /\ c \notin eof \cup urgent
  /\ urgent' = urgent \cup {c}
  /\ UNCHANGED <<stage, sent, eof, queue, serverVars>>

Eof(c) ==
  /\ Connected(c) /\ c \notin eof
  /\ eof' = eof \cup {c}
  /\ UNCHANGED <<stage, sent, urgent, queue, serverVars>>

Serve ==
  \/ Listen \/ ListenFails \/ Select
  \/ NotReady \/ Accept \/ AcceptFails \/ In \/ InFails
  \/ Request \/ NoRequest \/ Answer \/ ProcessError

Stopped == pc \in {"stopped", "hung", "failed"} /\ UNCHANGED vars

Next ==
  \/ Serve \/ SelectFails
  \/ \E c \in Clients : Connect(c) \/ Send(c) \/ Urgent(c) \/ Eof(c)
  \/ Stopped

(* The thread runs, and a client sends its whole request or closes: the    *)
(* code has no time-out that would do without this.  A select may fail at  *)
(* any time and need not.                                                  *)
Fairness ==
  /\ WF_vars(Serve)
  /\ \A c \in Clients : WF_vars(Send(c) \/ Eof(c))

Spec == Init /\ [][Next]_vars /\ Fairness

-----------------------------------------------------------------------------
TypeOK ==
  /\ table \in [Fds -> Clients \cup {Srv, Free}]
  /\ stage \in [Clients -> {"new", "queued", "open", "closed"}]
  /\ sent \in [Clients -> 0..ReqLines]
  /\ eof \subseteq Clients /\ urgent \subseteq Clients /\ answered \subseteq Clients
  /\ queue \in Seq(Clients) /\ Len(queue) <= Backlog
  /\ pc \in {"listen", "hung", "select", "process", "request", "answer", "stopped",
            "failed"}
  /\ fds \in Seq(Fds) /\ todo \in Seq(Fds) /\ res \in Seq(Fds)
  /\ hin \in Fds \cup {None}

(* When the loop comes back to select, or ends for want of connections,    *)
(* its list holds every descriptor that is open, once, and no other:       *)
(* nothing was closed twice or kept after it was closed, no duplicate of   *)
(* in is left, and a number that was closed and given to a new connection  *)
(* in the same pass is listed once.  (A select that fails loses the list   *)
(* with everything still open.)                                            *)
ListExact ==
  pc \in {"select", "stopped"} =>
    /\ ToSet(fds) = Fds \ Unused
    /\ IsInjective(fds)

(* A callback is run on the connection that select found ready, although   *)
(* the callbacks before it closed descriptors and accepted connections,    *)
(* which take the lowest free numbers.                                     *)
CallbackFresh ==
  pc \in {"process", "request", "answer"} =>
    \A d \in ToSet(todo) \cap DOMAIN ready.read : Conn(d) = ready.read[d]

(* A connection has a descriptor until the server has finished with it.    *)
OwnDescriptor ==
  \A c \in Clients : stage[c] = "open" <=> Open(c)

DescriptorsFresh == CallbackFresh /\ OwnDescriptor

(* A response goes to a client that sent its request to the end, and its   *)
(* connection is then closed once and for all.                             *)
AnswersRequests ==
  [][/\ \A c \in answered' \ answered : Whole(c) /\ stage'[c] = "closed"
     /\ \A c \in Clients : stage[c] = "closed" => stage'[c] = "closed" /\ ~Open(c)']_vars

(* A connection that was accepted is finished with, as long as neither     *)
(* accept failed (then the loop may stop with one connection left) nor     *)
(* select (then it stops at once).                                         *)
Served ==
  \A c \in Clients :
    stage[c] = "open" ~>
      \/ stage[c] = "closed"
      \/ pc = "stopped" /\ ~Open(Srv)
      \/ pc = "failed"

=============================================================================
