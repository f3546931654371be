------------------------------ MODULE Session -------------------------------
(***************************************************************************)
(* Clients, the listening process of the server and the processes it forks *)
(* (client_dir/client.c, server_dir/server.c).  A client sends a query and *)
(* waits for its answer; the listener accepts a connection and forks a     *)
(* child that reads queries from it and answers them for ever.             *)
(*                                                                         *)
(* What a query does is left out: a child that has read one answers it or  *)
(* dies of it.  What is kept is who holds which descriptor, how the bytes  *)
(* of a stream fall into calls of recv, and which tree the client sends.   *)
(*                                                                         *)
(* An answer is one or more units of bytes, a tag for each; BufUnits of    *)
(* them fill the client's buffer.  Both ends are on one host (client.c     *)
(* connects to 127.0.0.1), so one `send` that fits is there as a whole.    *)
(***************************************************************************)
EXTENDS Integers, Sequences, SequencesExt, FiniteSets

CONSTANTS
  Client,      \* client processes; a child is named by the client it serves
  Listener,    \* the process of the server's main()
  FdLimit,     \* connections the listener can hold open
  AnswerUnits, \* sizes of answers
  BufUnits,    \* what one recv of the client takes (4086 bytes)
  MaxSent      \* bound: messages each client sends

ASSUME ListenerAssumption == Listener \notin Client
ASSUME LimitAssumption ==
  /\ FdLimit \in Nat \ {0}
  /\ BufUnits \in Nat \ {0} /\ MaxSent \in [Client -> Nat]
  /\ AnswerUnits \subseteq Nat \ {0} /\ AnswerUnits # {}

Process == Client \cup {Listener}

VARIABLES
  client,   \* "off", "typing" (in yyparse), "waiting" (in recv) or "dead"
  ast,      \* the client's global `ast`, as the number of queries accepted
  sent,     \* messages the client has sent
  listener, \* "up" or "dead"
  accepted, \* the connections that left the backlog
  child,    \* "none", "reading" (in recv), "working" or "dead"
  batch,    \* the messages the child's last recv returned
  ran,      \* the trees it has worked on
  fds,      \* the connections each server process has a descriptor of
  queries,  \* bytes under way: messages, [no, ast]
  answers,  \* ... and units, the number of the message they answer
  shown,    \* what the client's last recv returned
  cut       \* whether an answer has been longer than the client's buffer

clientVars == <<client, ast, sent, shown>>
serverVars == <<listener, accepted, child, batch, ran, fds, cut>>
streams == <<queries, answers>>
vars == <<clientVars, serverVars, streams>>

Up(c) == child[c] \in {"reading", "working"}

\* Every child keeps the listening socket too.
Listening == listener = "up" \/ \E c \in Client : Up(c)

\* No process is left that could answer on, or has to close, a connection.
Closed(c) ==
  IF c \in accepted THEN \A p \in Process : c \notin fds[p] ELSE ~ Listening

-----------------------------------------------------------------------------
Init ==
  /\ client = [c \in Client |-> "off"]
  /\ ast = [c \in Client |-> 0]
  /\ sent = [c \in Client |-> 0]
  /\ listener = "up"
  /\ accepted = {}
  /\ child = [c \in Client |-> "none"]
  /\ batch = [c \in Client |-> <<>>]
  /\ ran = [c \in Client |-> <<>>]
  /\ fds = [p \in Process |-> {}]
  /\ queries = [c \in Client |-> <<>>]
  /\ answers = [c \in Client |-> <<>>]
  /\ shown = [c \in Client |-> <<>>]
  /\ cut = [c \in Client |-> FALSE]

\* main() of the client, up to its loop.  A connection is made as soon as
\* there is a listening socket, accepted or not.
Connect(c) ==
  /\ client[c] = "off"
  /\ client' = [client EXCEPT ![c] = IF Listening THEN "typing" ELSE "dead"]
  /\ UNCHANGED <<ast, sent, shown, serverVars, streams>>

\* send_message.  On a connection that is closed the process is killed.
Send(c, tree) ==
  IF Closed(c)
  THEN /\ client' = [client EXCEPT ![c] = "dead"]
       /\ UNCHANGED <<sent, queries>>
  ELSE /\ sent[c] < MaxSent[c]
       /\ client' = [client EXCEPT ![c] = "waiting"]
       /\ sent' = [sent EXCEPT ![c] = @ + 1]
       /\ queries' = [queries EXCEPT ![c] = Append(@, [no |-> sent[c] + 1, ast |-> tree])]

\* Mistake: the tree is converted before yyparse builds the new one.
AcceptedStale(c) ==
  /\ client[c] = "typing"
  /\ ast' = [ast EXCEPT ![c] = @ + 1]
  /\ Send(c, ast[c])
  /\ UNCHANGED <<shown, serverVars, answers>>

\* Mistake: the client goes on to the next query without an answer.
AcceptedUnread(c) ==
  /\ client[c] = "typing"
  /\ ast' = [ast EXCEPT ![c] = @ + 1]
  /\ sent[c] < MaxSent[c]
  /\ sent' = [sent EXCEPT ![c] = @ + 1]
  /\ queries' = [queries EXCEPT ![c] = Append(@, [no |-> sent[c] + 1, ast |-> ast[c] + 1])]
  /\ UNCHANGED <<client, shown, serverVars, answers>>

\* yyparse accepts a query, whose tree becomes `ast`.
Accepted(c) ==
  /\ client[c] = "typing"
  /\ ast' = [ast EXCEPT ![c] = @ + 1]
  /\ Send(c, ast[c] + 1)
  /\ UNCHANGED <<shown, serverVars, answers>>

\* Mistake: a rejected line is sent but its answer is not read.
RejectedUnread(c) ==
  /\ client[c] = "typing"
  /\ ast[c] # 0
  /\ sent[c] < MaxSent[c]
  /\ sent' = [sent EXCEPT ![c] = @ + 1]
  /\ queries' = [queries EXCEPT ![c] = Append(@, [no |-> sent[c] + 1, ast |-> ast[c]])]
  /\ UNCHANGED <<client, ast, shown, serverVars, answers>>

\* Mistake: nothing is sent for a rejected line, but an answer is read.
RejectedUnsent(c) ==
  /\ client[c] = "typing"
  /\ ast[c] # 0
  /\ client' = [client EXCEPT ![c] = "waiting"]
  /\ UNCHANGED <<ast, sent, shown, serverVars, streams>>

\* yyparse fails, on an error or at the end of the input.  Its result is not
\* looked at: the last tree is sent again, and there must be one.
Rejected(c) ==
  /\ client[c] = "typing"
  /\ IF ast[c] = 0
     THEN client' = [client EXCEPT ![c] = "dead"] /\ UNCHANGED <<sent, queries>>
     ELSE Send(c, ast[c])
  /\ UNCHANGED <<ast, shown, serverVars, answers>>

\* recv, once, and print_response.  It takes what is there, up to the size of
\* the buffer.  At the end of the stream it returns nothing, which unpacks to
\* a response without the node that print_response prints.
ClientReceive(c) ==
  /\ client[c] = "waiting"
  /\ \/ /\ answers[c] # <<>>
        /\ LET n == IF Len(answers[c]) < BufUnits THEN Len(answers[c]) ELSE BufUnits
           IN  /\ shown' = [shown EXCEPT ![c] = SubSeq(answers[c], 1, n)]
               /\ answers' = [answers EXCEPT ![c] = SubSeq(@, n + 1, Len(@))]
        /\ client' = [client EXCEPT ![c] = "typing"]
     \/ /\ answers[c] = <<>> /\ Closed(c)
        /\ client' = [client EXCEPT ![c] = "dead"]
        /\ UNCHANGED <<shown, answers>>
  /\ UNCHANGED <<ast, sent, serverVars, queries>>

\* The user ends the client.
Quit(c) ==
  /\ client[c] \in {"typing", "waiting"}
  /\ client' = [client EXCEPT ![c] = "dead"]
  /\ UNCHANGED <<ast, sent, shown, serverVars, streams>>

-----------------------------------------------------------------------------
\* A process that ends closes its descriptors.
Exit(p) == fds' = [fds EXCEPT ![p] = {}]

NoDescriptorLeft == Cardinality(fds[Listener]) >= FdLimit

\* accept and fork.  The listener keeps its descriptor of the connection and
\* the child inherits those of all earlier ones.  fork may fail, the sooner as
\* nobody waits for the children that have ended; the listener goes on as if it
\* had not.
Accept(c) ==
  /\ listener = "up"
  /\ ~ NoDescriptorLeft
  /\ client[c] # "off" /\ c \notin accepted
  /\ accepted' = accepted \cup {c}
  /\ \/ /\ child' = [child EXCEPT ![c] = "reading"]
        /\ fds' = [fds EXCEPT ![Listener] = @ \cup {c},
                              ![c] = fds[Listener] \cup {c}]
     \/ /\ fds' = [fds EXCEPT ![Listener] = @ \cup {c}]
        /\ UNCHANGED child
  /\ UNCHANGED <<listener, batch, ran, cut, clientVars, streams>>

\* accept fails, for want of a descriptor or for a reason of the network.
AcceptFails ==
  /\ listener = "up"
  /\ listener' = "dead"
  /\ Exit(Listener)
  /\ UNCHANGED <<accepted, child, batch, ran, cut, clientVars, streams>>

\* recv of server_jobs takes the messages that are there as one.
ChildReceive(c) ==
  /\ child[c] = "reading"
  /\ queries[c] # <<>>
  /\ batch' = [batch EXCEPT ![c] = queries[c]]
  /\ queries' = [queries EXCEPT ![c] = <<>>]
  /\ child' = [child EXCEPT ![c] = "working"]
  /\ UNCHANGED <<listener, accepted, ran, fds, cut, clientVars, answers>>

\* ast__unpack, norm_construct, exec and send_message.  Two messages in a row
\* unpack to one, in which the fields of the later one prevail.
Answer(c, units) ==
  /\ child[c] = "working"
  /\ child' = [child EXCEPT ![c] = "reading"]
  /\ batch' = [batch EXCEPT ![c] = <<>>]
  /\ ran' = [ran EXCEPT ![c] = Append(@, Last(batch[c]).ast)]
  /\ answers' = [answers EXCEPT
                   ![c] = @ \o [k \in 1 .. units |-> Last(batch[c]).no]]
  /\ cut' = [cut EXCEPT ![c] = @ \/ units > BufUnits]
  /\ UNCHANGED <<listener, accepted, fds, clientVars, queries>>

\* Mistake: the end of the stream is not an empty message to the child.
ChildDiesOfQuery(c) ==
  /\ child[c] = "working"
  /\ child' = [child EXCEPT ![c] = "dead"]
  /\ batch' = [batch EXCEPT ![c] = <<>>]
  /\ Exit(c)
  /\ UNCHANGED <<listener, accepted, ran, cut, clientVars, streams>>

\* The child dies of the query: a message longer than its buffer, an index or a
\* node that is not there, two messages that do not make one.  At the end of the
\* stream it dies of an empty message; it has no other way to end.
ChildDies(c) ==
  /\ \/ child[c] = "working"
     \/ child[c] = "reading" /\ queries[c] = <<>> /\ client[c] = "dead"
  /\ child' = [child EXCEPT ![c] = "dead"]
  /\ batch' = [batch EXCEPT ![c] = <<>>]
  /\ Exit(c)
  /\ UNCHANGED <<listener, accepted, ran, cut, clientVars, streams>>

Child(c) ==
  ChildReceive(c) \/ ChildDies(c) \/ \E units \in AnswerUnits : Answer(c, units)

Next ==
  \/ \E c \in Client :
       \/ Connect(c) \/ Accepted(c) \/ Rejected(c) \/ ClientReceive(c) \/ Quit(c)
       \/ Accept(c) \/ Child(c)
  \/ AcceptFails

\* Whoever can go on without the user does.
Fairness ==
  /\ \A c \in Client : /\ WF_vars(ClientReceive(c))
                       /\ WF_vars(Child(c))
                       /\ WF_vars(Accept(c))
  /\ WF_vars(NoDescriptorLeft /\ AcceptFails)

Spec == Init /\ [][Next]_vars /\ Fairness

-----------------------------------------------------------------------------
TypeOK ==
  /\ client \in [Client -> {"off", "typing", "waiting", "dead"}]
  /\ listener \in {"up", "dead"}
  /\ accepted \subseteq Client
  /\ child \in [Client -> {"none", "reading", "working", "dead"}]
  /\ fds \in [Process -> SUBSET Client]
  /\ \A c \in Client :
       /\ ast[c] \in 0 .. MaxSent[c] + 1 /\ sent[c] \in 0 .. MaxSent[c]
       /\ ToSet(queries[c]) \cup ToSet(batch[c]) \subseteq [no : 1 .. MaxSent[c], ast : 1 .. MaxSent[c]]
       /\ ToSet(answers[c]) \cup ToSet(shown[c]) \subseteq 1 .. MaxSent[c]
       /\ ToSet(ran[c]) \subseteq 1 .. MaxSent[c]
  /\ cut \in [Client -> BOOLEAN]

\* What the user is shown is the whole answer to the query sent last, as long as
\* no answer was longer than the buffer of client.c:53 - whatever lines were
\* rejected in between, and whatever the other clients and their children do.
InStep ==
  \A c \in Client :
    (client[c] = "typing" /\ ~ cut[c] /\ sent[c] > 0) =>
      /\ ToSet(shown[c]) = {sent[c]}
      /\ answers[c] = <<>> /\ queries[c] = <<>>

\* A client and its child never both wait for the other, even when they are out
\* of step and two messages were read as one (client.c:53, server.c:25).
NoMutualWait ==
  \A c \in Client :
    ~ /\ client[c] = "waiting" /\ answers[c] = <<>>
      /\ child[c] = "reading" /\ queries[c] = <<>>

\* The queries run in the order in which they were typed, from the first on.  One
\* may run again, since the client sends it again after a line that the parser
\* rejects; one is passed over only when an answer before it was longer than the
\* client's buffer.
RanInOrder ==
  \A c \in Client :
    /\ \A i \in 2 .. Len(ran[c]) :
         /\ ran[c][i] >= ran[c][i-1]
         /\ ran[c][i] > ran[c][i-1] + 1 => cut[c]
    /\ ran[c] # <<>> => ran[c][1] = 1

\* Nobody is left to read or answer on the connection, though some process of
\* the server still has it open or could still accept it.
Stranded(c) == ~ Up(c) /\ ~ Closed(c) /\ (c \in accepted \/ listener = "dead")

\* A client that waits gets an answer, or its end, unless its connection is
\* stranded: dead children, clients that quit and the end of the listener cost
\* the others nothing.
WaitingEnds ==
  \A c \in Client : (client[c] = "waiting") ~> (client[c] # "waiting" \/ Stranded(c))

\* The child of a client that is gone ends, and with it its descriptors of the
\* connections of others; the code has no other reason for it to end.
ChildrenEnd ==
  \A c \in Client : (client[c] = "dead" /\ Up(c)) ~> (fds[c] = {})
=============================================================================
