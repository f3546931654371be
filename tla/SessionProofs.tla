--------------------------- MODULE SessionProofs ----------------------------
(***************************************************************************)
(* Proofs about the clients and the processes of the server, for any set   *)
(* of clients, any sizes of answers and any number of messages.            *)
(*                                                                         *)
(* None of the properties of Session is inductive: what a client is shown  *)
(* depends on which bytes are under way when it types, and what its child  *)
(* runs on how messages met in one recv.  IInv says where the messages and *)
(* the units of a client can be (ClientInv), whatever the others do.       *)
(***************************************************************************)
EXTENDS Session, SequenceTheorems, TLAPS

Message == [no : Nat, ast : Nat]

Typed ==
  /\ client \in [Client -> {"off", "typing", "waiting", "dead"}]
  /\ ast \in [Client -> Nat] /\ sent \in [Client -> Nat]
  /\ listener \in {"up", "dead"}
  /\ accepted \subseteq Client
  /\ child \in [Client -> {"none", "reading", "working", "dead"}]
  /\ batch \in [Client -> Seq(Message)] /\ queries \in [Client -> Seq(Message)]
  /\ ran \in [Client -> Seq(Nat)]
  /\ answers \in [Client -> Seq(Nat)] /\ shown \in [Client -> Seq(Nat)]
  /\ fds \in [Process -> SUBSET Client]
  /\ cut \in [Client -> BOOLEAN]

\* What a client can have sent before it connects, and a child done before
\* it was forked: nothing.  A child works exactly as long as it holds a batch.
Begun(c) ==
  /\ client[c] = "off" =>
       /\ sent[c] = 0 /\ ast[c] = 0 /\ queries[c] = <<>> /\ child[c] = "none"
  /\ c \notin accepted => child[c] = "none"
  /\ child[c] = "none" => ran[c] = <<>> /\ answers[c] = <<>>
  /\ child[c] = "working" <=> batch[c] # <<>>
  /\ cut[c] => ran[c] # <<>>

\* Everything under way was sent by the client and is no newer than its last
\* message; only a client that dies as it sends has a tree it has not sent.
Counted(c) ==
  /\ sent[c] <= MaxSent[c]
  /\ ast[c] <= IF client[c] = "dead" THEN sent[c] + 1 ELSE sent[c]
  /\ \A i \in 1 .. Len(queries[c]) :
       /\ queries[c][i].no \in 1 .. sent[c]
       /\ queries[c][i].ast \in 1 .. sent[c] /\ queries[c][i].ast <= ast[c]
  /\ \A i \in 1 .. Len(batch[c]) :
       /\ batch[c][i].no \in 1 .. sent[c]
       /\ batch[c][i].ast \in 1 .. sent[c] /\ batch[c][i].ast <= ast[c]
  /\ \A i \in 1 .. Len(ran[c]) : ran[c][i] \in 1 .. sent[c] /\ ran[c][i] <= ast[c]
  /\ \A i \in 1 .. Len(answers[c]) : answers[c][i] \in 1 .. sent[c]
  /\ \A i \in 1 .. Len(shown[c]) : shown[c][i] \in 1 .. sent[c]

\* What has run comes before what the child holds, and that before what it has
\* not read; within each the trees are in the order they were typed in.
InOrder(c) ==
  /\ \A i, j \in 1 .. Len(queries[c]) : i <= j => queries[c][i].ast <= queries[c][j].ast
  /\ \A i, j \in 1 .. Len(batch[c]) : i <= j => batch[c][i].ast <= batch[c][j].ast
  /\ \A i \in 1 .. Len(batch[c]), j \in 1 .. Len(queries[c]) :
       batch[c][i].ast <= queries[c][j].ast
  /\ \A i \in 1 .. Len(ran[c]), j \in 1 .. Len(batch[c]) : ran[c][i] <= batch[c][j].ast
  /\ \A i \in 1 .. Len(ran[c]), j \in 1 .. Len(queries[c]) : ran[c][i] <= queries[c][j].ast
  /\ \A i, j \in 1 .. Len(ran[c]) : i <= j => ran[c][i] <= ran[c][j]

\* Whom a waiting client waits for: its message is on its way, or its child
\* works on one, or an answer is there, or nobody will ever answer.
Awaited(c) ==
  client[c] = "waiting" =>
    \/ queries[c] # <<>> \/ answers[c] # <<>>
    \/ child[c] \in {"working", "dead"}

\* The next tree to run after those that have: the same one again, or the next.
Follows(c, tree) ==
  IF ran[c] = <<>> THEN tree = 1
  ELSE tree \in {ran[c][Len(ran[c])], ran[c][Len(ran[c])] + 1}

\* As long as no answer was longer than the buffer one message at most is
\* under way, as a message or as its whole answer, and nothing is while the
\* client types.
OneUnderWay(c) ==
  ~ cut[c] =>
    /\ queries[c] = <<>> \/ batch[c] = <<>>
    /\ Len(queries[c]) <= 1 /\ Len(batch[c]) <= 1
    /\ \A i \in 1 .. Len(queries[c]) : Follows(c, queries[c][i].ast)
    /\ \A i \in 1 .. Len(batch[c]) : Follows(c, batch[c][i].ast)
    /\ client[c] = "typing" =>
         /\ queries[c] = <<>> /\ batch[c] = <<>> /\ answers[c] = <<>>
         /\ IF sent[c] = 0 THEN ran[c] = <<>>
            ELSE /\ ran[c] # <<>> /\ ran[c][Len(ran[c])] = ast[c]
                 /\ shown[c] # <<>>
                 /\ \A i \in 1 .. Len(shown[c]) : shown[c][i] = sent[c]
    /\ client[c] = "waiting" =>
         /\ \A i \in 1 .. Len(queries[c]) : queries[c][i] = [no |-> sent[c], ast |-> ast[c]]
         /\ \A i \in 1 .. Len(batch[c]) : batch[c][i] = [no |-> sent[c], ast |-> ast[c]]
         /\ answers[c] # <<>> =>
              /\ queries[c] = <<>> /\ batch[c] = <<>>
              /\ ran[c] # <<>> /\ ran[c][Len(ran[c])] = ast[c]
              /\ Len(answers[c]) <= BufUnits
              /\ \A i \in 1 .. Len(answers[c]) : answers[c][i] = sent[c]

\* The first tree to run is the first one typed, and the next ones follow.
NonePassedOver(c) ==
  /\ ran[c] # <<>> => ran[c][1] = 1
  /\ \A i \in 2 .. Len(ran[c]) : ran[c][i] > ran[c][i-1] + 1 => cut[c]

ClientInv(c) ==
  /\ Begun(c) /\ Counted(c) /\ InOrder(c)
  /\ Awaited(c) /\ OneUnderWay(c) /\ NonePassedOver(c)

IInv == Typed /\ \A c \in Client : ClientInv(c)

-----------------------------------------------------------------------------
LEMMA ConstantFacts ==
  /\ BufUnits \in Nat /\ BufUnits > 0
  /\ \A c \in Client : MaxSent[c] \in Nat
  /\ \A u \in AnswerUnits : u \in Nat /\ u > 0
BY LimitAssumption

\* A step of others leaves the invariant of a client alone.
LEMMA Frame ==
  ASSUME NEW c \in Client, ClientInv(c),
         client'[c] = client[c], ast'[c] = ast[c], sent'[c] = sent[c],
         child'[c] = child[c], batch'[c] = batch[c], ran'[c] = ran[c],
         queries'[c] = queries[c], answers'[c] = answers[c],
         shown'[c] = shown[c], cut'[c] = cut[c],
         c \in accepted' <=> c \in accepted
  PROVE  ClientInv(c)'
<1>1. Begun(c)'
  BY DEF ClientInv, Begun
<1>2. Counted(c)'
  BY DEF ClientInv, Counted
<1>3. InOrder(c)'
  BY DEF ClientInv, InOrder
<1>4. Awaited(c)'
  BY DEF ClientInv, Awaited
<1>5. OneUnderWay(c)'
  BY DEF ClientInv, OneUnderWay, Follows
<1>6. NonePassedOver(c)'
  BY DEF ClientInv, NonePassedOver
<1>. QED BY <1>1, <1>2, <1>3, <1>4, <1>5, <1>6 DEF ClientInv

\* Nothing has happened yet.
LEMMA InitIInv == Init => IInv
<1> SUFFICES ASSUME Init PROVE IInv
  OBVIOUS
<1>1. Typed
  <2>1. \A S : <<>> \in Seq(S)
    OBVIOUS
  <2>. QED BY <2>1 DEF Init, Typed, Message
<1>2. ASSUME NEW c \in Client PROVE ClientInv(c)
  <2>1. /\ client[c] = "off" /\ ast[c] = 0 /\ sent[c] = 0 /\ child[c] = "none"
        /\ batch[c] = <<>> /\ ran[c] = <<>> /\ queries[c] = <<>>
        /\ answers[c] = <<>> /\ shown[c] = <<>> /\ cut[c] = FALSE
    BY DEF Init
  <2>. QED
    BY <2>1, ConstantFacts DEF ClientInv, Begun, Counted, InOrder, Awaited, OneUnderWay,
       NonePassedOver
<1>. QED BY <1>1, <1>2 DEF IInv

\* The client connects, or ends: it has nothing new under way.
LEMMA ConnectStep == ASSUME IInv, NEW c \in Client, Connect(c) PROVE IInv'
<1>1. Typed'
  BY DEF IInv, Typed, Connect, clientVars, serverVars, streams
<1>2. ASSUME NEW d \in Client \ {c} PROVE ClientInv(d)'
  BY Frame DEF IInv, Typed, Connect, serverVars, streams
<1>3. ClientInv(c)'
  <2>1. /\ client'[c] \in {"typing", "dead"} /\ client[c] = "off"
        /\ UNCHANGED <<ast, sent, shown, serverVars, streams>>
    BY DEF IInv, Typed, Connect
  <2>. USE DEF serverVars, streams
  <2>2. Begun(c) /\ Counted(c) /\ InOrder(c) /\ OneUnderWay(c) /\ NonePassedOver(c)
    BY DEF IInv, ClientInv
  <2>3. /\ sent[c] = 0 /\ ast[c] = 0 /\ queries[c] = <<>> /\ batch[c] = <<>>
        /\ ran[c] = <<>> /\ answers[c] = <<>>
    BY <2>1, <2>2 DEF Begun
  <2>4. Begun(c)'
    BY <2>1, <2>2 DEF Begun
  <2>5. Counted(c)'
    BY <2>1, <2>2, <2>3 DEF Counted
  <2>6. InOrder(c)' /\ NonePassedOver(c)'
    BY <2>1, <2>2 DEF InOrder, NonePassedOver
  <2>7. Awaited(c)'
    BY <2>1 DEF Awaited
  <2>8. OneUnderWay(c)'
    BY <2>1, <2>2, <2>3 DEF OneUnderWay
  <2>. QED BY <2>4, <2>5, <2>6, <2>7, <2>8 DEF ClientInv
<1>. QED BY <1>1, <1>2, <1>3 DEF IInv

LEMMA QuitStep == ASSUME IInv, NEW c \in Client, Quit(c) PROVE IInv'
<1>1. Typed'
  BY DEF IInv, Typed, Quit, clientVars, serverVars, streams
<1>2. ASSUME NEW d \in Client \ {c} PROVE ClientInv(d)'
  BY Frame DEF IInv, Typed, Quit, serverVars, streams
<1>3. ClientInv(c)'
  <2>1. /\ client'[c] = "dead" /\ client[c] \in {"typing", "waiting"}
        /\ UNCHANGED <<ast, sent, shown, serverVars, streams>>
    BY DEF IInv, Typed, Quit
  <2>. USE DEF serverVars, streams
  <2>2. Begun(c) /\ Counted(c) /\ InOrder(c) /\ OneUnderWay(c) /\ NonePassedOver(c)
    BY DEF IInv, ClientInv
  <2>3. ast[c] \in Nat /\ sent[c] \in Nat
    BY DEF IInv, Typed
  <2>4. Begun(c)'
    BY <2>1, <2>2 DEF Begun
  <2>5. Counted(c)'
    BY <2>1, <2>2, <2>3 DEF Counted
  <2>6. InOrder(c)' /\ NonePassedOver(c)'
    BY <2>1, <2>2 DEF InOrder, NonePassedOver
  <2>7. Awaited(c)'
    BY <2>1 DEF Awaited
  <2>8. OneUnderWay(c)'
    BY <2>1, <2>2 DEF OneUnderWay, Follows
  <2>. QED BY <2>4, <2>5, <2>6, <2>7, <2>8 DEF ClientInv
<1>. QED BY <1>1, <1>2, <1>3 DEF IInv

\* A client sends a tree, the last one again or the next: the message is the
\* newest of all, and the only one unless an answer has been cut.
LEMMA SendStep ==
  ASSUME IInv, NEW c \in Client, NEW tree \in {ast[c], ast[c] + 1}, tree > 0,
         client[c] = "typing", ast' = [ast EXCEPT ![c] = tree], Send(c, tree),
         UNCHANGED <<shown, serverVars, answers>>
  PROVE  IInv'
<1>. USE DEF serverVars
<1>1. ast[c] \in Nat /\ tree \in Nat /\ sent[c] \in Nat /\ queries[c] \in Seq(Message)
  BY DEF IInv, Typed
<1>2. /\ Begun(c) /\ Counted(c) /\ InOrder(c) /\ OneUnderWay(c) /\ NonePassedOver(c)
      /\ ast'[c] = tree
  BY DEF IInv, Typed, ClientInv
<1>3. CASE /\ client' = [client EXCEPT ![c] = "dead"]
           /\ UNCHANGED <<sent, queries>>
  <2>1. Typed'
    BY <1>1, <1>3 DEF IInv, Typed
  <2>2. ASSUME NEW d \in Client \ {c} PROVE ClientInv(d)'
    BY <1>3, Frame DEF IInv, Typed
  <2>3. client'[c] = "dead"
    BY <1>3 DEF IInv, Typed
  <2>4. Begun(c)' /\ Awaited(c)'
    BY <1>2, <1>3, <2>3 DEF Begun, Awaited
  <2>5. InOrder(c)' /\ NonePassedOver(c)'
    BY <1>2, <1>3 DEF InOrder, NonePassedOver
  <2>6. Counted(c)'
    <3>1. ast[c] <= sent[c] /\ tree <= sent[c] + 1 /\ ast[c] <= tree
      BY <1>1, <1>2 DEF Counted
    <3>2. sent'[c] = sent[c] /\ queries'[c] = queries[c]
      BY <1>3
    <3>3. ASSUME NEW i \in 1 .. Len(queries[c])
          PROVE  /\ queries[c][i].no \in 1 .. sent[c]
                 /\ queries[c][i].ast \in 1 .. sent[c] /\ queries[c][i].ast <= tree
      BY <1>1, <1>2, <3>1 DEF Counted
    <3>4. ASSUME NEW i \in 1 .. Len(batch[c])
          PROVE  /\ batch[c][i].no \in 1 .. sent[c]
                 /\ batch[c][i].ast \in 1 .. sent[c] /\ batch[c][i].ast <= tree
      BY <1>1, <1>2, <3>1 DEF Counted
    <3>5. ASSUME NEW i \in 1 .. Len(ran[c])
          PROVE  ran[c][i] \in 1 .. sent[c] /\ ran[c][i] <= tree
      BY <1>1, <1>2, <3>1 DEF Counted
    <3>. QED BY <1>2, <2>3, <3>1, <3>2, <3>3, <3>4, <3>5 DEF Counted
  <2>7. OneUnderWay(c)'
    BY <1>2, <1>3, <2>3 DEF OneUnderWay, Follows
  <2>. QED BY <2>1, <2>2, <2>4, <2>5, <2>6, <2>7 DEF IInv, ClientInv
<1>4. CASE /\ sent[c] < MaxSent[c]
           /\ client' = [client EXCEPT ![c] = "waiting"]
           /\ sent' = [sent EXCEPT ![c] = @ + 1]
           /\ queries' = [queries EXCEPT
                            ![c] = Append(@, [no |-> sent[c] + 1, ast |-> tree])]
  <2>. DEFINE m == [no |-> sent[c] + 1, ast |-> tree]
              n == Len(queries[c])
  <2>1. /\ m \in Message /\ n \in Nat
        /\ Append(queries[c], m) \in Seq(Message) /\ Len(Append(queries[c], m)) = n + 1
        /\ \A i \in 1 .. n : Append(queries[c], m)[i] = queries[c][i]
        /\ Append(queries[c], m)[n + 1] = m
    BY <1>1, AppendProperties, LenProperties DEF Message
  <2>2. Typed'
    BY <1>1, <1>4, <2>1, SMTT(60) DEF IInv, Typed
  <2>3. ASSUME NEW d \in Client \ {c} PROVE ClientInv(d)'
    BY <1>4, Frame DEF IInv, Typed
  <2>4. /\ client'[c] = "waiting" /\ sent'[c] = sent[c] + 1
        /\ queries'[c] = Append(queries[c], m)
    BY <1>4 DEF IInv, Typed
  <2>5. /\ Len(queries'[c]) = n + 1 /\ queries'[c] # <<>>
        /\ \A i \in 1 .. n : queries'[c][i] = queries[c][i]
        /\ queries'[c][n + 1] = m
    BY <2>1, <2>4
  <2>6. m.no = sent[c] + 1 /\ m.ast = tree
    OBVIOUS
  <2>7. ast[c] <= sent[c] /\ tree \in 1 .. sent[c] + 1 /\ ast[c] <= tree
    BY <1>1, <1>2 DEF Counted
  <2>. HIDE DEF m, n
  <2>8. Begun(c)' /\ Awaited(c)'
    BY <1>2, <1>4, <2>4, <2>5 DEF Begun, Awaited
  <2>9. Counted(c)'
    <3>1. sent'[c] <= MaxSent[c] /\ ast'[c] <= sent'[c]
      BY <1>1, <1>2, <1>4, <2>4, <2>7, ConstantFacts
    <3>2. ASSUME NEW i \in 1 .. Len(queries'[c])
          PROVE  /\ queries'[c][i].no \in 1 .. sent'[c]
                 /\ queries'[c][i].ast \in 1 .. sent'[c] /\ queries'[c][i].ast <= ast'[c]
      <4>1. CASE i = n + 1
        BY <1>1, <1>2, <2>4, <2>5, <2>6, <2>7, <4>1
      <4>2. CASE i \in 1 .. n
        BY <1>1, <1>2, <2>4, <2>5, <2>7, <4>2, SMTT(60) DEF Counted, n
      <4>. QED BY <2>1, <2>5, <4>1, <4>2
    <3>3. ASSUME NEW i \in 1 .. Len(batch[c])
          PROVE  /\ batch[c][i].no \in 1 .. sent'[c]
                 /\ batch[c][i].ast \in 1 .. sent'[c] /\ batch[c][i].ast <= ast'[c]
      BY <1>1, <1>2, <2>4, <2>7, SMTT(30) DEF Counted
    <3>4. ASSUME NEW i \in 1 .. Len(ran[c])
          PROVE  ran[c][i] \in 1 .. sent'[c] /\ ran[c][i] <= ast'[c]
      BY <1>1, <1>2, <2>4, <2>7 DEF Counted
    <3>5. /\ \A i \in 1 .. Len(answers[c]) : answers[c][i] \in 1 .. sent'[c]
          /\ \A i \in 1 .. Len(shown[c]) : shown[c][i] \in 1 .. sent'[c]
      BY <1>1, <1>2, <2>4 DEF Counted
    <3>. QED BY <2>4, <3>1, <3>2, <3>3, <3>4, <3>5 DEF Counted
  <2>10. InOrder(c)'
    <3>1. ASSUME NEW i \in 1 .. Len(queries'[c]), NEW j \in 1 .. Len(queries'[c]), i <= j
          PROVE  queries'[c][i].ast <= queries'[c][j].ast
      <4>1. \A k \in 1 .. n : queries[c][k].ast <= tree
        BY <1>1, <1>2, <2>7 DEF Counted, n
      <4>2. CASE j = n + 1
        BY <1>1, <2>1, <2>5, <2>6, <3>1, <4>1, <4>2, SMTT(60)
      <4>3. CASE j \in 1 .. n
        BY <1>2, <2>1, <2>5, <3>1, <4>3 DEF InOrder, n
      <4>. QED BY <2>1, <2>5, <4>2, <4>3
    <3>2. ASSUME NEW i \in 1 .. Len(batch[c]), NEW j \in 1 .. Len(queries'[c])
          PROVE  batch[c][i].ast <= queries'[c][j].ast
      <4>1. batch[c][i].ast <= tree
        BY <1>1, <1>2, <2>7 DEF Counted
      <4>2. CASE j \in 1 .. n
        BY <1>2, <2>5, <4>2 DEF InOrder, n
      <4>. QED BY <2>1, <2>5, <2>6, <4>1, <4>2
    <3>3. ASSUME NEW i \in 1 .. Len(ran[c]), NEW j \in 1 .. Len(queries'[c])
          PROVE  ran[c][i] <= queries'[c][j].ast
      <4>1. ran[c][i] <= tree
        BY <1>1, <1>2, <2>7 DEF Counted
      <4>2. CASE j \in 1 .. n
        BY <1>2, <2>5, <4>2 DEF InOrder, n
      <4>. QED BY <2>1, <2>5, <2>6, <4>1, <4>2
    <3>. QED BY <1>2, <3>1, <3>2, <3>3 DEF InOrder
  <2>11. OneUnderWay(c)'
    <3>. SUFFICES ASSUME ~ cut[c] PROVE OneUnderWay(c)'
      BY DEF OneUnderWay
    <3>1. /\ queries[c] = <<>> /\ batch[c] = <<>> /\ answers[c] = <<>>
          /\ IF sent[c] = 0 THEN ran[c] = <<>>
             ELSE ran[c] # <<>> /\ ran[c][Len(ran[c])] = ast[c]
      BY <1>2 DEF OneUnderWay
    <3>2. n = 0 /\ Len(queries'[c]) = 1 /\ queries'[c][1] = m
      BY <2>5, <3>1 DEF n
    <3>3. Follows(c, tree)
      BY <1>1, <2>7, <3>1 DEF Follows
    <3>4. m = [no |-> sent'[c], ast |-> ast'[c]]
      BY <1>2, <2>4 DEF m
    <3>. QED BY <2>4, <2>6, <3>1, <3>2, <3>3, <3>4 DEF OneUnderWay, Follows
  <2>12. NonePassedOver(c)'
    BY <1>2 DEF NonePassedOver
  <2>. QED BY <2>2, <2>3, <2>8, <2>9, <2>10, <2>11, <2>12 DEF IInv, ClientInv
<1>. QED BY <1>3, <1>4 DEF Send

LEMMA AcceptedStep == ASSUME IInv, NEW c \in Client, Accepted(c) PROVE IInv'
<1>1. ast[c] \in Nat /\ ast' = [ast EXCEPT ![c] = ast[c] + 1]
  BY DEF IInv, Typed, Accepted
<1>2. ast[c] + 1 \in {ast[c], ast[c] + 1} /\ ast[c] + 1 > 0
  BY <1>1
<1>3. client[c] = "typing" /\ Send(c, ast[c] + 1) /\ UNCHANGED <<shown, serverVars, answers>>
  BY DEF Accepted
<1>. QED BY <1>1, <1>2, <1>3, SendStep

\* A rejected line sends the last tree; without one the client dies.
LEMMA RejectedStep == ASSUME IInv, NEW c \in Client, Rejected(c) PROVE IInv'
<1>1. ast[c] \in Nat /\ ast' = [ast EXCEPT ![c] = ast[c]]
  BY DEF IInv, Typed, Rejected
<1>2. CASE ast[c] = 0
  <2>1. client[c] = "typing" /\ client' = [client EXCEPT ![c] = "dead"]
        /\ UNCHANGED <<ast, sent, shown, serverVars, streams>>
    BY <1>2 DEF Rejected, streams
  <2>2. Quit(c)
    BY <2>1 DEF Quit
  <2>. QED BY <2>2, QuitStep
<1>3. CASE ast[c] # 0
  <2>1. ast[c] \in {ast[c], ast[c] + 1} /\ ast[c] > 0
    BY <1>1, <1>3
  <2>2. client[c] = "typing" /\ Send(c, ast[c]) /\ UNCHANGED <<shown, serverVars, answers>>
    BY <1>3 DEF Rejected
  <2>. QED BY <1>1, <2>1, <2>2, SendStep
<1>. QED BY <1>2, <1>3

\* A sequence is empty exactly if its length is 0.
LEMMA LenZero ==
  ASSUME NEW S, NEW s \in Seq(S)
  PROVE  Len(s) \in Nat /\ (s = <<>> <=> Len(s) = 0)
BY EmptySeq, LenProperties

\* What one recv of the client returns: the first n units of those there are.
LEMMA ReceiveFacts ==
  ASSUME NEW s \in Seq(Nat), NEW n \in 0 .. Len(s)
  PROVE  /\ SubSeq(s, 1, n) \in Seq(Nat) /\ Len(SubSeq(s, 1, n)) = n
         /\ \A i \in 1 .. n : SubSeq(s, 1, n)[i] = s[i]
         /\ SubSeq(s, n + 1, Len(s)) \in Seq(Nat)
         /\ Len(SubSeq(s, n + 1, Len(s))) = Len(s) - n
         /\ \A i \in 1 .. Len(s) - n : SubSeq(s, n + 1, Len(s))[i] = s[n + i]
<1>1. Len(s) \in Nat /\ \A i \in 1 .. Len(s) : s[i] \in Nat
  BY LenProperties, ElementOfSeq
<1>2. /\ \A i \in 1 .. n : s[i] \in Nat
      /\ \A i \in n + 1 .. Len(s) : s[i] \in Nat
  BY <1>1
<1>3. n \in Int /\ n + 1 \in Int /\ 1 \in Int /\ Len(s) \in Int
  BY <1>1
<1>4. /\ SubSeq(s, 1, n) \in Seq(Nat)
      /\ Len(SubSeq(s, 1, n)) = IF 1 <= n THEN n - 1 + 1 ELSE 0
      /\ \A i \in 1 .. n - 1 + 1 : SubSeq(s, 1, n)[i] = s[1 + i - 1]
  BY <1>2, <1>3, SubSeqProperties
<1>5. /\ SubSeq(s, n + 1, Len(s)) \in Seq(Nat)
      /\ Len(SubSeq(s, n + 1, Len(s))) =
           IF n + 1 <= Len(s) THEN Len(s) - (n + 1) + 1 ELSE 0
      /\ \A i \in 1 .. Len(s) - (n + 1) + 1 :
           SubSeq(s, n + 1, Len(s))[i] = s[(n + 1) + i - 1]
  BY <1>2, <1>3, SubSeqProperties
<1>6. /\ Len(SubSeq(s, 1, n)) = n
      /\ Len(SubSeq(s, n + 1, Len(s))) = Len(s) - n
  BY <1>1, <1>4, <1>5
<1>7. ASSUME NEW i \in 1 .. n PROVE SubSeq(s, 1, n)[i] = s[i]
  <2>1. i \in 1 .. n - 1 + 1 /\ 1 + i - 1 = i
    OBVIOUS
  <2>. QED BY <1>4, <2>1
<1>8. ASSUME NEW i \in 1 .. Len(s) - n
      PROVE  SubSeq(s, n + 1, Len(s))[i] = s[n + i]
  <2>1. i \in 1 .. Len(s) - (n + 1) + 1 /\ (n + 1) + i - 1 = n + i
    BY <1>1
  <2>. QED BY <1>5, <2>1
<1>. QED BY <1>4, <1>5, <1>6, <1>7, <1>8

\* The client takes what is there, up to its buffer, and types on.  Unless an
\* answer was cut that is the whole answer to its last message.
LEMMA ClientReceiveStep == ASSUME IInv, NEW c \in Client, ClientReceive(c) PROVE IInv'
<1>1. CASE answers[c] = <<>> /\ Closed(c)
  <2>1. /\ client' = [client EXCEPT ![c] = "dead"] /\ client[c] = "waiting"
        /\ UNCHANGED <<ast, sent, shown, serverVars, streams>>
    BY <1>1 DEF ClientReceive, streams
  <2>2. Quit(c)
    BY <2>1 DEF Quit
  <2>. QED BY <2>2, QuitStep
<1>2. CASE answers[c] # <<>>
  <2>. DEFINE s == answers[c]
              n == IF Len(s) < BufUnits THEN Len(s) ELSE BufUnits
  <2>1. /\ shown' = [shown EXCEPT ![c] = SubSeq(s, 1, n)]
        /\ answers' = [answers EXCEPT ![c] = SubSeq(@, n + 1, Len(@))]
        /\ client' = [client EXCEPT ![c] = "typing"] /\ client[c] = "waiting"
        /\ UNCHANGED <<ast, sent, serverVars, queries>>
    BY <1>2 DEF ClientReceive
  <2>. USE DEF serverVars
  <2>2. s \in Seq(Nat) /\ Len(s) \in Nat /\ Len(s) > 0
    BY <1>2, LenProperties, EmptySeq DEF IInv, Typed
  <2>3. n \in 0 .. Len(s) /\ n > 0
    BY <2>2, ConstantFacts
  <2>4. /\ SubSeq(s, 1, n) \in Seq(Nat) /\ Len(SubSeq(s, 1, n)) = n
        /\ \A i \in 1 .. n : SubSeq(s, 1, n)[i] = s[i]
        /\ SubSeq(s, n + 1, Len(s)) \in Seq(Nat)
        /\ Len(SubSeq(s, n + 1, Len(s))) = Len(s) - n
        /\ \A i \in 1 .. Len(s) - n : SubSeq(s, n + 1, Len(s))[i] = s[n + i]
    BY <2>2, <2>3, ReceiveFacts
  <2>5. Typed'
    BY <2>1, <2>4 DEF IInv, Typed
  <2>6. ASSUME NEW d \in Client \ {c} PROVE ClientInv(d)'
    BY <2>1, Frame DEF IInv, Typed
  <2>7. /\ client'[c] = "typing" /\ shown'[c] = SubSeq(s, 1, n)
        /\ answers'[c] = SubSeq(s, n + 1, Len(s))
    BY <2>1 DEF IInv, Typed
  <2>8. /\ Begun(c) /\ Counted(c) /\ InOrder(c) /\ OneUnderWay(c) /\ NonePassedOver(c)
        /\ sent[c] \in Nat
    BY DEF IInv, ClientInv, Typed
  <2>9. n = Len(s) => answers'[c] = <<>>
    BY <2>4, <2>7, <2>2, EmptySeq
  <2>10. Len(shown'[c]) = n /\ \A i \in 1 .. n : shown'[c][i] = s[i]
    BY <2>4, <2>7
  <2>11. /\ Len(answers'[c]) = Len(s) - n
         /\ \A i \in 1 .. Len(s) - n : answers'[c][i] = s[n + i]
    BY <2>4, <2>7
  <2>12. Begun(c)'
    BY <1>2, <2>1, <2>7, <2>8 DEF Begun
  <2>13. Awaited(c)'
    BY <2>7 DEF Awaited
  <2>14. InOrder(c)' /\ NonePassedOver(c)'
    BY <2>1, <2>8 DEF InOrder, NonePassedOver
  <2>15. Counted(c)'
    <3>1. \A i \in 1 .. Len(s) : s[i] \in 1 .. sent[c]
      BY <2>8 DEF Counted
    <3>2. \A i \in 1 .. Len(shown'[c]) : shown'[c][i] \in 1 .. sent[c]
      BY <2>3, <2>10, <3>1
    <3>3. \A i \in 1 .. Len(answers'[c]) : answers'[c][i] \in 1 .. sent[c]
      <4>1. ASSUME NEW i \in 1 .. Len(s) - n PROVE n + i \in 1 .. Len(s)
        BY <2>2, <2>3
      <4>. QED BY <2>11, <3>1, <4>1
    <3>. HIDE DEF s, n
    <3>. QED BY <2>1, <2>7, <2>8, <3>2, <3>3 DEF Counted
  <2>16. OneUnderWay(c)'
    <3>. SUFFICES ASSUME ~ cut[c] PROVE OneUnderWay(c)'
      BY <2>1 DEF OneUnderWay
    <3>1. /\ queries[c] = <<>> /\ batch[c] = <<>>
          /\ ran[c] # <<>> /\ ran[c][Len(ran[c])] = ast[c]
          /\ Len(s) <= BufUnits /\ \A i \in 1 .. Len(s) : s[i] = sent[c]
      BY <1>2, <2>1, <2>8 DEF OneUnderWay
    <3>2. n = Len(s)
      BY <2>2, <3>1, ConstantFacts
    <3>3. sent[c] # 0
      <4>1. 1 \in 1 .. Len(s)
        BY <2>2
      <4>. QED BY <2>8, <4>1 DEF Counted
    <3>4. shown'[c] # <<>> /\ \A i \in 1 .. Len(shown'[c]) : shown'[c][i] = sent[c]
      BY <2>3, <2>10, <3>1, <3>2, EmptySeq
    <3>. QED BY <2>1, <2>7, <2>9, <3>1, <3>2, <3>3, <3>4 DEF OneUnderWay
  <2>. QED BY <2>5, <2>6, <2>12, <2>13, <2>14, <2>15, <2>16 DEF IInv, ClientInv
<1>. QED BY <1>1, <1>2 DEF ClientReceive

\* The listener takes a connection, with or without a child for it.
LEMMA AcceptStep == ASSUME IInv, NEW c \in Client, Accept(c) PROVE IInv'
<1>. USE DEF clientVars, streams
<1>1. /\ client[c] # "off" /\ c \notin accepted /\ accepted' = accepted \cup {c}
      /\ child' = [child EXCEPT ![c] = "reading"] \/ UNCHANGED child
      /\ UNCHANGED <<listener, batch, ran, cut, clientVars, streams>>
  BY DEF Accept
<1>2. Typed'
  <2>1. fds' \in [Process -> SUBSET Client]
    <3>1. fds \in [Process -> SUBSET Client] /\ Listener \in Process /\ c \in Process
      BY DEF IInv, Typed, Process
    <3>2. fds[Listener] \cup {c} \in SUBSET Client
      BY <3>1
    <3>. QED BY <3>1, <3>2 DEF Accept
  <2>. QED BY <1>1, <2>1, SMTT(30) DEF IInv, Typed
<1>3. ASSUME NEW d \in Client \ {c} PROVE ClientInv(d)'
  BY <1>1, Frame DEF IInv, Typed
<1>4. ClientInv(c)'
  <2>1. child[c] = "none" /\ child'[c] \in {"none", "reading"} /\ c \in accepted'
    BY <1>1 DEF IInv, Typed, ClientInv, Begun
  <2>2. Begun(c)'
    BY <1>1, <2>1 DEF IInv, ClientInv, Begun
  <2>3. Counted(c)' /\ InOrder(c)' /\ NonePassedOver(c)'
    BY <1>1 DEF IInv, ClientInv, Counted, InOrder, NonePassedOver
  <2>4. OneUnderWay(c)' /\ Awaited(c)'
    BY <1>1, <2>1 DEF IInv, ClientInv, OneUnderWay, Awaited, Follows
  <2>. QED BY <2>2, <2>3, <2>4 DEF ClientInv
<1>. QED BY <1>2, <1>3, <1>4 DEF IInv

LEMMA AcceptFailsStep == IInv /\ AcceptFails => IInv'
<1> SUFFICES ASSUME IInv, AcceptFails PROVE IInv'
  OBVIOUS
<1>. USE DEF clientVars, streams
<1>1. Typed'
  <2>1. fds' \in [Process -> SUBSET Client]
    BY DEF IInv, Typed, AcceptFails, Exit
  <2>. QED BY <2>1 DEF IInv, Typed, AcceptFails
<1>2. ASSUME NEW d \in Client PROVE ClientInv(d)'
  BY Frame DEF IInv, AcceptFails
<1>. QED BY <1>1, <1>2 DEF IInv

\* The child reads all that is there as one batch.
LEMMA ChildReceiveStep == ASSUME IInv, NEW c \in Client, ChildReceive(c) PROVE IInv'
<1>. USE DEF clientVars
<1>1. /\ child[c] = "reading" /\ queries[c] # <<>>
      /\ batch' = [batch EXCEPT ![c] = queries[c]]
      /\ queries' = [queries EXCEPT ![c] = <<>>]
      /\ child' = [child EXCEPT ![c] = "working"]
      /\ UNCHANGED <<listener, accepted, ran, fds, cut, clientVars, answers>>
  BY DEF ChildReceive
<1>2. Typed'
  BY <1>1, EmptySeq DEF IInv, Typed
<1>3. ASSUME NEW d \in Client \ {c} PROVE ClientInv(d)'
  BY <1>1, Frame DEF IInv, Typed
<1>4. ClientInv(c)'
  <2>1. batch'[c] = queries[c] /\ queries'[c] = <<>> /\ child'[c] = "working"
    BY <1>1 DEF IInv, Typed
  <2>2. batch[c] = <<>> /\ c \in accepted /\ client[c] # "off"
    BY <1>1 DEF IInv, ClientInv, Begun
  <2>3. /\ Begun(c) /\ Counted(c) /\ InOrder(c) /\ OneUnderWay(c) /\ NonePassedOver(c)
    BY DEF IInv, ClientInv
  <2>4. /\ Len(queries[c]) \in Nat /\ Len(batch'[c]) = Len(queries[c])
        /\ Len(queries'[c]) = 0 /\ Len(batch[c]) = 0
    BY <2>1, <2>2, LenProperties DEF IInv, Typed
  <2>5. Begun(c)' /\ Awaited(c)'
    BY <1>1, <2>1, <2>2, <2>3 DEF Begun, Awaited
  <2>6. Counted(c)' /\ NonePassedOver(c)'
    BY <1>1, <2>1, <2>3 DEF Counted, NonePassedOver
  <2>7. InOrder(c)'
    BY <1>1, <2>1, <2>3 DEF InOrder
  <2>8. OneUnderWay(c)'
    <3>. SUFFICES ASSUME ~ cut[c] PROVE OneUnderWay(c)'
      BY <1>1 DEF OneUnderWay
    <3>1. /\ Len(queries[c]) <= 1
          /\ \A i \in 1 .. Len(queries[c]) : Follows(c, queries[c][i].ast)
          /\ client[c] # "typing"
      BY <1>1, <2>3 DEF OneUnderWay
    <3>2. client[c] = "waiting" =>
            /\ \A i \in 1 .. Len(queries[c]) : queries[c][i] = [no |-> sent[c], ast |-> ast[c]]
            /\ answers[c] = <<>>
      BY <1>1, <2>3 DEF OneUnderWay
    <3>3. \A tree : Follows(c, tree)' <=> Follows(c, tree)
      BY <1>1 DEF Follows
    <3>. QED BY <1>1, <2>1, <2>4, <3>1, <3>2, <3>3 DEF OneUnderWay
  <2>. QED BY <2>5, <2>6, <2>7, <2>8 DEF ClientInv
<1>. QED BY <1>2, <1>3, <1>4 DEF IInv

\* A child that ends drops its batch; nothing else of its client changes.
LEMMA ChildDiesStep == ASSUME IInv, NEW c \in Client, ChildDies(c) PROVE IInv'
<1>. USE DEF clientVars, streams
<1>1. /\ child[c] \in {"working", "reading"}
      /\ batch' = [batch EXCEPT ![c] = <<>>] /\ child' = [child EXCEPT ![c] = "dead"]
      /\ UNCHANGED <<listener, accepted, ran, cut, clientVars, streams>>
  BY DEF ChildDies
<1>2. Typed'
  <2>1. fds' \in [Process -> SUBSET Client]
    BY DEF IInv, Typed, ChildDies, Exit
  <2>. QED BY <1>1, <2>1, EmptySeq DEF IInv, Typed
<1>3. ASSUME NEW d \in Client \ {c} PROVE ClientInv(d)'
  BY <1>1, Frame DEF IInv, Typed
<1>4. ClientInv(c)'
  <2>1. batch'[c] = <<>> /\ child'[c] = "dead"
    BY <1>1 DEF IInv, Typed
  <2>2. Begun(c) /\ Counted(c) /\ InOrder(c) /\ OneUnderWay(c) /\ NonePassedOver(c)
    BY DEF IInv, ClientInv
  <2>3. /\ Len(queries[c]) \in Nat /\ Len(batch[c]) \in Nat
        /\ Len(queries'[c]) = Len(queries[c]) /\ Len(batch'[c]) = 0
    BY <1>1, <2>1, LenProperties DEF IInv, Typed
  <2>4. Begun(c)' /\ Awaited(c)'
    BY <1>1, <2>1, <2>2 DEF Begun, Awaited
  <2>5. Counted(c)' /\ InOrder(c)' /\ NonePassedOver(c)'
    BY <1>1, <2>1, <2>2, SMTT(30) DEF Counted, InOrder, NonePassedOver
  <2>6. OneUnderWay(c)'
    <3>1. \A tree : Follows(c, tree)' <=> Follows(c, tree)
      BY <1>1 DEF Follows
    <3>. QED BY <1>1, <2>1, <2>2, <2>3, <3>1 DEF OneUnderWay
  <2>. QED BY <2>4, <2>5, <2>6 DEF ClientInv
<1>. QED BY <1>2, <1>3, <1>4 DEF IInv

\* The last tree of a batch is run and its units are sent.  A batch is of one
\* message, and that the next one, unless an answer was cut before.
LEMMA AnswerStep ==
  ASSUME IInv, NEW c \in Client, NEW units \in AnswerUnits, Answer(c, units)
  PROVE  IInv'
<1>. USE DEF clientVars
<1>. DEFINE b == batch[c]
            m == b[Len(b)]
            u == [k \in 1 .. units |-> m.no]
            r == ran[c]
            n == Len(r)
            a == answers[c]
<1>1. /\ child[c] = "working" /\ child' = [child EXCEPT ![c] = "reading"]
      /\ batch' = [batch EXCEPT ![c] = <<>>]
      /\ ran' = [ran EXCEPT ![c] = Append(@, m.ast)]
      /\ answers' = [answers EXCEPT ![c] = @ \o u]
      /\ cut' = [cut EXCEPT ![c] = @ \/ units > BufUnits]
      /\ UNCHANGED <<listener, accepted, fds, clientVars, queries>>
  BY DEF Answer, Last
<1>2. /\ b \in Seq(Message) /\ r \in Seq(Nat) /\ a \in Seq(Nat) /\ n \in Nat
      /\ Len(b) \in Nat /\ Len(a) \in Nat /\ Len(queries[c]) \in Nat
  BY LenProperties DEF IInv, Typed
<1>3. Begun(c) /\ Counted(c) /\ InOrder(c) /\ OneUnderWay(c) /\ NonePassedOver(c)
  BY DEF IInv, ClientInv
<1>4. b # <<>> /\ Len(b) \in 1 .. Len(b) /\ (Len(b) <= 1 => Len(b) = 1) /\ m \in Message
  <2>1. b # <<>>
    BY <1>1, <1>3 DEF Begun
  <2>2. Len(b) \in Nat /\ Len(b) > 0
    <3>1. batch[c] \in Seq(Message)
      BY <1>2
    <3>2. batch[c] = <<>> <=> Len(batch[c]) = 0
      BY <3>1, LenZero
    <3>. QED BY <1>2, <2>1, <3>2
  <2>3. Len(b) \in 1 .. Len(b) /\ (Len(b) <= 1 => Len(b) = 1)
    <3>1. \A k \in Nat : k > 0 => k \in 1 .. k /\ (k <= 1 => k = 1)
      OBVIOUS
    <3>. QED BY <2>2, <3>1
  <2>4. b[Len(b)] \in Message
    BY <1>2, <2>3, ElementOfSeq
  <2>. QED BY <2>1, <2>3, <2>4
<1>5. /\ u \in Seq(Nat) /\ Len(u) = units /\ units \in Nat /\ units > 0
      /\ \A i \in 1 .. units : u[i] = m.no
  BY <1>4, ConstantFacts DEF Message
<1>6. /\ Append(r, m.ast) \in Seq(Nat) /\ Append(r, m.ast) # <<>>
      /\ Len(Append(r, m.ast)) = n + 1
      /\ \A i \in 1 .. n : Append(r, m.ast)[i] = r[i]
      /\ Append(r, m.ast)[n + 1] = m.ast
  <2>1. m.ast \in Nat
    BY <1>4 DEF Message
  <2>. HIDE DEF m
  <2>. QED BY <1>2, <2>1, AppendProperties, SMTT(60)
<1>7. /\ a \o u \in Seq(Nat) /\ Len(a \o u) = Len(a) + units
      /\ \A i \in 1 .. Len(a) + units : (a \o u)[i] = IF i <= Len(a) THEN a[i] ELSE m.no
  <2>1. /\ a \o u \in Seq(Nat) /\ Len(a \o u) = Len(a) + Len(u)
        /\ \A i \in 1 .. Len(a) + Len(u) :
             (a \o u)[i] = IF i <= Len(a) THEN a[i] ELSE u[i - Len(a)]
    BY <1>2, <1>5, ConcatProperties
  <2>2. ASSUME NEW i \in 1 .. Len(a) + units, ~ i <= Len(a) PROVE i - Len(a) \in 1 .. units
    BY <1>2, <1>5, <2>2
  <2>. HIDE DEF u
  <2>. QED BY <1>5, <2>1, <2>2
<1>. HIDE DEF u
<1>8. Typed'
  BY <1>1, <1>6, <1>7, EmptySeq DEF IInv, Typed
<1>9. ASSUME NEW d \in Client \ {c} PROVE ClientInv(d)'
  BY <1>1, Frame DEF IInv, Typed
<1>10. /\ child'[c] = "reading" /\ batch'[c] = <<>> /\ ran'[c] = Append(r, m.ast)
       /\ answers'[c] = a \o u /\ cut'[c] = (cut[c] \/ units > BufUnits)
  BY <1>1 DEF IInv, Typed
<1>11. /\ ran'[c] # <<>> /\ Len(ran'[c]) = n + 1
       /\ \A i \in 1 .. n : ran'[c][i] = r[i]
       /\ ran'[c][n + 1] = m.ast
  BY <1>6, <1>10
<1>12. /\ answers'[c] # <<>> /\ Len(answers'[c]) = Len(a) + units
       /\ \A i \in 1 .. Len(a) + units :
            answers'[c][i] = IF i <= Len(a) THEN a[i] ELSE m.no
  <2>1. Len(a \o u) # 0
    BY <1>2, <1>5, <1>7
  <2>. QED BY <1>7, <1>10, <2>1, LenZero
<1>13. Len(batch'[c]) = 0
  BY <1>10
<1>14. /\ m.no \in 1 .. sent[c] /\ m.ast \in 1 .. sent[c] /\ m.ast <= ast[c]
       /\ sent[c] \in Nat /\ ast[c] \in Nat
  BY <1>3, <1>4 DEF Counted, IInv, Typed
<1>. HIDE DEF m, r, n, a, b
<1>15. Begun(c)' /\ Awaited(c)'
  BY <1>1, <1>3, <1>10, <1>11, <1>12 DEF Begun, Awaited
<1>16. Counted(c)'
  <2>1. ASSUME NEW i \in 1 .. Len(ran'[c])
        PROVE  ran'[c][i] \in 1 .. sent[c] /\ ran'[c][i] <= ast[c]
    <3>1. CASE i = n + 1
      BY <1>11, <1>14, <3>1
    <3>2. CASE i \in 1 .. n
      BY <1>3, <1>11, <3>2 DEF Counted, r, n
    <3>. QED BY <1>2, <1>11, <3>1, <3>2
  <2>2. ASSUME NEW i \in 1 .. Len(answers'[c]) PROVE answers'[c][i] \in 1 .. sent[c]
    <3>1. CASE i <= Len(a)
      <4>1. i \in 1 .. Len(a) /\ answers'[c][i] = a[i]
        BY <1>2, <1>5, <1>12, <3>1, SMTT(60)
      <4>. QED BY <1>3, <4>1 DEF Counted, a
    <3>2. CASE ~ i <= Len(a)
      BY <1>12, <1>14, <3>2
    <3>. QED BY <3>1, <3>2
  <2>. QED BY <1>1, <1>3, <1>13, <2>1, <2>2 DEF Counted
<1>17. InOrder(c)'
  <2>1. ASSUME NEW i \in 1 .. n PROVE r[i] <= m.ast
    BY <1>3, <1>4 DEF InOrder, r, n, m, b
  <2>2. ASSUME NEW j \in 1 .. Len(queries[c]) PROVE m.ast <= queries[c][j].ast
    BY <1>3, <1>4 DEF InOrder, m, b
  <2>3. ASSUME NEW i \in 1 .. Len(ran'[c]), NEW j \in 1 .. Len(ran'[c]), i <= j
        PROVE  ran'[c][i] <= ran'[c][j]
    <3>1. CASE j = n + 1
      BY <1>2, <1>11, <1>14, <2>1, <3>1, SMTT(30)
    <3>2. CASE j \in 1 .. n
      <4>1. i \in 1 .. n
        BY <1>2, <2>3, <3>2
      <4>. QED BY <1>3, <1>11, <2>3, <3>2, <4>1 DEF InOrder, r, n
    <3>. QED BY <1>2, <1>11, <3>1, <3>2
  <2>4. ASSUME NEW i \in 1 .. Len(ran'[c]), NEW j \in 1 .. Len(queries[c])
        PROVE  ran'[c][i] <= queries[c][j].ast
    <3>1. CASE i = n + 1
      BY <1>11, <2>2, <3>1
    <3>2. CASE i \in 1 .. n
      BY <1>3, <1>11, <3>2 DEF InOrder, r, n
    <3>. QED BY <1>2, <1>11, <3>1, <3>2
  <2>. QED BY <1>1, <1>3, <1>13, <2>3, <2>4 DEF InOrder
<1>18. cut[c] \/ (Len(b) = 1 /\ queries[c] = <<>> /\ Follows(c, m.ast))
  <2>. SUFFICES ASSUME ~ cut[c]
                PROVE  Len(b) = 1 /\ queries[c] = <<>> /\ Follows(c, m.ast)
    OBVIOUS
  <2>1. Len(b) <= 1 /\ queries[c] = <<>> /\ Follows(c, m.ast)
    BY <1>3, <1>4 DEF OneUnderWay, m, b
  <2>. QED BY <1>4, <2>1
<1>19. OneUnderWay(c)'
  <2>. SUFFICES ASSUME ~ cut'[c] PROVE OneUnderWay(c)'
    BY DEF OneUnderWay
  <2>1. ~ cut[c] /\ units <= BufUnits
    <3>1. ~ cut[c] /\ ~ units > BufUnits
      BY <1>10 DEF IInv, Typed
    <3>. QED BY <1>5, <3>1, ConstantFacts
  <2>2. Len(b) = 1 /\ queries[c] = <<>>
    BY <1>18, <2>1
  <2>3. client[c] # "typing"
    BY <1>3, <1>4, <2>1 DEF OneUnderWay, b
  <2>4. ASSUME client[c] = "waiting"
        PROVE  /\ ran'[c][Len(ran'[c])] = ast[c] /\ Len(answers'[c]) <= BufUnits
               /\ \A i \in 1 .. Len(answers'[c]) : answers'[c][i] = sent[c]
    <3>1. m = [no |-> sent[c], ast |-> ast[c]] /\ a = <<>>
      BY <1>3, <1>4, <2>1, <2>2, <2>4 DEF OneUnderWay, b, m, a
    <3>2. m.no = sent[c] /\ m.ast = ast[c] /\ Len(a) = 0
      BY <3>1
    <3>. QED BY <1>5, <1>11, <1>12, <2>1, <3>2
  <2>. QED BY <1>1, <1>10, <1>11, <1>13, <2>1, <2>2, <2>3, <2>4 DEF OneUnderWay
<1>20. NonePassedOver(c)'
  <2>1. ran'[c][1] = 1
    <3>1. CASE n = 0
      <4>1. r = <<>>
        BY <1>2, <3>1, LenZero DEF n
      <4>2. ~ cut[c]
        BY <1>3, <4>1 DEF Begun, r
      <4>3. m.ast = 1
        BY <1>18, <4>1, <4>2 DEF Follows, r
      <4>. QED BY <1>11, <3>1, <4>3
    <3>2. CASE n # 0
      <4>1. 1 \in 1 .. n /\ r # <<>>
        BY <1>2, <3>2, EmptySeq DEF n
      <4>. QED BY <1>3, <1>11, <4>1 DEF NonePassedOver, r
    <3>. QED BY <3>1, <3>2
  <2>2. ASSUME NEW i \in 2 .. Len(ran'[c]), ran'[c][i] > ran'[c][i-1] + 1 PROVE cut'[c]
    <3>1. CASE i \in 2 .. n
      <4>1. i \in 1 .. n /\ i - 1 \in 1 .. n
        BY <1>2, <3>1
      <4>. QED BY <1>3, <1>10, <1>11, <2>2, <3>1, <4>1 DEF NonePassedOver, r, n
    <3>2. CASE i = n + 1
      <4>1. n \in 1 .. n /\ i - 1 = n
        BY <1>2, <2>2, <3>2
      <4>2. r # <<>> /\ r[n] \in Nat
        BY <1>2, <4>1, EmptySeq, ElementOfSeq DEF n
      <4>3. m.ast > r[n] + 1
        BY <1>11, <2>2, <3>2, <4>1
      <4>4. ~ Follows(c, m.ast)
        BY <1>14, <4>2, <4>3 DEF Follows, r, n
      <4>. QED BY <1>10, <1>18, <4>4
    <3>. QED BY <1>2, <1>11, <2>2, <3>1, <3>2
  <2>. QED BY <2>1, <2>2 DEF NonePassedOver
<1>. QED BY <1>8, <1>9, <1>15, <1>16, <1>17, <1>19, <1>20 DEF IInv, ClientInv

LEMMA NextIInv == IInv /\ [Next]_vars => IInv'
<1> SUFFICES ASSUME IInv, [Next]_vars PROVE IInv'
  OBVIOUS
<1>1. CASE UNCHANGED vars
  <2>. USE <1>1 DEF vars, clientVars, serverVars, streams
  <2>1. Typed'
    BY DEF IInv, Typed
  <2>2. \A c \in Client : ClientInv(c)'
    BY Frame DEF IInv
  <2>. QED BY <2>1, <2>2 DEF IInv
<1>2. ASSUME NEW c \in Client, Connect(c) PROVE IInv'
  BY <1>2, ConnectStep
<1>3. ASSUME NEW c \in Client, Accepted(c) PROVE IInv'
  BY <1>3, AcceptedStep
<1>4. ASSUME NEW c \in Client, Rejected(c) PROVE IInv'
  BY <1>4, RejectedStep
<1>5. ASSUME NEW c \in Client, ClientReceive(c) PROVE IInv'
  BY <1>5, ClientReceiveStep
<1>6. ASSUME NEW c \in Client, Quit(c) PROVE IInv'
  BY <1>6, QuitStep
<1>7. ASSUME NEW c \in Client, Accept(c) PROVE IInv'
  BY <1>7, AcceptStep
<1>8. ASSUME NEW c \in Client, ChildReceive(c) PROVE IInv'
  BY <1>8, ChildReceiveStep
<1>9. ASSUME NEW c \in Client, ChildDies(c) PROVE IInv'
  BY <1>9, ChildDiesStep
<1>10. ASSUME NEW c \in Client, NEW units \in AnswerUnits, Answer(c, units) PROVE IInv'
  BY <1>10, AnswerStep
<1>11. CASE AcceptFails
  BY <1>11, AcceptFailsStep
<1>. QED BY <1>1, <1>2, <1>3, <1>4, <1>5, <1>6, <1>7, <1>8, <1>9, <1>10, <1>11
         DEF Next, Child

-----------------------------------------------------------------------------
THEOREM Invariance == Spec => []IInv
BY InitIInv, NextIInv, PTL DEF Spec

\* Every variable keeps its type; nothing under way, run or shown is numbered
\* beyond the messages the client has sent.
THEOREM TypeCorrect == Spec => []TypeOK
<1>1. IInv => TypeOK
  <2>. SUFFICES ASSUME IInv PROVE TypeOK
    OBVIOUS
  <2>1. ASSUME NEW c \in Client
        PROVE  /\ ast[c] \in 0 .. MaxSent[c] + 1 /\ sent[c] \in 0 .. MaxSent[c]
               /\ ToSet(queries[c]) \cup ToSet(batch[c])
                    \subseteq [no : 1 .. MaxSent[c], ast : 1 .. MaxSent[c]]
               /\ ToSet(answers[c]) \cup ToSet(shown[c]) \subseteq 1 .. MaxSent[c]
               /\ ToSet(ran[c]) \subseteq 1 .. MaxSent[c]
    <3>1. /\ ast[c] \in Nat /\ sent[c] \in Nat /\ MaxSent[c] \in Nat
          /\ queries[c] \in Seq(Message) /\ batch[c] \in Seq(Message)
          /\ answers[c] \in Seq(Nat) /\ shown[c] \in Seq(Nat) /\ ran[c] \in Seq(Nat)
      BY ConstantFacts DEF IInv, Typed
    <3>2. Counted(c)
      BY DEF IInv, ClientInv
    <3>3. \A n \in 1 .. sent[c] : n \in 1 .. MaxSent[c]
      BY <3>1, <3>2 DEF Counted
    <3>4. ast[c] \in 0 .. MaxSent[c] + 1 /\ sent[c] \in 0 .. MaxSent[c]
      BY <3>1, <3>2 DEF Counted
    <3>5. ASSUME NEW q \in {queries[c], batch[c]}
          PROVE  ToSet(q) \subseteq [no : 1 .. MaxSent[c], ast : 1 .. MaxSent[c]]
      <4>1. ASSUME NEW i \in 1 .. Len(q)
            PROVE  q[i] \in [no : 1 .. MaxSent[c], ast : 1 .. MaxSent[c]]
        <5>1. q[i] \in Message /\ q[i].no \in 1 .. MaxSent[c] /\ q[i].ast \in 1 .. MaxSent[c]
          BY <3>1, <3>2, <3>3, ElementOfSeq DEF Counted
        <5>. QED BY <5>1 DEF Message
      <4>. QED BY <3>1, <4>1, LenProperties DEF ToSet
    <3>6. ASSUME NEW q \in {answers[c], shown[c], ran[c]}
          PROVE  ToSet(q) \subseteq 1 .. MaxSent[c]
      <4>1. ASSUME NEW i \in 1 .. Len(q) PROVE q[i] \in 1 .. MaxSent[c]
        BY <3>2, <3>3 DEF Counted
      <4>. QED BY <3>1, <4>1, LenProperties DEF ToSet
    <3>. QED BY <3>4, <3>5, <3>6
  <2>. QED BY <2>1 DEF IInv, Typed, TypeOK
<1>. QED BY <1>1, Invariance, PTL

\* Whatever lines were rejected and whatever the others do, what a client is
\* shown is the whole answer to its last message, until an answer is cut.
THEOREM InStepCorrect == Spec => []InStep
<1>1. IInv => InStep
  <2>. SUFFICES ASSUME IInv, NEW c \in Client,
                       client[c] = "typing", ~ cut[c], sent[c] > 0
                PROVE  ToSet(shown[c]) = {sent[c]} /\ answers[c] = <<>> /\ queries[c] = <<>>
    BY DEF InStep
  <2>1. OneUnderWay(c) /\ sent[c] \in Nat /\ shown[c] \in Seq(Nat)
    BY DEF IInv, ClientInv, Typed
  <2>2. /\ answers[c] = <<>> /\ queries[c] = <<>> /\ shown[c] # <<>>
        /\ \A i \in 1 .. Len(shown[c]) : shown[c][i] = sent[c]
    BY <2>1 DEF OneUnderWay
  <2>3. DOMAIN shown[c] = 1 .. Len(shown[c]) /\ 1 \in 1 .. Len(shown[c])
    BY <2>1, <2>2, LenZero, LenProperties
  <2>. QED BY <2>2, <2>3 DEF ToSet
<1>. QED BY <1>1, Invariance, PTL

\* A client and its child never wait for each other, even out of step.
THEOREM NoMutualWaitCorrect == Spec => []NoMutualWait
<1>1. IInv => NoMutualWait
  BY DEF IInv, ClientInv, Awaited, NoMutualWait
<1>. QED BY <1>1, Invariance, PTL

\* The trees run in the order in which they were typed, from the first on.  One
\* may run again, after a line that the parser rejected, and one is passed over
\* only once an answer has been cut.
THEOREM RanInOrderCorrect == Spec => []RanInOrder
<1>1. IInv => RanInOrder
  <2>. SUFFICES ASSUME IInv, NEW c \in Client
                PROVE  /\ \A i \in 2 .. Len(ran[c]) :
                            /\ ran[c][i] >= ran[c][i-1]
                            /\ ran[c][i] > ran[c][i-1] + 1 => cut[c]
                       /\ ran[c] # <<>> => ran[c][1] = 1
    BY DEF RanInOrder
  <2>1. InOrder(c) /\ NonePassedOver(c) /\ ran[c] \in Seq(Nat) /\ Len(ran[c]) \in Nat
    BY LenProperties DEF IInv, ClientInv, Typed
  <2>2. ASSUME NEW i \in 2 .. Len(ran[c]) PROVE ran[c][i] >= ran[c][i-1]
    <3>1. i \in 1 .. Len(ran[c]) /\ i - 1 \in 1 .. Len(ran[c]) /\ i - 1 <= i
      BY <2>1
    <3>2. ran[c][i] \in Nat /\ ran[c][i-1] \in Nat /\ ran[c][i-1] <= ran[c][i]
      BY <2>1, <3>1, ElementOfSeq DEF InOrder
    <3>. QED BY <3>2
  <2>. QED BY <2>1, <2>2 DEF NonePassedOver
<1>. QED BY <1>1, Invariance, PTL
=============================================================================
