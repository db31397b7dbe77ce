------------------------------- MODULE Proxy --------------------------------
(***************************************************************************)
(* task_proxy_server and CpChannelCMS: one charge point behind the proxy,  *)
(* which relays it to the server of this repository ("PSN") and, when one  *)
(* is configured, to another central system ("CMS"), the main one.  Each   *)
(* server is served by a channel with a queue of its own.                  *)
(*                                                                         *)
(* A message has a type and an id.  The ids of PSN's requests are prefixed *)
(* on their way to the charge point, so that its answers tell the two      *)
(* servers apart; the ids of the other server are assumed not to start     *)
(* with the prefix.  "start" is the connector that a StartTransaction is   *)
(* for, 0 in other requests.  Two fields record what is not in the         *)
(* messages: "for", which server an answer of the charge point is meant    *)
(* for, and in the answer of a server "start", which connector it is about. *)
(***************************************************************************)
EXTENDS Naturals, FiniteSets, SequencesExt

CONSTANTS
  HasCMS,     \* the charge point has a cms_server_url
  Connectors, \* the numbers of the charge point's connectors
  MaxCalls,   \* bound: requests of the charge point
  MaxAsked    \* bound: requests of each server

ASSUME ProxyAssumption ==
  /\ HasCMS \in BOOLEAN /\ MaxCalls \in Nat /\ MaxAsked \in Nat
  /\ Connectors \subseteq Nat \ {0} /\ 1 \in Connectors

Channels == IF HasCMS THEN {"PSN", "CMS"} ELSE {"PSN"}

\* cms_main: the server whose answers count.
Main == IF HasCMS THEN "CMS" ELSE "PSN"

VARIABLES
  session,    \* "open" while ws_on_connect() runs
  cpOpen,     \* the charge point's connection
  link,       \* each channel's connection to its server
  inbox,      \* what ws_cp_loop() has yet to receive
  queue,      \* each channel's _queue
  down,       \* what each channel has yet to receive from its server
  sent,       \* history: what the charge point has sent
  got,        \* history: what each server has received
  toCp,       \* history: what the charge point has received, and from whom
  asked,      \* how many requests each server has made
  answered,   \* the requests of the charge point that each server has answered
  connector   \* g_connector: whether there is a Connector, made before or
              \* in this session, last_StartTransaction_uuid, transaction_id

netVars == <<session, cpOpen, link>>
cpVars == <<sent, toCp>>
serverVars == <<asked, answered, got>>
vars == <<netVars, inbox, queue, down, cpVars, serverVars, connector>>

\* Connector.__init__; 0 stands for no uuid and for the default id.
NewConnector == [made |-> "now", lastStart |-> 0, transaction |-> 0]

\* The Connectors of an earlier session may still be there.
Init ==
  /\ session = "open"
  /\ cpOpen = TRUE
  /\ link = [c \in Channels |-> "connecting"]
  /\ inbox = <<>>
  /\ queue = [c \in Channels |-> <<>>]
  /\ down = [c \in Channels |-> <<>>]
  /\ sent = <<>>
  /\ got = [c \in Channels |-> <<>>]
  /\ toCp = <<>>
  /\ asked = [c \in Channels |-> 0]
  /\ answered = [c \in Channels |-> {}]
  /\ \E e \in [Connectors -> {"never", "before"}] :
       connector = [k \in Connectors |-> [NewConnector EXCEPT !.made = e[k]]]

Message(type, n) ==
  [type |-> type, n |-> n, prefixed |-> FALSE, start |-> 0, transaction |-> 0,
   for |-> "none"]

-----------------------------------------------------------------------------
(* The filters of CpChannelAbs.                                            *)

\* router_filter_cp_to_cms(): which server gets a message, and as what.
Takes(c, m) == m.type = "call" \/ (m.prefixed <=> c = "PSN")
KeepsPrefix(c, m) == m \* mutant: PSN gets its ids back with the prefix
Unprefixed(c, m) == IF m.type = "call" THEN m ELSE [m EXCEPT !.prefixed = FALSE]

\* router_filter_cms_to_cp()
Unmarked(c, m) == m \* mutant: PSN's requests are not prefixed
Prefixed(c, m) ==
  IF m.type = "call" /\ c = "PSN" THEN [m EXCEPT !.prefixed = TRUE] ELSE m

AnyReplies(c) == TRUE \* mutant: every server replies
MayReply(c) == c = Main

-----------------------------------------------------------------------------
(* The session.                                                            *)

KeepsSession == UNCHANGED <<session, link>> \* mutant: the other tasks go on
\* The first task to complete takes the others with it.
EndSession ==
  /\ session' = "ended"
  /\ link' = [c \in Channels |-> "closed"]

Open(c) == session = "open" /\ link[c] = "open"

\* websockets.connect()
Connect(c) ==
  /\ session = "open" /\ link[c] = "connecting"
  /\ link' = [link EXCEPT ![c] = "open"]
  /\ UNCHANGED <<session, cpOpen, inbox, queue, down, cpVars, serverVars, connector>>

\* get_connector() of this session's ChargePoint, which does not know the
\* Connectors of the one before it and puts its own in their place.
Named(k) ==
  IF k = 0 \/ connector[k].made = "now" THEN connector
  ELSE [connector EXCEPT ![k] = NewConnector]

\* ChargePoint.__init__ of the server of this repository, a task of its own:
\* it runs before or after the proxy finds itself connected.
Registered == connector[1].made = "now"
Register ==
  /\ session = "open" /\ ~Registered
  /\ connector' = Named(1)
  /\ UNCHANGED <<netVars, inbox, queue, down, cpVars, serverVars>>

ConnectFails(c) ==
  /\ session = "open" /\ link[c] = "connecting"
  /\ EndSession
  /\ UNCHANGED <<cpOpen, inbox, queue, down, cpVars, serverVars, connector>>

\* ws_cms_recv_loop() returns, but the channel is only done when
\* ws_cp_recv_loop() notices, too.
ServerCloses(c) ==
  /\ Open(c) /\ down[c] = <<>>
  /\ link' = [link EXCEPT ![c] = "closed"]
  /\ UNCHANGED <<session, cpOpen, inbox, queue, down, cpVars, serverVars, connector>>

\* ws_cp_loop()
ReceiveFromCp ==
  /\ session = "open" /\ inbox # <<>>
  /\ queue' = [c \in Channels |-> Append(queue[c], Head(inbox))]
  /\ inbox' = Tail(inbox)
  /\ UNCHANGED <<netVars, down, cpVars, serverVars, connector>>

CpClosed ==
  /\ session = "open" /\ inbox = <<>> /\ ~cpOpen
  /\ EndSession
  /\ UNCHANGED <<cpOpen, inbox, queue, down, cpVars, serverVars, connector>>

-----------------------------------------------------------------------------
(* A channel.                                                              *)

\* last_StartTransaction_uuid, if there is a Connector to note it for.
Noted(m) ==
  IF m.start # 0 /\ connector[m.start].made # "never"
  THEN [connector EXCEPT ![m.start].lastStart = m.n] ELSE connector

\* ws_cp_recv_loop(): the message is lost if the server is gone.
Forward(c) ==
  /\ session = "open" /\ link[c] # "connecting"
  /\ queue[c] # <<>>
  /\ LET m == Head(queue[c]) IN
       /\ connector' = Noted(m)
       /\ \/ /\ Takes(c, m) /\ link[c] = "open"
             /\ got' = [got EXCEPT ![c] = Append(@, Unprefixed(c, m))]
             /\ UNCHANGED <<session, link>>
          \/ /\ Takes(c, m) /\ link[c] = "closed"
             /\ EndSession
             /\ UNCHANGED got
          \/ ~Takes(c, m) /\ UNCHANGED <<session, link, got>>
  /\ queue' = [queue EXCEPT ![c] = Tail(@)]
  /\ UNCHANGED <<cpOpen, inbox, down, cpVars, asked, answered>>

\* transaction_id, taken by each Connector from the answer to the last
\* StartTransaction noted for it.
Learned(m) ==
  [k \in Connectors |->
     IF m.transaction # 0 /\ connector[k].lastStart = m.n
     THEN [connector[k] EXCEPT !.transaction = m.transaction] ELSE connector[k]]

Received(c) ==
  /\ Open(c) /\ down[c] # <<>>
  /\ down' = [down EXCEPT ![c] = Tail(@)]
  /\ UNCHANGED <<cpOpen, inbox, queue, sent, serverVars>>

\* An answer of a server that is not the main one is dropped.
DropReply(c) ==
  /\ Received(c)
  /\ Head(down[c]).type # "call" /\ ~MayReply(c)
  /\ UNCHANGED <<session, link, toCp, connector>>

\* A CallError has no payload to look into: the channel fails.
FailOnError(c) ==
  /\ Received(c)
  /\ Head(down[c]).type = "error" /\ MayReply(c)
  /\ EndSession
  /\ UNCHANGED <<toCp, connector>>

\* ws_cms_recv_loop(): a request, or an answer that counts.
Backward(c) ==
  /\ Received(c)
  /\ LET m == Head(down[c]) IN
       /\ m.type = "call" \/ (m.type = "result" /\ MayReply(c))
       /\ connector' = IF m.type = "result" THEN Learned(m) ELSE connector
       /\ \/ /\ cpOpen
             /\ toCp' = Append(toCp, [by |-> c, message |-> Prefixed(c, m)])
             /\ UNCHANGED link
          \/ /\ ~cpOpen
             /\ link' = [link EXCEPT ![c] = "closed"]
             /\ UNCHANGED toCp
  /\ UNCHANGED session

-----------------------------------------------------------------------------
(* The charge point and the servers.                                       *)

Say(m) ==
  /\ cpOpen /\ session = "open"
  /\ sent' = Append(sent, m)
  /\ inbox' = Append(inbox, m)
  /\ UNCHANGED <<netVars, queue, down, toCp, serverVars, connector>>

CallsIn(s) == SelectSeq(s, LAMBDA m : m.type = "call")

CpCalls ==
  \E n \in 1..MaxCalls, s \in Connectors \union {0} :
    /\ n = Len(CallsIn(sent)) + 1
    /\ Say([Message("call", n) EXCEPT !.start = s])

\* The request the charge point answers is told apart by its id alone.
Answers(m, r) ==
  m.type # "call" /\ m.n = r.message.n /\ m.prefixed = r.message.prefixed /\ m.for = r.by

CpAnswers ==
  \E i \in DOMAIN toCp, type \in {"result", "error"} :
    LET r == toCp[i] IN
      /\ r.message.type = "call"
      /\ \A j \in DOMAIN sent : ~Answers(sent[j], r)
      /\ Say([Message(type, r.message.n) EXCEPT !.prefixed = r.message.prefixed,
                                                !.for = r.by])

CpCloses ==
  /\ cpOpen /\ session = "open"
  /\ cpOpen' = FALSE
  /\ UNCHANGED <<session, link, inbox, queue, down, cpVars, serverVars, connector>>

Tell(c, m) ==
  /\ Open(c)
  /\ down' = [down EXCEPT ![c] = Append(@, m)]
  /\ UNCHANGED <<netVars, inbox, queue, cpVars, got>>

\* This repository's server talks to the charge point once it has registered it.
Serves(c) == c = "PSN" => Registered

\* The servers number their requests alike.
ServerCalls(c) ==
  /\ Serves(c)
  /\ asked[c] < MaxAsked
  /\ asked' = [asked EXCEPT ![c] = @ + 1]
  /\ Tell(c, Message("call", asked[c] + 1))
  /\ UNCHANGED <<answered, connector>>

\* The connectors that a handler may be told of, 0 if none: that of a
\* StartTransaction; any, by a StatusNotification or MeterValues.
Names(c, m, type) ==
  CASE c # "PSN" \/ type = "error" -> {0}
    [] m.start # 0 -> {m.start}
    [] OTHER -> Connectors \union {0}

\* on_start_transaction() answers with the id that the Connector has, the
\* other server with one of its own.
Given(c, m) == IF c = "PSN" THEN Named(m.start)[m.start].transaction ELSE m.n
Transaction(c, m, type) ==
  IF m.start # 0 /\ type = "result" THEN Given(c, m) ELSE 0

ServerAnswers(c) ==
  /\ Serves(c)
  /\ \E i \in DOMAIN got[c], type \in {"result", "error"} :
       LET m == got[c][i] IN
         /\ m.type = "call" /\ m.n \notin answered[c]
         /\ answered' = [answered EXCEPT ![c] = @ \union {m.n}]
         /\ Tell(c, [Message(type, m.n) EXCEPT
                       !.start = m.start, !.transaction = Transaction(c, m, type)])
         /\ \E k \in Names(c, m, type) : connector' = Named(k)
  /\ UNCHANGED asked

-----------------------------------------------------------------------------
ChannelStep(c) == Forward(c) \/ DropReply(c) \/ FailOnError(c) \/ Backward(c)

Outside ==
  \/ CpCalls \/ CpAnswers \/ CpCloses \/ Register
  \/ \E c \in Channels :
       Connect(c) \/ ConnectFails(c) \/ ServerCloses(c) \/ ServerCalls(c) \/ ServerAnswers(c)

Next ==
  \/ ReceiveFromCp \/ CpClosed
  \/ \E c \in Channels : ChannelStep(c)
  \/ Outside

Spec == Init /\ [][Next]_vars

(* The proxy's tasks are scheduled fairly, and a connection attempt ends.   *)
Fairness ==
  /\ WF_vars(ReceiveFromCp \/ CpClosed)
  /\ \A c \in Channels :
       /\ WF_vars(Forward(c))
       /\ WF_vars(DropReply(c) \/ FailOnError(c) \/ Backward(c))
       /\ WF_vars(Connect(c) \/ ConnectFails(c))

FairSpec == Spec /\ Fairness

\* A StartTransaction for connector k on its way to the servers; one that the
\* main server has yet to answer, or whose answer is yet to be passed on.
Coming(k, n) ==
  \/ \E m \in Range(inbox) : m.start = k /\ m.n = n
  \/ \E c \in Channels : \E m \in Range(queue[c]) : m.start = k /\ m.n = n
Awaited(k, n) ==
  \/ \E m \in Range(got[Main]) : m.start = k /\ m.n = n /\ n \notin answered[Main]
  \/ \E m \in Range(down[Main]) : m.transaction # 0 /\ m.start = k /\ m.n = n
UnderWay(k, n) == Coming(k, n) \/ Awaited(k, n)

(* A charge point that starts a transaction on a connector only once the    *)
(* server of this repository has made that Connector in this session, and   *)
(* one at a time on each.                                                   *)
Starts(k) == \E i \in DOMAIN sent' \ DOMAIN sent : sent'[i].start = k
Patient ==
  \A k \in Connectors :
    Starts(k) => connector[k].made = "now" /\ \A n \in 1..MaxCalls : ~UnderWay(k, n)

PatientSpec == Init /\ [][Next /\ Patient]_vars

-----------------------------------------------------------------------------
(* Properties.                                                             *)

MessageType ==
  [type : {"call", "result", "error"}, n : Nat, prefixed : BOOLEAN,
   start : Connectors \union {0}, transaction : Nat, for : Channels \union {"none"}]

(* Every variable has its type, and no server gets to see a prefix.         *)
TypeOK ==
  /\ session \in {"open", "ended"} /\ cpOpen \in BOOLEAN
  /\ link \in [Channels -> {"connecting", "open", "closed"}]
  /\ inbox \in Seq(MessageType) /\ sent \in Seq(MessageType)
  /\ toCp \in Seq([by : Channels, message : MessageType])
  /\ queue \in [Channels -> Seq(MessageType)]
  /\ \A c \in Channels : \A i \in DOMAIN down[c] :
       down[c][i] \in MessageType /\ ~down[c][i].prefixed
  /\ \A c \in Channels : \A i \in DOMAIN got[c] :
       got[c][i] \in MessageType /\ ~got[c][i].prefixed
  /\ asked \in [Channels -> 0..MaxAsked]
  /\ answered \in [Channels -> SUBSET (1..MaxCalls)]
  /\ connector \in [Connectors -> [made : {"never", "before", "now"},
                                  lastStart : 0..MaxCalls, transaction : 0..MaxCalls]]

\* What a server would receive of a message without the proxy.
Share(c, m) ==
  IF m.type = "call" \/ m.for = c THEN <<[m EXCEPT !.prefixed = FALSE]>> ELSE <<>>

\* What of a sequence of the charge point's messages concerns a server.
ViewOf(c, s) == FlattenSeq([i \in DOMAIN s |-> Share(c, s[i])])

(* As long as the session lasts, each server sees the charge point as if it *)
(* were alone: every request and every answer to its own requests, in the   *)
(* order sent, none lost, none twice, none meant for the other server.      *)
ServerView ==
  session = "open" =>
    \A c \in Channels :
      got[c] \o ViewOf(c, queue[c]) \o ViewOf(c, inbox) = ViewOf(c, sent)

(* The charge point gets at most one answer to each of its requests, though *)
(* both servers answer it, and only from the main one.                      *)
AnsweredOnce ==
  LET replies == {i \in DOMAIN toCp : toCp[i].message.type # "call"} IN
    \A i, j \in replies :
      /\ toCp[i].by = Main
      /\ toCp[i].message.n = toCp[j].message.n => i = j

(* When the charge point leaves, the session ends and with it the           *)
(* connections to all servers.  When a server leaves, a message for it ends *)
(* the session, so that the charge point can connect anew.                  *)
SessionsEnd ==
  /\ ~cpOpen ~> (session = "ended" /\ \A c \in Channels : link[c] = "closed")
  /\ \A c \in Channels :
       (link[c] = "closed" /\ ViewOf(c, queue[c]) # <<>>) ~> session = "ended"

(* The transaction id in an answer to StartTransaction that is passed on to *)
(* the charge point is the one that its Connector has from then on:         *)
(* CpChannelAbs.py:69 says "when CMS/PSN send StartTransaction ACK, get     *)
(* transactionID from payload".                                             *)
TransactionLearned ==
  [][ \A i \in DOMAIN toCp' \ DOMAIN toCp :
        toCp'[i].message.transaction # 0
          => connector'[toCp'[i].message.start].transaction
                = toCp'[i].message.transaction ]_vars
=============================================================================
