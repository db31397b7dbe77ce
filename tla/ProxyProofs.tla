------------------------------ MODULE ProxyProofs ------------------------------
(***************************************************************************)
(* Theorems about the proxy, with or without another server, for any       *)
(* number of requests.                                                     *)
(***************************************************************************)
EXTENDS Proxy, SequenceLemmas

\* What the charge point sends, what a server receives and what it sends.
Upward ==
  {m \in MessageType : /\ m.type = "call" => m.n \in 1..MaxCalls /\ m.prefixed = FALSE
                       /\ m.start # 0 => m.type = "call"}
Delivered == {m \in Upward : m.prefixed = FALSE}
Downward == {m \in MessageType : m.prefixed = FALSE /\ m.transaction \in 0..MaxCalls}
ToCp == [by : Channels, message : MessageType]
ConnectorType ==
  [made : {"never", "before", "now"}, lastStart : 0..MaxCalls,
   transaction : 0..MaxCalls]

TypeInv ==
  /\ session \in {"open", "ended"} /\ cpOpen \in BOOLEAN
  /\ link \in [Channels -> {"connecting", "open", "closed"}]
  /\ inbox \in Seq(Upward) /\ sent \in Seq(Upward)
  /\ queue \in [Channels -> Seq(Upward)]
  /\ down \in [Channels -> Seq(Downward)]
  /\ got \in [Channels -> Seq(Delivered)]
  /\ toCp \in Seq(ToCp)
  /\ asked \in [Channels -> 0..MaxAsked]
  /\ answered \in [Channels -> SUBSET (1..MaxCalls)]
  /\ connector \in [Connectors -> ConnectorType]

-----------------------------------------------------------------------------
(* Messages.                                                               *)

LEMMA MessageProperties ==
  ASSUME NEW type \in {"call", "result", "error"}, NEW n \in Nat
  PROVE  /\ Message(type, n) \in MessageType
         /\ Message(type, n).type = type /\ Message(type, n).n = n
         /\ Message(type, n).prefixed = FALSE /\ Message(type, n).start = 0
         /\ Message(type, n).transaction = 0
BY DEF Message, MessageType

LEMMA UpwardMessages ==
  ASSUME NEW n \in Nat
  PROVE  /\ \A s \in Connectors \union {0} : n \in 1..MaxCalls =>
              [Message("call", n) EXCEPT !.start = s] \in Upward
         /\ \A type \in {"result", "error"}, p \in BOOLEAN, c \in Channels :
              [Message(type, n) EXCEPT !.prefixed = p, !.for = c] \in Upward
BY DEF Message, MessageType, Upward

\* A server's answer, which is about connector k and transaction t.
Answer(type, n, k, t) ==
  [Message(type, n) EXCEPT !.start = k, !.transaction = t]

LEMMA DownwardMessages ==
  ASSUME NEW n \in Nat
  PROVE  /\ Message("call", n) \in Downward
         /\ \A type \in {"result", "error"}, k \in Connectors \union {0},
               t \in 0..MaxCalls :
              /\ Answer(type, n, k, t) \in Downward
              /\ Answer(type, n, k, t).type = type
              /\ Answer(type, n, k, t).n = n
              /\ Answer(type, n, k, t).start = k
              /\ Answer(type, n, k, t).transaction = t
<1>1. 0 \in 0..MaxCalls
  BY ProxyAssumption
<1>2. Message("call", n) \in Downward
  BY <1>1 DEF Message, MessageType, Downward
<1>3. ASSUME NEW type \in {"result", "error"}, NEW k \in Connectors \union {0},
             NEW t \in 0..MaxCalls
      PROVE  /\ Answer(type, n, k, t) \in Downward
             /\ Answer(type, n, k, t).type = type
             /\ Answer(type, n, k, t).n = n
             /\ Answer(type, n, k, t).start = k
             /\ Answer(type, n, k, t).transaction = t
  <2>1. t \in Nat
    BY ProxyAssumption
  <2>2. Answer(type, n, k, t) \in MessageType
    BY <2>1 DEF Answer, Message, MessageType
  <2>3. /\ Answer(type, n, k, t).type = type /\ Answer(type, n, k, t).n = n
        /\ Answer(type, n, k, t).prefixed = FALSE
        /\ Answer(type, n, k, t).start = k
        /\ Answer(type, n, k, t).transaction = t
    BY DEF Answer, Message
  <2>4. Answer(type, n, k, t) \in Downward
    BY <2>2, <2>3 DEF Downward
  <2> QED
    BY <2>3, <2>4
<1> QED
  BY <1>2, <1>3

LEMMA FilteredUp ==
  ASSUME NEW m \in Upward, NEW c \in Channels
  PROVE  Unprefixed(c, m) \in Delivered
BY DEF Upward, Delivered, MessageType, Unprefixed

LEMMA FilteredDown ==
  ASSUME NEW m \in Downward, NEW c \in Channels
  PROVE  /\ Prefixed(c, m) \in MessageType
         /\ Prefixed(c, m).type = m.type /\ Prefixed(c, m).n = m.n
BY DEF Downward, MessageType, Prefixed

\* What is noted, learned or named leaves the Connectors well typed.
ConnectorsType == [Connectors -> ConnectorType]

LEMMA ConnectorNotes ==
  ASSUME connector \in ConnectorsType
  PROVE  /\ \A m \in Upward : Noted(m) \in ConnectorsType
         /\ \A m \in Downward : Learned(m) \in ConnectorsType
         /\ \A k \in Connectors \union {0} : Named(k) \in ConnectorsType
<1>1. ASSUME NEW k \in Connectors, NEW n \in 0..MaxCalls
      PROVE  /\ [connector[k] EXCEPT !.lastStart = n] \in ConnectorType
             /\ [connector[k] EXCEPT !.transaction = n] \in ConnectorType
             /\ connector[k] \in ConnectorType
  BY DEF ConnectorType, ConnectorsType
<1>2. NewConnector \in ConnectorType
  BY ProxyAssumption DEF NewConnector, ConnectorType
<1>3. ASSUME NEW m \in Upward
      PROVE  Noted(m) \in ConnectorsType
  <2>1. CASE m.start # 0 /\ connector[m.start].made # "never"
    <3>1. m.start \in Connectors /\ m.n \in 0..MaxCalls
      BY <2>1, ProxyAssumption DEF Upward, MessageType
    <3>2. [connector[m.start] EXCEPT !.lastStart = m.n] \in ConnectorType
      BY <1>1, <3>1
    <3>3. Noted(m) = [connector EXCEPT ![m.start]
                                 = [connector[m.start] EXCEPT !.lastStart = m.n]]
      BY <2>1 DEF Noted
    <3> QED
      BY <3>2, <3>3 DEF ConnectorsType
  <2>2. CASE ~(m.start # 0 /\ connector[m.start].made # "never")
    BY <2>2 DEF Noted
  <2> QED
    BY <2>1, <2>2
<1>4. ASSUME NEW m \in Downward
      PROVE  Learned(m) \in ConnectorsType
  <2>1. m.transaction \in 0..MaxCalls
    BY DEF Downward
  <2> QED
    BY <1>1, <2>1 DEF Learned, ConnectorsType
<1>5. ASSUME NEW k \in Connectors \union {0}
      PROVE  Named(k) \in ConnectorsType
  BY <1>2 DEF Named, ConnectorsType
<1> QED
  BY <1>3, <1>4, <1>5

LEMMA TypeImplied ==
  ASSUME TypeInv
  PROVE  TypeOK
<1>1. Upward \subseteq MessageType
  BY DEF Upward
<1>2. inbox \in Seq(MessageType) /\ sent \in Seq(MessageType)
  BY <1>1 DEF TypeInv
<1>3. queue \in [Channels -> Seq(MessageType)]
  BY <1>1 DEF TypeInv
<1>4. \A c \in Channels : \A i \in DOMAIN down[c] :
        down[c][i] \in MessageType /\ ~down[c][i].prefixed
  <2>1. \A c \in Channels : \A i \in DOMAIN down[c] : down[c][i] \in Downward
    BY LenProperties, ElementOfSeq DEF TypeInv
  <2> QED
    BY <2>1 DEF Downward
<1>5. \A c \in Channels : \A i \in DOMAIN got[c] :
        got[c][i] \in MessageType /\ ~got[c][i].prefixed
  <2>1. \A c \in Channels : \A i \in DOMAIN got[c] : got[c][i] \in Delivered
    BY LenProperties, ElementOfSeq DEF TypeInv
  <2> QED
    BY <1>1, <2>1 DEF Delivered
<1> QED
  BY <1>2, <1>3, <1>4, <1>5 DEF TypeInv, TypeOK, ToCp, ConnectorType

-----------------------------------------------------------------------------
(* Types are preserved.                                                    *)

LEMMA EndSessionType ==
  ASSUME EndSession
  PROVE  /\ session' \in {"open", "ended"}
         /\ link' \in [Channels -> {"connecting", "open", "closed"}]
BY DEF EndSession

(* A message taken from a queue, and the rest of the queue.                 *)
LEMMA Taken ==
  ASSUME NEW S, NEW q \in Seq(S), q # <<>>
  PROVE  Head(q) \in S /\ Tail(q) \in Seq(S)
BY HeadTailProperties

LEMMA Appended ==
  ASSUME NEW S, NEW q \in Seq(S), NEW e \in S
  PROVE  Append(q, e) \in Seq(S)
BY AppendProperties

LEMMA SessionSteps ==
  ASSUME TypeInv, NEW c \in Channels,
         \/ Connect(c) \/ ConnectFails(c) \/ ServerCloses(c)
         \/ CpCloses \/ CpClosed \/ Register
  PROVE  TypeInv'
<1> USE DEF TypeInv, cpVars, serverVars
<1>1. CASE Connect(c)
  BY <1>1 DEF Connect
<1>2. CASE ConnectFails(c)
  BY <1>2, EndSessionType DEF ConnectFails
<1>3. CASE ServerCloses(c)
  BY <1>3 DEF ServerCloses
<1>4. CASE CpCloses
  BY <1>4 DEF CpCloses
<1>5. CASE CpClosed
  BY <1>5, EndSessionType DEF CpClosed
<1>6. CASE Register
  BY <1>6, ConnectorNotes, ProxyAssumption DEF Register, netVars, ConnectorsType
<1> QED
  BY <1>1, <1>2, <1>3, <1>4, <1>5, <1>6

LEMMA ReceiveStep ==
  ASSUME TypeInv, ReceiveFromCp
  PROVE  TypeInv'
<1>1. Head(inbox) \in Upward /\ Tail(inbox) \in Seq(Upward)
  BY Taken DEF TypeInv, ReceiveFromCp
<1>2. \A c \in Channels : Append(queue[c], Head(inbox)) \in Seq(Upward)
  BY <1>1, Appended DEF TypeInv
<1> QED
  BY <1>1, <1>2 DEF TypeInv, ReceiveFromCp, netVars, cpVars, serverVars

LEMMA ForwardStep ==
  ASSUME TypeInv, NEW c \in Channels, Forward(c)
  PROVE  TypeInv'
<1> DEFINE m == Head(queue[c])
<1>1. m \in Upward /\ Tail(queue[c]) \in Seq(Upward)
  BY Taken DEF TypeInv, Forward
<1>2. Append(got[c], Unprefixed(c, m)) \in Seq(Delivered)
  BY <1>1, FilteredUp, Appended DEF TypeInv
<1>3. connector' \in ConnectorsType
  BY <1>1, ConnectorNotes DEF TypeInv, Forward, ConnectorsType
<1> HIDE DEF m
<1>4. /\ queue' = [queue EXCEPT ![c] = Tail(queue[c])]
      /\ UNCHANGED <<cpOpen, inbox, down, cpVars, asked, answered>>
      /\ \/ /\ got' = [got EXCEPT ![c] = Append(got[c], Unprefixed(c, m))]
            /\ UNCHANGED <<session, link>>
         \/ EndSession /\ UNCHANGED got
         \/ UNCHANGED <<session, link, got>>
  BY DEF Forward, m
<1>5. queue' \in [Channels -> Seq(Upward)] /\ got' \in [Channels -> Seq(Delivered)]
  BY <1>1, <1>2, <1>4 DEF TypeInv
<1>6. /\ session' \in {"open", "ended"}
      /\ link' \in [Channels -> {"connecting", "open", "closed"}]
  BY <1>4, EndSessionType DEF TypeInv
<1> QED
  BY <1>3, <1>4, <1>5, <1>6 DEF TypeInv, cpVars, ConnectorsType

LEMMA DownSteps ==
  ASSUME TypeInv, NEW c \in Channels, DropReply(c) \/ FailOnError(c) \/ Backward(c)
  PROVE  TypeInv'
<1> DEFINE m == Head(down[c])
<1>1. /\ Open(c) /\ down[c] # <<>>
      /\ down' = [down EXCEPT ![c] = Tail(down[c])]
      /\ UNCHANGED <<cpOpen, inbox, queue, sent, serverVars>>
  BY DEF DropReply, FailOnError, Backward, Received
<1>2. m \in Downward /\ Tail(down[c]) \in Seq(Downward)
  BY <1>1, Taken DEF TypeInv
<1>3. down' \in [Channels -> Seq(Downward)]
  BY <1>1, <1>2 DEF TypeInv
<1>4. CASE DropReply(c)
  BY <1>1, <1>3, <1>4 DEF TypeInv, DropReply, serverVars
<1>5. CASE FailOnError(c)
  BY <1>1, <1>3, <1>5, EndSessionType DEF TypeInv, FailOnError, serverVars
<1>6. CASE Backward(c)
  <2>1. connector' \in ConnectorsType
    BY <1>2, <1>6, ConnectorNotes DEF TypeInv, Backward, ConnectorsType
  <2>2. [by |-> c, message |-> Prefixed(c, m)] \in ToCp
    BY <1>2, FilteredDown DEF ToCp
  <2>3. Append(toCp, [by |-> c, message |-> Prefixed(c, m)]) \in Seq(ToCp)
    BY <2>2, Appended DEF TypeInv
  <2> HIDE DEF m
  <2>4. /\ \/ /\ toCp' = Append(toCp, [by |-> c, message |-> Prefixed(c, m)])
              /\ UNCHANGED link
           \/ /\ link' = [link EXCEPT ![c] = "closed"]
              /\ UNCHANGED toCp
        /\ UNCHANGED session
    BY <1>6 DEF Backward, m
  <2>5. toCp' \in Seq(ToCp) /\ link' \in [Channels -> {"connecting", "open", "closed"}]
    BY <2>3, <2>4 DEF TypeInv
  <2> QED
    BY <1>1, <1>3, <2>1, <2>4, <2>5 DEF TypeInv, serverVars, ConnectorsType
<1> QED
  BY <1>4, <1>5, <1>6

LEMMA SayType ==
  ASSUME TypeInv, NEW m \in Upward, Say(m)
  PROVE  TypeInv'
<1>1. Append(inbox, m) \in Seq(Upward) /\ Append(sent, m) \in Seq(Upward)
  BY Appended DEF TypeInv
<1> QED
  BY <1>1 DEF TypeInv, Say, netVars, serverVars

LEMMA CpSays ==
  ASSUME TypeInv, CpCalls \/ CpAnswers
  PROVE  \E m \in Upward : Say(m)
<1>1. CASE CpCalls
  <2>1. PICK n \in 1..MaxCalls, s \in Connectors \union {0} :
          Say([Message("call", n) EXCEPT !.start = s])
    BY <1>1 DEF CpCalls
  <2>2. n \in Nat
    BY ProxyAssumption
  <2>3. [Message("call", n) EXCEPT !.start = s] \in Upward
    BY <2>2, UpwardMessages
  <2> QED
    BY <2>1, <2>3
<1>2. CASE CpAnswers
  <2>1. PICK i \in DOMAIN toCp, type \in {"result", "error"} :
          Say([Message(type, toCp[i].message.n) EXCEPT
                 !.prefixed = toCp[i].message.prefixed, !.for = toCp[i].by])
    BY <1>2 DEF CpAnswers
  <2>2. toCp[i] \in ToCp
    BY LenProperties, ElementOfSeq DEF TypeInv
  <2>3. toCp[i].message.n \in Nat /\ toCp[i].message.prefixed \in BOOLEAN
        /\ toCp[i].by \in Channels
    BY <2>2 DEF ToCp, MessageType
  <2>4. [Message(type, toCp[i].message.n) EXCEPT
           !.prefixed = toCp[i].message.prefixed, !.for = toCp[i].by] \in Upward
    BY <2>3, UpwardMessages
  <2> QED
    BY <2>1, <2>4
<1> QED
  BY <1>1, <1>2

(* The transaction id that this server or the other gives.                   *)
LEMMA Transactions ==
  ASSUME TypeInv, NEW c, NEW type, NEW g \in Delivered, g.n \in 1..MaxCalls
  PROVE  /\ Transaction(c, g, type) \in 0..MaxCalls
         /\ Transaction(c, g, type) # 0 => g.start \in Connectors
         /\ g.start \in Connectors \union {0}
<1>1. g.start \in Connectors \union {0} /\ g.n \in 0..MaxCalls /\ 0 \in 0..MaxCalls
  BY ProxyAssumption DEF Delivered, Upward, MessageType
<1>2. Named(g.start) \in ConnectorsType
  BY <1>1, ConnectorNotes DEF TypeInv, ConnectorsType
<1>3. g.start # 0 => Given(c, g) \in 0..MaxCalls
  BY <1>1, <1>2 DEF Given, ConnectorsType, ConnectorType
<1> QED
  BY <1>1, <1>3 DEF Transaction

(* What a server says, and which of the charge point's requests it answers.  *)
(* A transaction id is only in the answer to a StartTransaction.             *)
LEMMA ServerSays ==
  ASSUME TypeInv, NEW c \in Channels, ServerCalls(c) \/ ServerAnswers(c)
  PROVE  \E m \in Downward :
           /\ Open(c)
           /\ down' = [down EXCEPT ![c] = Append(down[c], m)]
           /\ UNCHANGED <<netVars, inbox, queue, cpVars, got>>
           /\ \E k \in Connectors \union {0} : connector' = Named(k)
           /\ \/ /\ m.type = "call" /\ m.transaction = 0
                 /\ asked' \in [Channels -> 0..MaxAsked] /\ UNCHANGED answered
              \/ /\ m.type # "call" /\ m.n \in 1..MaxCalls /\ m.n \notin answered[c]
                 /\ answered' = [answered EXCEPT ![c] = answered[c] \union {m.n}]
                 /\ UNCHANGED asked
                 /\ m.transaction # 0 =>
                      /\ m.start \in Connectors
                      /\ \E g \in Range(got[c]) : g.start = m.start /\ g.n = m.n
<1>1. CASE ServerCalls(c)
  <2>1. asked[c] \in 0..MaxAsked /\ MaxAsked \in Nat
    BY ProxyAssumption DEF TypeInv
  <2>2. asked' \in [Channels -> 0..MaxAsked]
    BY <1>1, <2>1 DEF TypeInv, ServerCalls
  <2>3. asked[c] + 1 \in Nat
    BY <2>1
  <2>4. /\ Message("call", asked[c] + 1) \in Downward
        /\ Message("call", asked[c] + 1).type = "call"
        /\ Message("call", asked[c] + 1).transaction = 0
    BY <2>3, DownwardMessages, MessageProperties
  <2>5. connector' = Named(0)
    BY <1>1 DEF ServerCalls, Named
  <2> QED
    BY <1>1, <2>2, <2>4, <2>5 DEF ServerCalls, Tell
<1>2. CASE ServerAnswers(c)
  <2>1. PICK i \in DOMAIN got[c], type \in {"result", "error"} :
          LET g == got[c][i] IN
            /\ g.type = "call" /\ g.n \notin answered[c]
            /\ answered' = [answered EXCEPT ![c] = @ \union {g.n}]
            /\ Tell(c, [Message(type, g.n) EXCEPT
                          !.start = g.start, !.transaction = Transaction(c, g, type)])
            /\ \E k \in Names(c, g, type) : connector' = Named(k)
    BY <1>2 DEF ServerAnswers
  <2> DEFINE g == got[c][i]
             t == Transaction(c, g, type)
             m == Answer(type, g.n, g.start, t)
  <2>2. g \in Delivered /\ g \in Range(got[c])
    BY LenProperties, ElementOfSeq DEF TypeInv, Range
  <2>3. /\ down' = [down EXCEPT ![c] = Append(down[c], m)] /\ Open(c)
        /\ UNCHANGED <<netVars, inbox, queue, cpVars, got>>
        /\ answered' = [answered EXCEPT ![c] = answered[c] \union {g.n}]
        /\ g.type = "call" /\ g.n \notin answered[c]
        /\ \E k \in Names(c, g, type) : connector' = Named(k)
    BY <2>1 DEF Tell, Answer
  <2>4. UNCHANGED asked
    BY <1>2 DEF ServerAnswers
  <2> HIDE DEF g
  <2>5. g.n \in 1..MaxCalls /\ g.n \in Nat
    BY <2>2, <2>3 DEF Delivered, Upward
  <2>6. /\ t \in 0..MaxCalls /\ (t # 0 => g.start \in Connectors)
        /\ g.start \in Connectors \union {0}
    BY <2>2, <2>5, Transactions
  <2>7. Names(c, g, type) \subseteq Connectors \union {0}
    BY <2>6 DEF Names
  <2> HIDE DEF t
  <2>8. /\ m \in Downward /\ m.type = type /\ m.n = g.n /\ m.start = g.start
        /\ m.transaction = t
    BY <2>5, <2>6, DownwardMessages
  <2> HIDE DEF m
  <2> QED
    BY <2>2, <2>3, <2>4, <2>5, <2>6, <2>7, <2>8
<1> QED
  BY <1>1, <1>2

LEMMA ServerSteps ==
  ASSUME TypeInv, NEW c \in Channels, ServerCalls(c) \/ ServerAnswers(c)
  PROVE  TypeInv'
<1>1. PICK m \in Downward :
        /\ down' = [down EXCEPT ![c] = Append(down[c], m)]
        /\ UNCHANGED <<netVars, inbox, queue, cpVars, got>>
        /\ \E k \in Connectors \union {0} : connector' = Named(k)
        /\ \/ asked' \in [Channels -> 0..MaxAsked] /\ UNCHANGED answered
           \/ /\ m.n \in 1..MaxCalls
              /\ answered' = [answered EXCEPT ![c] = answered[c] \union {m.n}]
              /\ UNCHANGED asked
  BY ServerSays
<1>2. Append(down[c], m) \in Seq(Downward)
  BY Appended DEF TypeInv
<1>3. /\ asked' \in [Channels -> 0..MaxAsked]
      /\ answered' \in [Channels -> SUBSET (1..MaxCalls)]
  BY <1>1 DEF TypeInv
<1>4. connector' \in [Connectors -> ConnectorType]
  BY <1>1, ConnectorNotes DEF TypeInv, ConnectorsType
<1> QED
  BY <1>1, <1>2, <1>3, <1>4 DEF TypeInv, netVars, cpVars

LEMMA TypeStep ==
  ASSUME TypeInv, [Next]_vars
  PROVE  TypeInv'
<1>1. CASE UNCHANGED vars
  BY <1>1 DEF TypeInv, vars, netVars, cpVars, serverVars
<1>2. CASE CpClosed \/ CpCloses \/ Register
  <2>1. PICK c : c \in Channels
    BY DEF Channels
  <2> QED
    BY <1>2, <2>1, SessionSteps
<1>3. CASE CpCalls \/ CpAnswers
  BY <1>3, CpSays, SayType
<1> QED
  BY <1>1, <1>2, <1>3, SessionSteps, ReceiveStep, ForwardStep, DownSteps, ServerSteps
  DEF Next, ChannelStep, Outside

LEMMA TypesHold == Spec => []TypeInv
<1>1. Init => TypeInv
  BY ProxyAssumption DEF Init, TypeInv, NewConnector, ConnectorType
<1>2. TypeInv /\ [Next]_vars => TypeInv'
  BY TypeStep
<1> QED
  BY <1>1, <1>2, PTL DEF Spec

(* Every variable has its type; in particular no server ever receives an id  *)
(* with the prefix of this proxy, nor sends one.                             *)
THEOREM TypeCorrect == Spec => []TypeOK
<1>1. TypeInv => TypeOK
  BY TypeImplied
<1> QED
  BY TypesHold, <1>1, PTL

-----------------------------------------------------------------------------
(* One answer.                                                             *)

Reply(m) == m.type # "call"

\* The main server answers a request once, and its answer is either still on
\* its way or at the charge point.
RepliesInv ==
  /\ \A i \in DOMAIN toCp :
       Reply(toCp[i].message) => /\ toCp[i].by = Main
                                 /\ toCp[i].message.n \in answered[Main]
  /\ \A i \in DOMAIN down[Main] :
       Reply(down[Main][i]) => down[Main][i].n \in answered[Main]
  /\ \A i, j \in DOMAIN toCp :
       /\ Reply(toCp[i].message) /\ Reply(toCp[j].message)
       /\ toCp[i].message.n = toCp[j].message.n
       => i = j
  /\ \A i, j \in DOMAIN down[Main] :
       /\ Reply(down[Main][i]) /\ Reply(down[Main][j])
       /\ down[Main][i].n = down[Main][j].n
       => i = j
  /\ \A i \in DOMAIN toCp, j \in DOMAIN down[Main] :
       Reply(toCp[i].message) /\ Reply(down[Main][j])
         => toCp[i].message.n # down[Main][j].n

LEMMA MainIsChannel == Main \in Channels
BY DEF Main, Channels

(* What is taken off a sequence: the rest are the same elements, moved by    *)
(* one.                                                                      *)
LEMMA TailElements ==
  ASSUME NEW S, NEW q \in Seq(S), q # <<>>
  PROVE  /\ 1 \in DOMAIN q /\ Head(q) = q[1]
         /\ \A i \in DOMAIN Tail(q) :
              i \in Nat \ {0} /\ i + 1 \in DOMAIN q /\ Tail(q)[i] = q[i + 1]
<1>1. Tail(q) \in Seq(S) /\ Len(Tail(q)) = Len(q) - 1 /\ Len(q) \in Nat \ {0}
  BY HeadTailProperties, EmptySeq, LenProperties
<1>2. DOMAIN q = 1..Len(q) /\ DOMAIN Tail(q) = 1..(Len(q) - 1)
  BY <1>1, LenProperties
<1>3. \A i \in 1..(Len(q) - 1) : Tail(q)[i] = q[i + 1]
  BY HeadTailProperties, <1>1
<1> QED
  BY <1>1, <1>2, <1>3, HeadTailProperties

LEMMA AppendElements ==
  ASSUME NEW S, NEW q \in Seq(S), NEW e \in S
  PROVE  \A i \in DOMAIN Append(q, e) :
           \/ i \in DOMAIN q /\ Append(q, e)[i] = q[i]
           \/ i = Len(q) + 1 /\ i \notin DOMAIN q /\ Append(q, e)[i] = e
<1>1. /\ Append(q, e) \in Seq(S) /\ Len(Append(q, e)) = Len(q) + 1
      /\ \A i \in 1..Len(q) : Append(q, e)[i] = q[i]
      /\ Append(q, e)[Len(q) + 1] = e
  BY AppendProperties
<1>2. /\ DOMAIN q = 1..Len(q) /\ Len(q) \in Nat
      /\ DOMAIN Append(q, e) = 1..(Len(q) + 1)
  BY <1>1, LenProperties
<1> QED
  BY <1>1, <1>2

(* A step that leaves down and toCp alone, and forgets no answer.           *)
LEMMA Undisturbed ==
  ASSUME RepliesInv, UNCHANGED <<toCp, answered>>, down'[Main] = down[Main]
  PROVE  RepliesInv'
BY DEF RepliesInv, Reply

LEMMA ReceivedReplies ==
  ASSUME TypeInv, RepliesInv, NEW c \in Channels,
         DropReply(c) \/ FailOnError(c) \/ Backward(c)
  PROVE  RepliesInv'
<1> DEFINE m == Head(down[c])
<1>1. /\ down[c] # <<>> /\ down' = [down EXCEPT ![c] = Tail(down[c])]
      /\ UNCHANGED answered
  BY DEF DropReply, FailOnError, Backward, Received, serverVars
<1>2. \A d \in Channels : d # c => down'[d] = down[d]
  BY <1>1 DEF TypeInv
<1>3. down'[c] = Tail(down[c])
  BY <1>1 DEF TypeInv
<1>4. /\ 1 \in DOMAIN down[c] /\ m = down[c][1]
      /\ \A i \in DOMAIN down'[c] :
           i \in Nat \ {0} /\ i + 1 \in DOMAIN down[c] /\ down'[c][i] = down[c][i + 1]
  BY <1>1, <1>3, TailElements DEF TypeInv
<1>5. CASE UNCHANGED toCp
  <2>1. CASE c = Main
    BY <1>1, <1>4, <1>5, <2>1 DEF RepliesInv, Reply
  <2>2. CASE c # Main
    BY <1>1, <1>2, <1>5, <2>2, Undisturbed, MainIsChannel
  <2> QED
    BY <2>1, <2>2
<1>6. CASE /\ Backward(c)
           /\ toCp' = Append(toCp, [by |-> c, message |-> Prefixed(c, m)])
  <2> DEFINE r == [by |-> c, message |-> Prefixed(c, m)]
  <2>1. m \in Downward
    BY <1>1, Taken DEF TypeInv
  <2>2. /\ Prefixed(c, m) \in MessageType
        /\ Prefixed(c, m).type = m.type /\ Prefixed(c, m).n = m.n
    BY <2>1, FilteredDown
  <2>3. r \in ToCp /\ r.by = c /\ r.message.type = m.type /\ r.message.n = m.n
    BY <2>2 DEF ToCp
  <2>4. Reply(m) => c = Main
    BY <1>6 DEF Backward, Reply, MayReply
  <2> HIDE DEF r
  <2>5. \A i \in DOMAIN toCp' :
          \/ i \in DOMAIN toCp /\ toCp'[i] = toCp[i]
          \/ i = Len(toCp) + 1 /\ i \notin DOMAIN toCp /\ toCp'[i] = r
    <3>1. toCp' = Append(toCp, r)
      BY <1>6 DEF r
    <3> QED
      BY <2>3, <3>1, AppendElements DEF TypeInv
  <2> HIDE DEF m
  <2>6. CASE c = Main
    BY <1>1, <1>4, <2>3, <2>5, <2>6 DEF RepliesInv, Reply
  <2>7. CASE c # Main
    <3>1. ~Reply(m) /\ down'[Main] = down[Main]
      BY <1>2, <2>4, <2>7, MainIsChannel
    <3>2. ~Reply(r.message)
      BY <2>3, <3>1 DEF Reply
    <3>3. \A i \in DOMAIN toCp' : Reply(toCp'[i].message) =>
            i \in DOMAIN toCp /\ toCp'[i] = toCp[i]
      BY <2>5, <3>2
    <3>4. answered' = answered
      BY <1>1
    <3> QED
      BY <3>1, <3>3, <3>4 DEF RepliesInv
  <2> QED
    BY <2>6, <2>7
<1> QED
  BY <1>5, <1>6 DEF DropReply, FailOnError, Backward

LEMMA ServerReplies ==
  ASSUME TypeInv, RepliesInv, NEW c \in Channels, ServerCalls(c) \/ ServerAnswers(c)
  PROVE  RepliesInv'
<1>1. PICK m \in Downward :
        /\ down' = [down EXCEPT ![c] = Append(down[c], m)]
        /\ UNCHANGED toCp
        /\ \/ m.type = "call" /\ UNCHANGED answered
           \/ /\ m.type # "call" /\ m.n \notin answered[c]
              /\ answered' = [answered EXCEPT ![c] = answered[c] \union {m.n}]
  BY ServerSays DEF cpVars
<1>2. CASE c # Main
  <2>1. down'[Main] = down[Main] /\ answered'[Main] = answered[Main]
    BY <1>1, <1>2, MainIsChannel DEF TypeInv
  <2>2. toCp' = toCp
    BY <1>1
  <2> QED
    BY <2>1, <2>2 DEF RepliesInv
<1>3. CASE c = Main
  <2>1. down'[Main] = Append(down[Main], m)
    BY <1>1, <1>3, MainIsChannel DEF TypeInv
  <2>2. \A i \in DOMAIN down'[Main] :
          \/ i \in DOMAIN down[Main] /\ down'[Main][i] = down[Main][i]
          \/ i = Len(down[Main]) + 1 /\ i \notin DOMAIN down[Main] /\ down'[Main][i] = m
    BY <2>1, AppendElements, MainIsChannel DEF TypeInv
  <2>3. CASE m.type = "call" /\ UNCHANGED answered
    BY <1>1, <2>2, <2>3 DEF RepliesInv, Reply
  <2>4. CASE /\ m.type # "call" /\ m.n \notin answered[c]
             /\ answered' = [answered EXCEPT ![c] = answered[c] \union {m.n}]
    <3>1. answered'[Main] = answered[Main] \union {m.n} /\ m.n \notin answered[Main]
      BY <1>3, <2>4, MainIsChannel DEF TypeInv
    <3> QED
      BY <1>1, <2>2, <3>1 DEF RepliesInv, Reply
  <2> QED
    BY <1>1, <2>3, <2>4
<1> QED
  BY <1>2, <1>3

LEMMA RepliesStep ==
  ASSUME TypeInv, RepliesInv, [Next]_vars
  PROVE  RepliesInv'
<1>1. CASE UNCHANGED <<toCp, answered, down>>
  BY <1>1, Undisturbed
<1>2. ASSUME NEW c \in Channels,
             DropReply(c) \/ FailOnError(c) \/ Backward(c)
               \/ ServerCalls(c) \/ ServerAnswers(c)
      PROVE  RepliesInv'
  BY <1>2, ReceivedReplies, ServerReplies
<1>3. ASSUME NEW c \in Channels,
             \/ Connect(c) \/ ConnectFails(c) \/ ServerCloses(c) \/ Forward(c)
             \/ CpClosed \/ CpCloses \/ ReceiveFromCp \/ Register
      PROVE  UNCHANGED <<toCp, answered, down>>
  BY <1>3 DEF Connect, ConnectFails, ServerCloses, Forward, CpClosed, CpCloses,
              ReceiveFromCp, Register, cpVars, serverVars
<1>4. CASE CpCalls \/ CpAnswers
  BY <1>1, <1>4 DEF CpCalls, CpAnswers, Say, serverVars
<1>5. CASE UNCHANGED vars
  BY <1>1, <1>5 DEF vars, cpVars, serverVars
<1> QED
  BY <1>1, <1>2, <1>3, <1>4, <1>5, MainIsChannel DEF Next, ChannelStep, Outside

(* The charge point gets at most one answer to each of its requests, and      *)
(* that from the main server.                                                 *)
THEOREM OneAnswer == Spec => []AnsweredOnce
<1>1. Init => RepliesInv
  BY MainIsChannel DEF Init, RepliesInv
<1>2. TypeInv /\ RepliesInv /\ [Next]_vars => RepliesInv'
  BY RepliesStep
<1>3. RepliesInv => AnsweredOnce
  BY DEF RepliesInv, AnsweredOnce, Reply
<1> QED
  BY <1>1, <1>2, <1>3, TypesHold, PTL DEF Spec

-----------------------------------------------------------------------------
(* Answers are told apart by the prefix.                                    *)

\* A message of the charge point: an answer has the prefix if and only if it
\* is meant for this repository's server.
Relayed ==
  {m \in Upward : m.type # "call" => /\ m.for \in Channels
                                     /\ (m.prefixed = TRUE) <=> (m.for = "PSN")}
\* A message to the charge point: so has a request.
Addressed ==
  {r \in ToCp : r.message.type = "call" => (r.message.prefixed = TRUE) <=> (r.by = "PSN")}

PrefixInv ==
  /\ inbox \in Seq(Relayed) /\ sent \in Seq(Relayed)
  /\ queue \in [Channels -> Seq(Relayed)]
  /\ toCp \in Seq(Addressed)

LEMMA RelayedMessages ==
  ASSUME NEW n \in Nat
  PROVE  /\ \A s \in Connectors \union {0} : n \in 1..MaxCalls =>
              [Message("call", n) EXCEPT !.start = s] \in Relayed
         /\ \A type \in {"result", "error"}, p \in BOOLEAN, c \in Channels :
              (p = TRUE) <=> (c = "PSN") =>
                [Message(type, n) EXCEPT !.prefixed = p, !.for = c] \in Relayed
<1>1. ASSUME NEW s \in Connectors \union {0}, n \in 1..MaxCalls
      PROVE  [Message("call", n) EXCEPT !.start = s] \in Relayed
  <2>1. [Message("call", n) EXCEPT !.start = s] \in Upward
    BY <1>1, UpwardMessages
  <2>2. [Message("call", n) EXCEPT !.start = s].type = "call"
    BY DEF Message
  <2> QED
    BY <2>1, <2>2 DEF Relayed
<1>2. ASSUME NEW type \in {"result", "error"}, NEW p \in BOOLEAN, NEW c \in Channels,
             (p = TRUE) <=> (c = "PSN")
      PROVE  [Message(type, n) EXCEPT !.prefixed = p, !.for = c] \in Relayed
  <2> DEFINE m == [Message(type, n) EXCEPT !.prefixed = p, !.for = c]
  <2>1. m \in Upward
    BY UpwardMessages
  <2>2. m.for = c /\ m.prefixed = p
    BY DEF Message
  <2> HIDE DEF m
  <2>3. m \in Relayed
    BY <1>2, <2>1, <2>2 DEF Relayed
  <2> QED
    BY <2>3 DEF m
<1> QED
  BY <1>1, <1>2

LEMMA AddressedMessages ==
  ASSUME NEW c \in Channels, NEW m \in Downward
  PROVE  [by |-> c, message |-> Prefixed(c, m)] \in Addressed
<1> DEFINE r == [by |-> c, message |-> Prefixed(c, m)]
<1>1. Prefixed(c, m) \in MessageType /\ Prefixed(c, m).type = m.type
  BY FilteredDown
<1>2. m.type = "call" => (Prefixed(c, m).prefixed = TRUE) <=> (c = "PSN")
  BY DEF Downward, MessageType, Prefixed
<1>3. r \in ToCp /\ r.by = c /\ r.message = Prefixed(c, m)
  BY <1>1 DEF ToCp
<1> HIDE DEF r
<1>4. r \in Addressed
  BY <1>1, <1>2, <1>3 DEF Addressed
<1> QED
  BY <1>4 DEF r

LEMMA SayPrefix ==
  ASSUME PrefixInv, NEW m \in Relayed, Say(m)
  PROVE  PrefixInv'
<1>1. Append(inbox, m) \in Seq(Relayed) /\ Append(sent, m) \in Seq(Relayed)
  BY Appended DEF PrefixInv
<1> QED
  BY <1>1 DEF PrefixInv, Say

LEMMA CpPrefix ==
  ASSUME PrefixInv, CpCalls \/ CpAnswers
  PROVE  PrefixInv' /\ \E m \in Relayed : Say(m)
<1>1. ASSUME CpCalls
      PROVE  \E m \in Relayed : Say(m)
  <2>1. PICK n \in 1..MaxCalls, s \in Connectors \union {0} :
          Say([Message("call", n) EXCEPT !.start = s])
    BY <1>1 DEF CpCalls
  <2>2. n \in Nat
    BY ProxyAssumption
  <2>3. [Message("call", n) EXCEPT !.start = s] \in Relayed
    BY <2>2, RelayedMessages
  <2> QED
    BY <2>1, <2>3
<1>2. ASSUME CpAnswers
      PROVE  \E m \in Relayed : Say(m)
  <2>1. PICK i \in DOMAIN toCp, type \in {"result", "error"} :
          /\ toCp[i].message.type = "call"
          /\ Say([Message(type, toCp[i].message.n) EXCEPT
                    !.prefixed = toCp[i].message.prefixed, !.for = toCp[i].by])
    BY <1>2 DEF CpAnswers
  <2>2. toCp[i] \in Addressed
    BY LenProperties, ElementOfSeq DEF PrefixInv
  <2>3. /\ toCp[i].message.n \in Nat /\ toCp[i].message.prefixed \in BOOLEAN
        /\ toCp[i].by \in Channels
        /\ (toCp[i].message.prefixed = TRUE) <=> (toCp[i].by = "PSN")
    BY <2>1, <2>2 DEF Addressed, ToCp, MessageType
  <2>4. [Message(type, toCp[i].message.n) EXCEPT
           !.prefixed = toCp[i].message.prefixed, !.for = toCp[i].by] \in Relayed
    BY <2>3, RelayedMessages
  <2> QED
    BY <2>1, <2>4
<1>3. \E m \in Relayed : Say(m)
  BY <1>1, <1>2
<1> QED
  BY <1>3, SayPrefix

LEMMA PrefixStep ==
  ASSUME TypeInv, PrefixInv, [Next]_vars
  PROVE  PrefixInv'
<1>1. CASE UNCHANGED <<inbox, sent, queue, toCp>>
  BY <1>1 DEF PrefixInv
<1>2. CASE ReceiveFromCp
  <2>1. Head(inbox) \in Relayed /\ Tail(inbox) \in Seq(Relayed)
    BY <1>2, Taken DEF PrefixInv, ReceiveFromCp
  <2>2. \A c \in Channels : Append(queue[c], Head(inbox)) \in Seq(Relayed)
    BY <2>1, Appended DEF PrefixInv
  <2> QED
    BY <1>2, <2>1, <2>2 DEF PrefixInv, ReceiveFromCp, cpVars
<1>3. ASSUME NEW c \in Channels, Forward(c)
      PROVE  PrefixInv'
  <2>1. Tail(queue[c]) \in Seq(Relayed)
    BY <1>3, Taken DEF PrefixInv, Forward
  <2>2. queue' = [queue EXCEPT ![c] = Tail(queue[c])] /\ UNCHANGED <<inbox, cpVars>>
    BY <1>3 DEF Forward
  <2> QED
    BY <2>1, <2>2 DEF PrefixInv, cpVars
<1>4. ASSUME NEW c \in Channels, Backward(c)
      PROVE  PrefixInv'
  <2> DEFINE m == Head(down[c])
             r == [by |-> c, message |-> Prefixed(c, m)]
  <2>1. m \in Downward
    BY <1>4, Taken DEF TypeInv, Backward, Received
  <2>2. r \in Addressed
    BY <2>1, AddressedMessages
  <2>3. UNCHANGED <<inbox, sent, queue>> /\ (toCp' = Append(toCp, r) \/ toCp' = toCp)
    BY <1>4 DEF Backward, Received
  <2> HIDE DEF r
  <2>4. Append(toCp, r) \in Seq(Addressed)
    BY <2>2, Appended DEF PrefixInv
  <2> QED
    BY <2>3, <2>4 DEF PrefixInv
<1>5. ASSUME NEW c \in Channels,
             \/ Connect(c) \/ ConnectFails(c) \/ ServerCloses(c) \/ DropReply(c)
             \/ FailOnError(c) \/ ServerCalls(c) \/ ServerAnswers(c)
      PROVE  UNCHANGED <<inbox, sent, queue, toCp>>
  BY <1>5 DEF Connect, ConnectFails, ServerCloses, DropReply, FailOnError, Received,
              ServerCalls, ServerAnswers, Tell, cpVars
<1>6. CASE CpClosed \/ CpCloses \/ Register \/ UNCHANGED vars
  BY <1>1, <1>6 DEF CpClosed, CpCloses, Register, vars, cpVars
<1> QED
  BY <1>1, <1>2, <1>3, <1>4, <1>5, <1>6, CpPrefix DEF Next, ChannelStep, Outside

-----------------------------------------------------------------------------
(* What each server sees.                                                   *)

\* Share(c, _) as a function.
ShareOf(c) == [m \in Relayed |-> Share(c, m)]

LEMMA Shares ==
  ASSUME NEW c \in Channels
  PROVE  ShareOf(c) \in [Relayed -> Seq(MessageType)]
<1>1. ASSUME NEW m \in Relayed
      PROVE  Share(c, m) \in Seq(MessageType)
  <2>1. [m EXCEPT !.prefixed = FALSE] \in MessageType
    BY DEF Relayed, Upward, MessageType
  <2> QED
    BY <2>1 DEF Share
<1> QED
  BY <1>1 DEF ShareOf

\* The view of a sequence that grows or loses its head.
LEMMA Views ==
  ASSUME NEW c \in Channels
  PROVE  /\ ViewOf(c, <<>>) = <<>>
         /\ \A s \in Seq(Relayed) : ViewOf(c, s) \in Seq(MessageType)
         /\ \A s \in Seq(Relayed), m \in Relayed :
              ViewOf(c, Append(s, m)) = ViewOf(c, s) \o Share(c, m)
         /\ \A s \in Seq(Relayed) : s # <<>> =>
              ViewOf(c, s) = Share(c, Head(s)) \o ViewOf(c, Tail(s))
<1>1. \A s \in Seq(Relayed) : ViewOf(c, s) = FlatMap(ShareOf(c), s)
  <2>1. SUFFICES ASSUME NEW s \in Seq(Relayed)
                 PROVE  ViewOf(c, s) = FlatMap(ShareOf(c), s)
    OBVIOUS
  <2>2. \A i \in DOMAIN s : s[i] \in Relayed
    BY LenProperties, ElementOfSeq
  <2>3. [i \in DOMAIN s |-> Share(c, s[i])] = [i \in DOMAIN s |-> ShareOf(c)[s[i]]]
    BY <2>2 DEF ShareOf
  <2> QED
    BY <2>3 DEF ViewOf, FlatMap
<1>2. ViewOf(c, <<>>) = <<>>
  <2>1. <<>> \in Seq(Relayed)
    BY EmptySeq
  <2> QED
    BY <1>1, <2>1, FlatMapEmpty
<1>3. \A s \in Seq(Relayed) : ViewOf(c, s) \in Seq(MessageType)
  BY <1>1, Shares, FlatMapType
<1>4. ASSUME NEW s \in Seq(Relayed), NEW m \in Relayed
      PROVE  ViewOf(c, Append(s, m)) = ViewOf(c, s) \o Share(c, m)
  <2>1. Append(s, m) \in Seq(Relayed) /\ ShareOf(c)[m] = Share(c, m)
    BY Appended DEF ShareOf
  <2>2. FlatMap(ShareOf(c), Append(s, m)) = FlatMap(ShareOf(c), s) \o ShareOf(c)[m]
    BY Shares, FlatMapAppend
  <2> QED
    BY <1>1, <2>1, <2>2
<1>5. ASSUME NEW s \in Seq(Relayed), s # <<>>
      PROVE  ViewOf(c, s) = Share(c, Head(s)) \o ViewOf(c, Tail(s))
  <2>1. Head(s) \in Relayed /\ Tail(s) \in Seq(Relayed)
    BY <1>5, Taken
  <2>2. ShareOf(c)[Head(s)] = Share(c, Head(s))
    BY <2>1 DEF ShareOf
  <2>3. FlatMap(ShareOf(c), s) = ShareOf(c)[Head(s)] \o FlatMap(ShareOf(c), Tail(s))
    BY <1>5, Shares, FlatMapTail
  <2> QED
    BY <1>1, <2>1, <2>2, <2>3
<1> QED
  BY <1>2, <1>3, <1>4, <1>5

\* What a channel forwards is the server's share.
LEMMA ForwardedShare ==
  ASSUME NEW c \in Channels, NEW m \in Relayed
  PROVE  Share(c, m) = IF Takes(c, m) THEN <<Unprefixed(c, m)>> ELSE <<>>
<1>1. m \in MessageType /\ (m.type = "call" => m.prefixed = FALSE)
  BY DEF Relayed, Upward
<1>2. CASE m.type = "call"
  <2>1. [m EXCEPT !.prefixed = FALSE] = m
    BY <1>1, <1>2 DEF MessageType
  <2> QED
    BY <1>2, <2>1 DEF Share, Takes, Unprefixed
<1>3. CASE m.type # "call"
  <2>1. Takes(c, m) <=> m.for = c
    BY <1>1, <1>3 DEF Takes, Relayed, MessageType, Channels
  <2> QED
    BY <1>3, <2>1 DEF Share, Unprefixed
<1> QED
  BY <1>2, <1>3

\* What one server has got, is queued for it and has not been received yet.
SeesAll(c) ==
  got[c] \o ViewOf(c, queue[c]) \o ViewOf(c, inbox) = ViewOf(c, sent)

LEMMA ViewTypes ==
  ASSUME TypeInv, PrefixInv, NEW c \in Channels
  PROVE  /\ got[c] \in Seq(MessageType)
         /\ ViewOf(c, queue[c]) \in Seq(MessageType)
         /\ ViewOf(c, inbox) \in Seq(MessageType)
         /\ ViewOf(c, sent) \in Seq(MessageType)
<1>1. got[c] \in Seq(MessageType)
  <2>1. Delivered \subseteq MessageType
    BY DEF Delivered, Upward
  <2> QED
    BY <2>1, SeqMonotonic DEF TypeInv
<1> QED
  BY <1>1, Views DEF PrefixInv

LEMMA Associates ==
  ASSUME NEW S
  PROVE  \A a, b, d \in Seq(S) : (a \o b) \o d = a \o (b \o d)
BY ConcatAssociative

LEMMA MessagesAssociate ==
  \A a, b, d \in Seq(MessageType) : (a \o b) \o d = a \o (b \o d)
BY Associates

LEMMA ReceiveView ==
  ASSUME TypeInv, PrefixInv, NEW c \in Channels, SeesAll(c), ReceiveFromCp
  PROVE  SeesAll(c)'
<1> DEFINE h == Head(inbox)
           g == got[c]
           q == ViewOf(c, queue[c])
           t == ViewOf(c, Tail(inbox))
           s == Share(c, h)
<1>1. h \in Relayed /\ Tail(inbox) \in Seq(Relayed) /\ queue[c] \in Seq(Relayed)
  BY Taken DEF PrefixInv, ReceiveFromCp
<1>2. /\ queue'[c] = Append(queue[c], h) /\ inbox' = Tail(inbox)
      /\ got' = got /\ sent' = sent
  BY DEF ReceiveFromCp, cpVars, serverVars
<1>3. /\ ViewOf(c, queue'[c]) = q \o s /\ ViewOf(c, inbox) = s \o t
  BY <1>1, <1>2, Views DEF PrefixInv, ReceiveFromCp
<1>4. g \in Seq(MessageType) /\ q \in Seq(MessageType) /\ t \in Seq(MessageType)
      /\ s \in Seq(MessageType)
  BY <1>1, ViewTypes, Views, Shares DEF ShareOf
<1> HIDE DEF h, g, q, t, s
<1>5. (g \o (q \o s)) \o t = (g \o q) \o (s \o t)
  <2>1. g \o (q \o s) = (g \o q) \o s
    BY <1>4, MessagesAssociate, ZenonT(60)
  <2>2. g \o q \in Seq(MessageType)
    BY <1>4, ConcatProperties
  <2>3. ((g \o q) \o s) \o t = (g \o q) \o (s \o t)
    BY <1>4, <2>2, MessagesAssociate, ZenonT(60)
  <2> QED
    BY <2>1, <2>3
<1>6. got'[c] \o ViewOf(c, queue'[c]) \o ViewOf(c, inbox') = ViewOf(c, sent')
  BY <1>2, <1>3, <1>5, Zenon DEF SeesAll, g, q, t
<1> QED
  BY <1>6 DEF SeesAll, ViewOf, Share

LEMMA ForwardView ==
  ASSUME TypeInv, PrefixInv, NEW c \in Channels, NEW d \in Channels,
         SeesAll(c), Forward(d), session' = "open"
  PROVE  SeesAll(c)'
<1> DEFINE m == Head(queue[d])
           g == got[c]
           r == ViewOf(c, Tail(queue[c]))
           i == ViewOf(c, inbox)
           s == Share(c, m)
<1>1. /\ queue' = [queue EXCEPT ![d] = Tail(queue[d])]
      /\ inbox' = inbox /\ sent' = sent /\ queue[d] # <<>>
      /\ \/ Takes(d, m) /\ got' = [got EXCEPT ![d] = Append(got[d], Unprefixed(d, m))]
         \/ ~Takes(d, m) /\ got' = got
  BY DEF Forward, EndSession, cpVars
<1>2. CASE c # d
  <2>1. queue'[c] = queue[c] /\ got'[c] = got[c]
    BY <1>1, <1>2 DEF TypeInv
  <2>2. got'[c] \o ViewOf(c, queue'[c]) \o ViewOf(c, inbox') = ViewOf(c, sent')
    BY <1>1, <2>1 DEF SeesAll
  <2> QED
    BY <2>2 DEF SeesAll, ViewOf, Share
<1>3. CASE c = d
  <2>1. m \in Relayed /\ Tail(queue[c]) \in Seq(Relayed) /\ queue[c] \in Seq(Relayed)
    BY <1>1, <1>3, Taken DEF PrefixInv
  <2>2. queue'[c] = Tail(queue[c])
    BY <1>1, <1>3 DEF TypeInv
  <2>3. ViewOf(c, queue[c]) = s \o r
    BY <1>1, <1>3, <2>1, Views
  <2>4. /\ g \in Seq(MessageType) /\ r \in Seq(MessageType)
        /\ i \in Seq(MessageType) /\ s \in Seq(MessageType)
    BY <2>1, ViewTypes, Views, Shares DEF ShareOf
  <2>5. got'[c] = g \o s
    <3>1. CASE Takes(c, m)
      <4>1. got'[c] = Append(g, Unprefixed(c, m))
        BY <1>1, <1>3, <3>1 DEF TypeInv
      <4>2. s = <<Unprefixed(c, m)>>
        BY <2>1, <3>1, ForwardedShare
      <4>3. Unprefixed(c, m) \in MessageType
        BY <2>1, FilteredUp DEF Relayed, Delivered, Upward
      <4> HIDE DEF g, s
      <4> QED
        BY <2>4, <4>1, <4>2, <4>3, AppendIsConcat
    <3>2. CASE ~Takes(c, m)
      <4>1. got'[c] = g /\ s = <<>>
        BY <1>1, <1>3, <2>1, <3>2, ForwardedShare
      <4> HIDE DEF g, s
      <4> QED
        BY <2>4, <4>1, ConcatEmptySeq
    <3> QED
      BY <3>1, <3>2
  <2> HIDE DEF m, g, r, i, s
  <2>6. (g \o s) \o r = g \o (s \o r)
    BY <2>4, MessagesAssociate, ZenonT(60)
  <2>7. got'[c] \o ViewOf(c, queue'[c]) \o ViewOf(c, inbox') = ViewOf(c, sent')
    BY <1>1, <2>2, <2>3, <2>5, <2>6, Zenon DEF SeesAll, g, r
  <2> QED
    BY <2>7 DEF SeesAll, ViewOf, Share
<1> QED
  BY <1>2, <1>3

LEMMA SayView ==
  ASSUME TypeInv, PrefixInv, NEW c \in Channels, SeesAll(c), NEW m \in Relayed, Say(m)
  PROVE  SeesAll(c)'
<1> DEFINE p == got[c] \o ViewOf(c, queue[c])
           i == ViewOf(c, inbox)
           s == Share(c, m)
<1>1. /\ sent' = Append(sent, m) /\ inbox' = Append(inbox, m)
      /\ queue' = queue /\ got' = got
  BY DEF Say, serverVars
<1>2. ViewOf(c, inbox') = i \o s /\ ViewOf(c, sent') = ViewOf(c, sent) \o s
  BY <1>1, Views DEF PrefixInv
<1>3. p \in Seq(MessageType) /\ i \in Seq(MessageType) /\ s \in Seq(MessageType)
  BY ViewTypes, Shares, ConcatProperties DEF ShareOf
<1> HIDE DEF p, i, s
<1>4. p \o (i \o s) = (p \o i) \o s
  BY <1>3, MessagesAssociate, ZenonT(60)
<1>5. got'[c] \o ViewOf(c, queue'[c]) \o ViewOf(c, inbox') = ViewOf(c, sent')
  BY <1>1, <1>2, <1>4, Zenon DEF SeesAll, p, i
<1> QED
  BY <1>5 DEF SeesAll, ViewOf, Share

LEMMA ViewStep ==
  ASSUME TypeInv, PrefixInv, ServerView, [Next]_vars
  PROVE  ServerView'
<1> SUFFICES ASSUME session' = "open", NEW c \in Channels
             PROVE  SeesAll(c)'
  BY DEF ServerView, SeesAll
<1>1. session = "open"
  BY DEF Next, ChannelStep, Outside, ReceiveFromCp, CpClosed, Forward, DropReply,
         FailOnError, Backward, Received, Connect, ConnectFails, ServerCloses,
         ServerCalls, ServerAnswers, Tell, CpCalls, CpAnswers, Say, CpCloses, Open,
         Register, EndSession, vars, netVars
<1>2. SeesAll(c)
  BY <1>1 DEF ServerView, SeesAll
<1>3. CASE UNCHANGED <<got, queue, inbox, sent>>
  BY <1>2, <1>3 DEF SeesAll, ViewOf, Share
<1>4. CASE ReceiveFromCp
  BY <1>2, <1>4, ReceiveView
<1>5. ASSUME NEW d \in Channels, Forward(d)
      PROVE  SeesAll(c)'
  BY <1>2, <1>5, ForwardView
<1>6. CASE CpCalls \/ CpAnswers
  BY <1>2, <1>6, CpPrefix, SayView
<1>7. ASSUME NEW d \in Channels,
             \/ Connect(d) \/ ConnectFails(d) \/ ServerCloses(d) \/ DropReply(d)
             \/ FailOnError(d) \/ Backward(d) \/ ServerCalls(d) \/ ServerAnswers(d)
      PROVE  UNCHANGED <<got, queue, inbox, sent>>
  BY <1>7 DEF Connect, ConnectFails, ServerCloses, DropReply, FailOnError, Backward,
              Received, ServerCalls, ServerAnswers, Tell, cpVars, serverVars
<1>8. CASE CpClosed \/ CpCloses \/ Register \/ UNCHANGED vars
  BY <1>3, <1>8 DEF CpClosed, CpCloses, Register, vars, cpVars, serverVars
<1> QED
  BY <1>3, <1>4, <1>5, <1>6, <1>7, <1>8 DEF Next, ChannelStep, Outside

(* As long as the session lasts, what a server has got, what is queued for   *)
(* it and what is yet to be received are together what the charge point has  *)
(* sent that concerns it: in order, nothing lost, nothing twice, and no      *)
(* answer meant for the other server, although the ids of both servers'      *)
(* requests are alike.                                                       *)
THEOREM EachServerSeesItsOwn == Spec => []ServerView
<1>1. Init => PrefixInv
  BY EmptySeq DEF Init, PrefixInv
<1>2. Init => ServerView
  <2> SUFFICES ASSUME Init, NEW c \in Channels
               PROVE  SeesAll(c)
    BY DEF ServerView, SeesAll
  <2>1. got[c] = <<>> /\ queue[c] = <<>> /\ inbox = <<>> /\ sent = <<>>
    BY DEF Init
  <2> QED
    BY <2>1, Views, EmptySeq, ConcatEmptySeq DEF SeesAll
<1>3. TypeInv /\ PrefixInv /\ [Next]_vars => PrefixInv'
  BY PrefixStep
<1>4. TypeInv /\ PrefixInv /\ ServerView /\ [Next]_vars => ServerView'
  BY ViewStep
<1> QED
  BY <1>1, <1>2, <1>3, <1>4, TypesHold, PTL DEF Spec

-----------------------------------------------------------------------------
(* Transactions of a patient charge point.                                 *)

\* On each connector at most one StartTransaction is under way, and only once
\* this session's Connector is there; the one that is awaited has been noted.
PatienceInv ==
  /\ \A k \in Connectors : \A n, j \in 1..MaxCalls :
       UnderWay(k, n) /\ UnderWay(k, j) => n = j
  /\ \A k \in Connectors, n \in 1..MaxCalls :
       UnderWay(k, n) => connector[k].made = "now"
  /\ \A k \in Connectors, n \in 1..MaxCalls :
       Awaited(k, n) => connector[k].lastStart = n
  /\ \A c \in Channels : \A m \in Range(down[c]) :
       m.transaction # 0 => /\ m.type # "call" /\ m.n \in 1..MaxCalls
                            /\ m.start \in Connectors

LEMMA RangeOfTail ==
  ASSUME NEW S, NEW q \in Seq(S), q # <<>>
  PROVE  Head(q) \in Range(q) /\ Range(Tail(q)) \subseteq Range(q)
BY TailElements DEF Range

LEMMA RangeOfAppend ==
  ASSUME NEW S, NEW q \in Seq(S), NEW e \in S
  PROVE  Range(Append(q, e)) \subseteq Range(q) \union {e}
BY AppendElements DEF Range

\* The connectors that a message of the charge point may name.
LEMMA NamedConnectors ==
  ASSUME NEW m \in Upward, m.start # 0
  PROVE  m.start \in Connectors /\ m.n \in 1..MaxCalls
BY DEF Upward, MessageType

(* What a charge point says is on its way, and starts a transaction if it   *)
(* is a StartTransaction.                                                   *)
LEMMA SayComing ==
  ASSUME TypeInv, NEW m \in Upward, Say(m), NEW k \in Connectors, NEW n
  PROVE  /\ Awaited(k, n)' => Awaited(k, n)
         /\ Coming(k, n)' => Coming(k, n) \/ (m.start = k /\ m.n = n)
         /\ m.start = k => Starts(k)
<1>1. /\ sent' = Append(sent, m) /\ inbox' = Append(inbox, m)
      /\ UNCHANGED <<queue, got, down, answered>>
  BY DEF Say, serverVars
<1>2. Range(inbox') \subseteq Range(inbox) \union {m}
  BY <1>1, RangeOfAppend DEF TypeInv
<1>3. Len(sent) + 1 \in DOMAIN sent' \ DOMAIN sent /\ sent'[Len(sent) + 1] = m
  BY <1>1, LenProperties, AppendProperties DEF TypeInv
<1> QED
  BY <1>1, <1>2, <1>3 DEF Coming, Awaited, Starts

LEMMA ReceiveComing ==
  ASSUME TypeInv, ReceiveFromCp, NEW k \in Connectors, NEW n
  PROVE  (Coming(k, n)' => Coming(k, n)) /\ (Awaited(k, n)' => Awaited(k, n))
<1> DEFINE h == Head(inbox)
<1>1. /\ inbox # <<>> /\ inbox' = Tail(inbox)
      /\ queue' = [c \in Channels |-> Append(queue[c], h)]
      /\ UNCHANGED <<got, down, answered>>
  BY DEF ReceiveFromCp, serverVars
<1>2. h \in Range(inbox) /\ Range(inbox') \subseteq Range(inbox) /\ h \in Upward
  BY <1>1, RangeOfTail, Taken DEF TypeInv
<1> HIDE DEF h
<1>3. \A c \in Channels : Range(queue'[c]) \subseteq Range(queue[c]) \union {h}
  BY <1>1, <1>2, RangeOfAppend DEF TypeInv
<1> QED
  BY <1>1, <1>2, <1>3 DEF Coming, Awaited

LEMMA ForwardComing ==
  ASSUME TypeInv, NEW c \in Channels, Forward(c), NEW k \in Connectors, NEW n
  PROVE  /\ Coming(k, n)' => Coming(k, n)
         /\ Awaited(k, n)' => \/ Awaited(k, n)
                              \/ Head(queue[c]).start = k /\ Head(queue[c]).n = n
         /\ Head(queue[c]).start = k => Coming(k, Head(queue[c]).n)
<1> DEFINE m == Head(queue[c])
<1>1. /\ queue[c] # <<>> /\ queue' = [queue EXCEPT ![c] = Tail(queue[c])]
      /\ UNCHANGED <<inbox, down, answered>>
      /\ \/ got' = [got EXCEPT ![c] = Append(got[c], Unprefixed(c, m))]
         \/ UNCHANGED got
  BY DEF Forward
<1>2. /\ m \in Range(queue[c]) /\ m \in Upward
      /\ Range(Tail(queue[c])) \subseteq Range(queue[c])
  BY <1>1, RangeOfTail, Taken DEF TypeInv
<1> HIDE DEF m
<1>3. \A d \in Channels : Range(queue'[d]) \subseteq Range(queue[d])
  BY <1>1, <1>2 DEF TypeInv
<1>4. /\ Unprefixed(c, m) \in Delivered
      /\ Unprefixed(c, m).start = m.start /\ Unprefixed(c, m).n = m.n
  BY <1>2, FilteredUp DEF Unprefixed, Upward, MessageType
<1>5. Range(got'[Main]) \subseteq Range(got[Main]) \union {Unprefixed(c, m)}
  <2>1. Range(Append(got[c], Unprefixed(c, m))) \subseteq Range(got[c]) \union {Unprefixed(c, m)}
    BY <1>4, RangeOfAppend DEF TypeInv
  <2> QED
    BY <1>1, <2>1, MainIsChannel DEF TypeInv
<1>6. m.start = k => Coming(k, m.n)
  BY <1>2 DEF Coming
<1> QED
  BY <1>1, <1>3, <1>4, <1>5, <1>6 DEF Coming, Awaited, m

LEMMA DownComing ==
  ASSUME TypeInv, NEW c \in Channels, DropReply(c) \/ FailOnError(c) \/ Backward(c)
  PROVE  /\ \A k \in Connectors : \A n :
              (Coming(k, n)' => Coming(k, n)) /\ (Awaited(k, n)' => Awaited(k, n))
         /\ Head(down[c]) \in Range(down[c])
         /\ \A d \in Channels : Range(down'[d]) \subseteq Range(down[d])
<1>1. /\ down[c] # <<>> /\ down' = [down EXCEPT ![c] = Tail(down[c])]
      /\ UNCHANGED <<inbox, queue, got, answered>>
  BY DEF DropReply, FailOnError, Backward, Received, serverVars
<1>2. Head(down[c]) \in Range(down[c]) /\ Range(Tail(down[c])) \subseteq Range(down[c])
  BY <1>1, RangeOfTail DEF TypeInv
<1>3. \A d \in Channels : Range(down'[d]) \subseteq Range(down[d])
  BY <1>1, <1>2 DEF TypeInv
<1> QED
  BY <1>1, <1>2, <1>3, MainIsChannel DEF Coming, Awaited

(* What a server says adds nothing to what is under way: a transaction id is *)
(* only in the answer to a StartTransaction that was awaited.                *)
LEMMA ServerComing ==
  ASSUME TypeInv, PatienceInv, NEW c \in Channels, ServerCalls(c) \/ ServerAnswers(c)
  PROVE  /\ \A k \in Connectors : \A n :
              (Coming(k, n)' => Coming(k, n)) /\ (Awaited(k, n)' => Awaited(k, n))
         /\ \E j \in Connectors \union {0} : connector' = Named(j)
         /\ \A d \in Channels : \A e \in Range(down'[d]) :
              e.transaction # 0 => /\ e.type # "call" /\ e.n \in 1..MaxCalls
                                   /\ e.start \in Connectors
<1>1. PICK m \in Downward :
        /\ down' = [down EXCEPT ![c] = Append(down[c], m)]
        /\ UNCHANGED <<netVars, inbox, queue, got>>
        /\ \E j \in Connectors \union {0} : connector' = Named(j)
        /\ \/ m.transaction = 0 /\ UNCHANGED answered
           \/ /\ m.type # "call" /\ m.n \in 1..MaxCalls /\ m.n \notin answered[c]
              /\ answered' = [answered EXCEPT ![c] = answered[c] \union {m.n}]
              /\ m.transaction # 0 =>
                   /\ m.start \in Connectors
                   /\ \E g \in Range(got[c]) : g.start = m.start /\ g.n = m.n
  BY ServerSays
<1>2. \A d \in Channels : answered[d] \subseteq answered'[d]
  BY <1>1 DEF TypeInv
<1>3. Range(Append(down[c], m)) \subseteq Range(down[c]) \union {m}
  BY RangeOfAppend DEF TypeInv
<1>4. \A d \in Channels : \/ d = c /\ Range(down'[d]) \subseteq Range(down[d]) \union {m}
                          \/ Range(down'[d]) = Range(down[d])
  BY <1>1, <1>3 DEF TypeInv
<1>5. \A d \in Channels : \A e \in Range(down'[d]) :
        e.transaction # 0 => /\ e.type # "call" /\ e.n \in 1..MaxCalls
                             /\ e.start \in Connectors
  BY <1>1, <1>4 DEF PatienceInv
<1>6. \A k \in Connectors : \A n : Awaited(k, n)' => Awaited(k, n)
  BY <1>1, <1>2, <1>4, MainIsChannel DEF Awaited
<1>7. \A k \in Connectors : \A n : Coming(k, n)' => Coming(k, n)
  BY <1>1 DEF Coming
<1> QED
  BY <1>1, <1>5, <1>6, <1>7

(* What a step has to show that is not a StartTransaction.                   *)
LEMMA PatienceKept ==
  ASSUME PatienceInv,
         \A k \in Connectors, n \in 1..MaxCalls :
           /\ Coming(k, n)' => Coming(k, n)
           /\ Awaited(k, n)' => UnderWay(k, n) /\ connector'[k].lastStart = n,
         \A k \in Connectors : connector[k].made = "now" => connector'[k].made = "now",
         \A c \in Channels : \A m \in Range(down'[c]) :
           m.transaction # 0 => /\ m.type # "call" /\ m.n \in 1..MaxCalls
                                /\ m.start \in Connectors
  PROVE  PatienceInv'
<1>1. \A k \in Connectors, n \in 1..MaxCalls : UnderWay(k, n)' => UnderWay(k, n)
  BY DEF UnderWay
<1> QED
  BY <1>1 DEF PatienceInv

(* A Connector that is made in place of none or of an earlier session's is   *)
(* none that anything is under way for.                                     *)
LEMMA NamedKeeps ==
  ASSUME TypeInv, PatienceInv, NEW j \in Connectors \union {0}, connector' = Named(j),
         NEW k \in Connectors
  PROVE  /\ connector[k].made = "now" => connector'[k] = connector[k]
         /\ \A n \in 1..MaxCalls : Awaited(k, n) => connector'[k].lastStart = n
<1>1. connector[k].made = "now" => connector'[k] = connector[k]
  BY DEF Named, TypeInv
<1> QED
  BY <1>1 DEF PatienceInv, UnderWay

LEMMA PatientForward ==
  ASSUME TypeInv, PatienceInv, NEW c \in Channels, Forward(c)
  PROVE  PatienceInv'
<1> DEFINE m == Head(queue[c])
<1>1. queue[c] # <<>> /\ UNCHANGED down /\ connector' = Noted(m)
  BY DEF Forward
<1>2. m \in Upward
  BY <1>1, Taken DEF TypeInv
<1>3. \A k \in Connectors : \A n :
        /\ Coming(k, n)' => Coming(k, n)
        /\ Awaited(k, n)' => Awaited(k, n) \/ (m.start = k /\ m.n = n)
        /\ m.start = k => Coming(k, m.n)
  BY ForwardComing
<1> HIDE DEF m
<1>4. ASSUME NEW k \in Connectors
      PROVE  /\ connector[k].made = "now" => connector'[k].made = "now"
             /\ m.start # k => connector'[k] = connector[k]
             /\ m.start = k => /\ UnderWay(k, m.n) /\ m.n \in 1..MaxCalls
                               /\ connector'[k].lastStart = m.n
  <2>1. connector \in [Connectors -> ConnectorType]
    BY DEF TypeInv
  <2>2. CASE m.start # k
    BY <1>1, <2>1, <2>2 DEF Noted
  <2>3. CASE m.start = k
    <3>1. k # 0
      BY ProxyAssumption
    <3>2. m.n \in 1..MaxCalls /\ UnderWay(k, m.n)
      BY <1>2, <1>3, <2>3, <3>1, NamedConnectors DEF UnderWay
    <3>3. connector[k].made = "now"
      BY <3>2 DEF PatienceInv
    <3>4. connector' = [connector EXCEPT ![k].lastStart = m.n]
      BY <1>1, <2>3, <3>1, <3>3 DEF Noted
    <3>5. connector'[k].lastStart = m.n /\ connector'[k].made = "now"
      BY <2>1, <3>3, <3>4 DEF ConnectorType
    <3> QED
      BY <2>3, <3>2, <3>5
  <2> QED
    BY <2>2, <2>3
<1>5. \A k \in Connectors, n \in 1..MaxCalls : Awaited(k, n)' => UnderWay(k, n)
  BY <1>3, <1>4 DEF UnderWay
<1>6. \A k \in Connectors, n \in 1..MaxCalls :
        Awaited(k, n)' => connector'[k].lastStart = n
  BY <1>3, <1>4, <1>5 DEF PatienceInv
<1> QED
  BY <1>1, <1>3, <1>4, <1>5, <1>6, PatienceKept DEF PatienceInv

LEMMA PatientDown ==
  ASSUME TypeInv, PatienceInv, NEW c \in Channels,
         DropReply(c) \/ FailOnError(c) \/ Backward(c)
  PROVE  PatienceInv'
<1>1. /\ \A k \in Connectors : \A n :
           (Coming(k, n)' => Coming(k, n)) /\ (Awaited(k, n)' => Awaited(k, n))
      /\ \A d \in Channels : Range(down'[d]) \subseteq Range(down[d])
  BY DownComing
<1>2. connector \in [Connectors -> ConnectorType]
  BY DEF TypeInv
<1>3. \A k \in Connectors : /\ connector'[k].made = connector[k].made
                            /\ connector'[k].lastStart = connector[k].lastStart
  <2>1. connector' = Learned(Head(down[c])) \/ UNCHANGED connector
    BY DEF DropReply, FailOnError, Backward
  <2> QED
    BY <1>2, <2>1 DEF Learned, ConnectorType
<1> QED
  BY <1>1, <1>3, PatienceKept DEF PatienceInv, UnderWay

LEMMA PatientSay ==
  ASSUME TypeInv, PatienceInv, Patient, NEW m \in Upward, Say(m)
  PROVE  PatienceInv'
<1>1. UNCHANGED <<down, connector>>
  BY DEF Say
<1>2. \A k \in Connectors : \A n :
        /\ Awaited(k, n)' => Awaited(k, n)
        /\ Coming(k, n)' => Coming(k, n) \/ (m.start = k /\ m.n = n)
        /\ m.start = k => Starts(k)
  BY SayComing
<1>3. ASSUME NEW k \in Connectors, m.start # k, NEW n
      PROVE  (UnderWay(k, n)' => UnderWay(k, n)) /\ (Awaited(k, n)' => Awaited(k, n))
  BY <1>2, <1>3 DEF UnderWay
<1>4. ASSUME NEW k \in Connectors, m.start = k
      PROVE  /\ connector[k].made = "now"
             /\ \A n \in 1..MaxCalls : ~Awaited(k, n)' /\ (UnderWay(k, n)' => n = m.n)
  <2>1. connector[k].made = "now" /\ \A n \in 1..MaxCalls : ~UnderWay(k, n)
    BY <1>2, <1>4 DEF Patient
  <2> QED
    BY <1>2, <2>1 DEF UnderWay
<1> QED
  BY <1>1, <1>3, <1>4 DEF PatienceInv

LEMMA PatienceStep ==
  ASSUME TypeInv, PatienceInv, [Next /\ Patient]_vars
  PROVE  PatienceInv'
<1>1. ASSUME NEW c \in Channels, Forward(c) PROVE PatienceInv'
  BY <1>1, PatientForward
<1>2. ASSUME NEW c \in Channels, DropReply(c) \/ FailOnError(c) \/ Backward(c)
      PROVE  PatienceInv'
  BY <1>2, PatientDown
<1>3. ASSUME NEW c \in Channels, ServerCalls(c) \/ ServerAnswers(c)
      PROVE  PatienceInv'
  <2>1. PICK j \in Connectors \union {0} : connector' = Named(j)
    BY <1>3, ServerComing
  <2>2. /\ \A k \in Connectors : \A n :
             (Coming(k, n)' => Coming(k, n)) /\ (Awaited(k, n)' => Awaited(k, n))
        /\ \A d \in Channels : \A e \in Range(down'[d]) :
             e.transaction # 0 => /\ e.type # "call" /\ e.n \in 1..MaxCalls
                                  /\ e.start \in Connectors
    BY <1>3, ServerComing
  <2>3. \A k \in Connectors :
          /\ connector[k].made = "now" => connector'[k] = connector[k]
          /\ \A n \in 1..MaxCalls : Awaited(k, n) => connector'[k].lastStart = n
    BY <2>1, NamedKeeps
  <2> QED
    BY <2>2, <2>3, PatienceKept DEF UnderWay
<1>4. CASE CpCalls \/ CpAnswers
  <2>1. Patient
    BY <1>4 DEF Patient, Starts, vars, cpVars
  <2> QED
    BY <1>4, <2>1, CpSays, PatientSay
<1>5. CASE ReceiveFromCp
  <2>1. UNCHANGED <<down, connector>>
    BY <1>5 DEF ReceiveFromCp
  <2> QED
    BY <1>5, <2>1, ReceiveComing, PatienceKept DEF PatienceInv, UnderWay
<1>6. CASE Register
  <2>1. connector' = Named(1) /\ UNCHANGED <<inbox, queue, down, got, answered>>
    BY <1>6 DEF Register, serverVars
  <2>2. \A k \in Connectors : \A n :
          (Coming(k, n)' => Coming(k, n)) /\ (Awaited(k, n)' => Awaited(k, n))
    BY <2>1 DEF Coming, Awaited
  <2>3. \A k \in Connectors :
          /\ connector[k].made = "now" => connector'[k] = connector[k]
          /\ \A n \in 1..MaxCalls : Awaited(k, n) => connector'[k].lastStart = n
    BY <2>1, ProxyAssumption, NamedKeeps
  <2> QED
    BY <2>1, <2>2, <2>3, PatienceKept DEF PatienceInv, UnderWay
<1>7. ASSUME NEW c \in Channels,
             \/ Connect(c) \/ ConnectFails(c) \/ ServerCloses(c) \/ CpCloses \/ CpClosed
             \/ UNCHANGED vars
      PROVE  PatienceInv'
  <2>1. UNCHANGED <<inbox, queue, down, got, answered, connector>>
    BY <1>7 DEF Connect, ConnectFails, ServerCloses, CpCloses, CpClosed, vars, serverVars
  <2>2. \A k \in Connectors : \A n :
          (Coming(k, n)' => Coming(k, n)) /\ (Awaited(k, n)' => Awaited(k, n))
    BY <2>1 DEF Coming, Awaited
  <2> QED
    BY <2>1, <2>2, PatienceKept DEF PatienceInv, UnderWay
<1> QED
  BY <1>1, <1>2, <1>3, <1>4, <1>5, <1>6, <1>7, MainIsChannel DEF Next, ChannelStep, Outside

(* The transaction of an answer that is passed on is the one awaited.        *)
LEMMA PatientLearns ==
  ASSUME TypeInv, PatienceInv, [Next]_vars, NEW i \in DOMAIN toCp' \ DOMAIN toCp,
         toCp'[i].message.transaction # 0
  PROVE  connector'[toCp'[i].message.start].transaction = toCp'[i].message.transaction
<1>1. PICK c \in Channels : Backward(c)
  BY DEF Next, ChannelStep, Outside, ReceiveFromCp, CpClosed, Forward, DropReply,
         FailOnError, Connect, Register, ConnectFails, ServerCloses, ServerCalls,
         ServerAnswers, Tell, CpCalls, CpAnswers, Say, CpCloses, vars, cpVars
<1> DEFINE m == Head(down[c])
<1>2. /\ down[c] # <<>>
      /\ m.type = "call" \/ (m.type = "result" /\ c = Main)
      /\ connector' = IF m.type = "result" THEN Learned(m) ELSE connector
      /\ \/ toCp' = Append(toCp, [by |-> c, message |-> Prefixed(c, m)])
         \/ UNCHANGED toCp
  BY <1>1 DEF Backward, Received, MayReply
<1>3. m \in Downward /\ m \in Range(down[c])
  BY <1>2, Taken, RangeOfTail DEF TypeInv
<1> HIDE DEF m
<1>4. /\ Prefixed(c, m).transaction = m.transaction /\ Prefixed(c, m).start = m.start
      /\ Prefixed(c, m) \in MessageType
  BY <1>3, FilteredDown DEF Prefixed, Downward, MessageType
<1>5. toCp'[i].message = Prefixed(c, m)
  <2> DEFINE r == [by |-> c, message |-> Prefixed(c, m)]
  <2>1. r \in ToCp /\ r.message = Prefixed(c, m)
    BY <1>4 DEF ToCp
  <2> HIDE DEF r
  <2>2. toCp' = Append(toCp, r)
    BY <1>2 DEF r
  <2> QED
    BY <2>1, <2>2, AppendElements DEF TypeInv
<1>6. m.transaction # 0
  BY <1>4, <1>5
<1>7. m.type = "result" /\ c = Main /\ m.n \in 1..MaxCalls /\ m.start \in Connectors
  BY <1>2, <1>3, <1>6 DEF PatienceInv
<1>8. connector[m.start].lastStart = m.n
  BY <1>3, <1>6, <1>7 DEF PatienceInv, Awaited
<1>9. connector' = Learned(m) /\ connector[m.start] \in ConnectorType
  BY <1>2, <1>7 DEF TypeInv
<1>10. Learned(m)[m.start].transaction = m.transaction
  BY <1>6, <1>7, <1>8, <1>9 DEF Learned, ConnectorType
<1> QED
  BY <1>4, <1>5, <1>9, <1>10

(* A charge point that starts a transaction on a connector only once the     *)
(* server of this repository has made that Connector in this session, and    *)
(* one at a time on each, is passed no transaction id that its Connector     *)
(* does not take over, however its messages and those of the servers         *)
(* interleave, and whatever goes on at its other connectors.                 *)
THEOREM PatienceIsEnough == PatientSpec => TransactionLearned
<1>1. PatientSpec => Spec
  <2>1. [Next /\ Patient]_vars => [Next]_vars
    OBVIOUS
  <2> QED
    BY <2>1, PTL DEF PatientSpec, Spec
<1>2. Init => PatienceInv
  <2> SUFFICES ASSUME Init PROVE PatienceInv
    OBVIOUS
  <2>1. /\ inbox = <<>>
        /\ \A c \in Channels : queue[c] = <<>> /\ down[c] = <<>> /\ got[c] = <<>>
    BY DEF Init
  <2>2. Range(<<>>) = {}
    BY DEF Range
  <2> QED
    BY <2>1, <2>2, MainIsChannel DEF PatienceInv, UnderWay, Coming, Awaited
<1>3. TypeInv /\ PatienceInv /\ [Next /\ Patient]_vars => PatienceInv'
  BY PatienceStep
<1>4. TypeInv /\ PatienceInv /\ [Next /\ Patient]_vars =>
        [ \A i \in DOMAIN toCp' \ DOMAIN toCp :
            toCp'[i].message.transaction # 0
              => connector'[toCp'[i].message.start].transaction
                   = toCp'[i].message.transaction ]_vars
  BY PatientLearns
<1> QED
  BY <1>1, <1>2, <1>3, <1>4, TypesHold, PTL DEF PatientSpec, TransactionLearned
=============================================================================
