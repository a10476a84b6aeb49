--------------------------- MODULE ClipboardProofs ---------------------------
(* Proofs about the shared clipboard, for any number of commands, copies and  *)
(* pastes, crossing in any order.                                             *)
EXTENDS ClipboardProperties, TLAPS

------------------------------------------------------------------------------
(* What is under way on a channel. *)

\* What taking the first message leaves.
LEMMA TailFacts ==
  ASSUME NEW S, NEW q \in Seq(S), q # <<>>
  PROVE  /\ Tail(q) \in Seq(S) /\ Len(Tail(q)) = Len(q) - 1
         /\ DOMAIN q = 1..Len(q) /\ DOMAIN Tail(q) = 1..Len(q) - 1
         /\ \A i \in DOMAIN Tail(q) : Tail(q)[i] = q[i + 1]
         /\ Head(q) = q[1] /\ Head(q) \in S /\ Len(q) \in Nat \ {0}
         /\ 1 \in DOMAIN q
OBVIOUS

\* What sending a message adds.
LEMMA AppendFacts ==
  ASSUME NEW S, NEW q \in Seq(S), NEW m \in S
  PROVE  /\ Append(q, m) \in Seq(S) /\ Len(q) \in Nat /\ Len(Append(q, m)) = Len(q) + 1
         /\ DOMAIN q = 1..Len(q) /\ DOMAIN Append(q, m) = 1..Len(q) + 1
         /\ \A i \in DOMAIN q : Append(q, m)[i] = q[i]
         /\ Append(q, m)[Len(q) + 1] = m
OBVIOUS

\* A message of one of these kinds is under way.
Holds(q, K) == \E i \in DOMAIN q : q[i].kind \in K

\* At most one message of these kinds is under way.
One(q, K) == \A i, j \in DOMAIN q : q[i].kind \in K /\ q[j].kind \in K => i = j

\* Every message under way is one of these.
All(q, S) == \A i \in DOMAIN q : q[i] \in S

\* Sending adds the message and nothing else.
LEMMA Sent ==
  ASSUME NEW S, NEW q \in Seq(S), NEW m \in S, NEW K
  PROVE  /\ Holds(Append(q, m), K) <=> Holds(q, K) \/ m.kind \in K
         /\ One(q, K) /\ (m.kind \notin K \/ ~Holds(q, K)) => One(Append(q, m), K)
<1> DEFINE t == Append(q, m)
<1>1. /\ DOMAIN q = 1..Len(q) /\ DOMAIN t = 1..Len(q) + 1 /\ Len(q) \in Nat
      /\ \A i \in DOMAIN q : t[i] = q[i]
      /\ t[Len(q) + 1] = m
  BY AppendFacts
<1> HIDE DEF t
<1>2. \A i \in DOMAIN t : i \in DOMAIN q \/ i = Len(q) + 1
  BY <1>1
<1>3. Len(q) + 1 \in DOMAIN t /\ \A i \in DOMAIN q : i \in DOMAIN t
  BY <1>1
<1>4. Holds(t, K) <=> Holds(q, K) \/ m.kind \in K
  BY <1>1, <1>2, <1>3 DEF Holds
<1>5. ASSUME One(q, K), m.kind \notin K \/ ~Holds(q, K) PROVE One(t, K)
  BY <1>1, <1>2, <1>5 DEF One, Holds
<1> QED BY <1>4, <1>5 DEF t

LEMMA SentAll ==
  ASSUME NEW S, NEW q \in Seq(S), NEW m \in S, NEW R, NEW T,
         All(q, R), m \in T, \A x \in R : x \in S => x \in T
  PROVE  All(Append(q, m), T)
<1> DEFINE t == Append(q, m)
<1>1. /\ DOMAIN q = 1..Len(q) /\ DOMAIN t = 1..Len(q) + 1 /\ Len(q) \in Nat
      /\ \A i \in DOMAIN q : t[i] = q[i]
      /\ t[Len(q) + 1] = m
  BY AppendFacts
<1>2. \A i \in DOMAIN q : q[i] \in S
  OBVIOUS
<1> HIDE DEF t
<1>3. \A i \in DOMAIN t : t[i] \in T
  BY <1>1, <1>2 DEF All
<1> QED BY <1>3 DEF t, All

\* Taking removes the message and nothing else.
LEMMA Taken ==
  ASSUME NEW S, NEW q \in Seq(S), q # <<>>, NEW K
  PROVE  /\ Holds(q, K) <=> Holds(Tail(q), K) \/ Head(q).kind \in K
         /\ One(q, K) => One(Tail(q), K)
         /\ One(q, K) /\ Head(q).kind \in K => ~Holds(Tail(q), K)
<1> DEFINE t == Tail(q)
<1>1. /\ DOMAIN q = 1..Len(q) /\ DOMAIN t = 1..Len(q) - 1 /\ Len(q) \in Nat \ {0}
      /\ \A i \in DOMAIN t : t[i] = q[i + 1]
      /\ Head(q) = q[1] /\ 1 \in DOMAIN q
  BY TailFacts
<1> HIDE DEF t
<1>2. \A i \in DOMAIN q : i = 1 \/ (i - 1 \in DOMAIN t /\ t[i - 1] = q[i])
  BY <1>1
<1>3. \A i \in DOMAIN t : i + 1 \in DOMAIN q /\ i + 1 # 1 /\ i \in Nat
  BY <1>1
<1>4. Holds(q, K) <=> Holds(t, K) \/ Head(q).kind \in K
  BY <1>1, <1>2, <1>3 DEF Holds
<1>5. ASSUME One(q, K) PROVE One(t, K)
  <2>1. ASSUME NEW i \in DOMAIN t, NEW j \in DOMAIN t, t[i].kind \in K, t[j].kind \in K
        PROVE  i = j
    <3>1. i + 1 = j + 1
      BY <1>1, <1>3, <1>5, <2>1 DEF One
    <3> QED BY <1>3, <3>1
  <2> QED BY <2>1 DEF One
<1>6. ASSUME One(q, K), Head(q).kind \in K PROVE ~Holds(t, K)
  BY <1>1, <1>3, <1>6 DEF One, Holds
<1> QED BY <1>4, <1>5, <1>6 DEF t

LEMMA TakenAll ==
  ASSUME NEW S, NEW q \in Seq(S), q # <<>>, NEW R, NEW T,
         All(q, R), \A x \in R : x \in S => x \in T
  PROVE  All(Tail(q), T) /\ Head(q) \in R
<1>1. /\ DOMAIN q = 1..Len(q) /\ DOMAIN Tail(q) = 1..Len(q) - 1 /\ Len(q) \in Nat \ {0}
      /\ \A i \in DOMAIN Tail(q) : Tail(q)[i] = q[i + 1]
      /\ Head(q) = q[1] /\ 1 \in DOMAIN q
  BY TailFacts
<1>2. \A i \in DOMAIN q : q[i] \in S
  OBVIOUS
<1>3. \A i \in DOMAIN Tail(q) : i + 1 \in DOMAIN q
  BY <1>1
<1> QED BY <1>1, <1>2, <1>3 DEF All

------------------------------------------------------------------------------
(* Types. *)

ToServerMsg == [kind : ToServerKinds, v : Nat]
ToClientMsg == [kind : ToClientKinds, v : Nat]

TypeOK ==
  /\ dropped \in SUBSET {"formatList", "text", "fileList"} /\ chan \in {"init", "ready"} /\ pendingSend \in Nat
  /\ staged \in BOOLEAN /\ requested \in {{}, {"formatList"}, {"text"}, {"fileList"}}
  /\ received \in Nat
  /\ pc \in {"idle", "set", "send", "get", "settle", "wait", "exec"}
  /\ toServer \in Seq(ToServerMsg) /\ toClient \in Seq(ToClientMsg)
  /\ offer \in [kind : {"none", "own"} \cup Lists, v : Nat]
  /\ asking \in [kind : {"none"} \cup Lists, v : Nat]
  /\ copies \in Nat /\ texts \in Nat /\ floor \in Nat /\ got \in Nat
  /\ raced \in BOOLEAN /\ late \in BOOLEAN /\ spurious \in BOOLEAN
  /\ pasted \in [want : Nat, got : Nat, done : BOOLEAN]

LEMMA MsgTypes ==
  /\ \A k \in ToServerKinds, n \in Nat : Msg(k, n) \in ToServerMsg
  /\ \A k \in ToClientKinds, n \in Nat : Msg(k, n) \in ToClientMsg
  /\ \A k, n : Msg(k, n).kind = k /\ Msg(k, n).v = n
BY DEF Msg, ToServerMsg, ToClientMsg

\* The channels stay channels.
LEMMA ChannelTypes ==
  ASSUME TypeOK
  PROVE  /\ \A m \in ToServerMsg : Append(toServer, m) \in Seq(ToServerMsg)
         /\ \A m \in ToClientMsg : Append(toClient, m) \in Seq(ToClientMsg)
         /\ toServer # <<>> => Tail(toServer) \in Seq(ToServerMsg) /\ Head(toServer) \in ToServerMsg
         /\ toClient # <<>> => Tail(toClient) \in Seq(ToClientMsg) /\ Head(toClient) \in ToClientMsg
BY DEF TypeOK

LEMMA TypeInit == Init => TypeOK
<1> SUFFICES ASSUME Init PROVE TypeOK
  OBVIOUS
<1>1. toServer \in Seq(ToServerMsg) /\ toClient \in Seq(ToClientMsg)
  BY DEF Init, Msg, ToClientMsg, ToClientKinds
<1>2. dropped \in SUBSET {"formatList", "text", "fileList"}
  BY DEF Init
<1>3. offer \in [kind : {"none", "own"} \cup Lists, v : Nat]
        /\ asking \in [kind : {"none"} \cup Lists, v : Nat]
  BY DEF Init, Msg
<1>4. pasted \in [want : Nat, got : Nat, done : BOOLEAN]
  BY DEF Init
<1> QED BY <1>1, <1>2, <1>3, <1>4 DEF Init, TypeOK

LEMMA TypeStep == TypeOK /\ [Next]_vars => TypeOK'
<1> SUFFICES ASSUME TypeOK, [Next]_vars PROVE TypeOK'
  OBVIOUS
<1> USE DEF net, server, ghost, client
<1>k. \A q, K : Carries(q, K) \in BOOLEAN
  BY DEF Carries
\* Sending over the channel, with or without a race.
<1>a. ASSUME NEW k \in Lists, NEW n \in Nat, Announce(k, n)
      PROVE  toServer' \in Seq(ToServerMsg) /\ raced' \in BOOLEAN
  <2>1. Msg(k, n) \in ToServerMsg
    BY MsgTypes DEF ToServerKinds
  <2>2. raced' = (raced \/ Carries(toClient, {"list"}))
    BY <1>a DEF Announce
  <2>3. raced' \in BOOLEAN
    BY <2>2
  <2> QED BY <1>a, <2>1, <2>3, ChannelTypes DEF Announce
<1>b. \A k : Incoming(k) => toClient' \in Seq(ToClientMsg) /\ Head(toClient) \in ToClientMsg
  BY ChannelTypes DEF Incoming
<1>c. \A K : ServerTake(K) => toServer' \in Seq(ToServerMsg) /\ Head(toServer) \in ToServerMsg
  BY ChannelTypes DEF ServerTake
<1>1. CASE Receive
  <2>1. toClient' \in Seq(ToClientMsg) /\ Head(toClient) \in ToClientMsg
    BY <1>b, <1>1 DEF Receive, OnRequestFormatList, OnReady, OnRemoteCopy,
                      OnFormatDataRequest, OnFormatDataResponse
  <2>2. Msg("ack", 0) \in ToServerMsg
    BY MsgTypes DEF ToServerKinds
  <2>3. requested' \in {{}, {"formatList"}, {"text"}, {"fileList"}}
    BY <1>1 DEF Receive, OnRequestFormatList, OnReady, OnRemoteCopy, OnFormatDataRequest,
                OnFormatDataResponse, Incoming, TypeOK
  <2>4. CASE OnRequestFormatList \/ OnReady \/ OnFormatDataRequest
    <3>1. UNCHANGED <<pendingSend, staged, received, pc, toServer, server, texts, ghost>>
            /\ chan' \in {chan, "ready"}
      BY <2>4 DEF OnRequestFormatList, OnReady, OnFormatDataRequest
    <3> QED BY <2>1, <2>3, <3>1 DEF TypeOK
  <2>5. CASE OnRemoteCopy
    BY <2>1, <2>2, <2>3, <2>5, ChannelTypes DEF OnRemoteCopy, Disown, TypeOK
  <2>6. CASE OnFormatDataResponse
    <3>1. received' \in Nat
      BY <2>1, <2>6 DEF OnFormatDataResponse, ToClientMsg, TypeOK
    <3> QED BY <2>1, <2>3, <2>6, <3>1 DEF OnFormatDataResponse, TypeOK
  <2> QED BY <1>1, <2>4, <2>5, <2>6 DEF Receive
<1>2. CASE Check
  <2>1. requested' \in {{}, {"formatList"}, {"text"}, {"fileList"}}
    BY <1>2 DEF Check, CheckFormatListRequest, CheckClipboardDataRequest,
                CheckFileListDataRequest, TypeOK
  <2>2. CASE CheckFormatListRequest
    <3>1. toServer' \in Seq(ToServerMsg) /\ raced' \in BOOLEAN
      BY <1>a, <2>2 DEF CheckFormatListRequest, Advertise, Lists, TypeOK
    <3> QED BY <2>1, <2>2, <3>1 DEF CheckFormatListRequest, TypeOK
  <2>3. CASE CheckClipboardDataRequest
    <3>1. toServer' \in Seq(ToServerMsg)
      BY <2>3, MsgTypes, ChannelTypes
      DEF CheckClipboardDataRequest, TextAnswer, ToServerKinds, TypeOK
    <3> QED BY <2>1, <2>3, <3>1 DEF CheckClipboardDataRequest, KeepText, TypeOK
  <2>4. CASE CheckFileListDataRequest
    <3>1. toServer' \in Seq(ToServerMsg) /\ pc' \in {pc, "idle"}
      BY <2>4, MsgTypes, ChannelTypes DEF CheckFileListDataRequest, ToServerKinds, TypeOK
    <3>2. spurious' = (spurious \/ ~staged)
      BY <2>4 DEF CheckFileListDataRequest
    <3>3. spurious' \in BOOLEAN
      BY <3>2
    <3> QED BY <2>1, <2>4, <3>1, <3>3 DEF CheckFileListDataRequest, TypeOK
  <2> QED BY <1>2, <2>2, <2>3, <2>4 DEF Check
<1>3. CASE SetClipboard \/ SendClipboardFile
  <2>1. toServer' \in Seq(ToServerMsg) /\ raced' \in BOOLEAN
    BY <1>a, <1>3 DEF SetClipboard, SendClipboardFile, Lists, TypeOK
  <2>2. requested' \in {{}, {"formatList"}, {"text"}, {"fileList"}}
    BY <1>3 DEF SetClipboard, SendClipboardFile, Free, TypeOK
  <2>3. CASE SetClipboard
    BY <2>1, <2>2, <2>3 DEF SetClipboard, Store, TypeOK
  <2>4. CASE SendClipboardFile
    BY <2>1, <2>2, <2>4 DEF SendClipboardFile, TypeOK
  <2> QED BY <1>3, <2>3, <2>4
<1>4. CASE GetClipboard \/ Exec
  <2>1. /\ floor' \in {floor, copies} /\ got' \in {got, 0} /\ received' \in {received, 0}
        /\ pc' \in {"get", "exec"}
        /\ UNCHANGED <<chan, pendingSend, staged, requested, net, server, texts, raced,
                       late, pasted, spurious, dropped>>
    BY <1>4 DEF GetClipboard, Forget, Exec
  <2> QED BY <2>1 DEF TypeOK
<1>10. CASE DropFuture
  <2>1. dropped' \in SUBSET {"formatList", "text", "fileList"} /\ requested' = {}
    BY <1>10 DEF DropFuture, TypeOK
  <2> QED BY <1>10, <2>1 DEF DropFuture, TypeOK
<1>5. CASE Elapse
  <2>1. Msg("askText", 0) \in ToServerMsg
    BY MsgTypes DEF ToServerKinds
  <2>2. CASE GetPaste
    BY <2>1, <2>2, ChannelTypes DEF GetPaste, TypeOK
  <2>3. CASE OfferDone \/ GetSettle \/ GetReturn \/ GetTimeout \/ ExecDone
    BY <2>3 DEF OfferDone, GetSettle, GetReturn, GetTimeout, ExecDone, TypeOK
  <2> QED BY <1>5, <2>2, <2>3 DEF Elapse
<1>6. CASE ServerReads
  <2>1. toServer' \in Seq(ToServerMsg) /\ Head(toServer) \in ToServerMsg
    BY <1>c, <1>6 DEF ServerReads, ServerTakesList, ServerTakesAck, ServerAnswers, ServerPasted
  <2>2. CASE ServerTakesList
    <3>1. offer' \in [kind : {"none", "own"} \cup Lists, v : Nat]
      BY <2>1, <2>2 DEF ServerTakesList, ServerTake, ToServerMsg
    <3>2. toClient' \in Seq(ToClientMsg)
      BY <2>2, MsgTypes, ChannelTypes DEF ServerTakesList, ToClientKinds
    <3> QED BY <2>1, <2>2, <3>1, <3>2 DEF ServerTakesList, TypeOK
  <2>3. CASE ServerTakesAck
    BY <2>1, <2>3 DEF ServerTakesAck, TypeOK
  <2>4. CASE ServerAnswers
    <3>1. toClient' \in Seq(ToClientMsg)
      BY <2>4, MsgTypes, ChannelTypes DEF ServerAnswers, ToClientKinds, TypeOK
    <3> QED BY <2>1, <2>4, <3>1 DEF ServerAnswers, TypeOK
  <2>5. CASE ServerPasted
    <3>1. asking' \in [kind : {"none"} \cup Lists, v : Nat]
      BY <2>5 DEF ServerPasted, Msg
    <3>2. pasted' \in [want : Nat, got : Nat, done : BOOLEAN]
      BY <2>1, <2>5 DEF ServerPasted, ToServerMsg, TypeOK
    <3> QED BY <2>1, <2>5, <3>1, <3>2 DEF ServerPasted, TypeOK
  <2> QED BY <1>6, <2>2, <2>3, <2>4, <2>5 DEF ServerReads
<1>7. CASE ServerCopy
  <2>1. raced' = (raced \/ Carries(toServer, Lists))
    BY <1>7 DEF ServerCopy
  <2>2. raced' \in BOOLEAN
    BY <2>1
  <2>3. toClient' \in Seq(ToClientMsg) /\ offer' \in [kind : {"none", "own"} \cup Lists, v : Nat]
    BY <1>7, MsgTypes, ChannelTypes DEF ServerCopy, ToClientKinds, Msg
  <2> QED BY <1>7, <2>2, <2>3 DEF ServerCopy, TypeOK
<1>8. CASE ServerPaste
  <2>1. toClient' \in Seq(ToClientMsg)
    BY <1>8, MsgTypes, ChannelTypes DEF ServerPaste, ToClientKinds
  <2>2. asking' \in [kind : {"none"} \cup Lists, v : Nat]
    BY <1>8 DEF ServerPaste, Lists, TypeOK
  <2>3. pasted' \in [want : Nat, got : Nat, done : BOOLEAN]
    BY <1>8 DEF ServerPaste
  <2> QED BY <1>8, <2>1, <2>2, <2>3 DEF ServerPaste, TypeOK
<1>9. CASE UNCHANGED vars
  BY <1>9 DEF vars, TypeOK
<1> QED
  BY <1>1, <1>2, <1>3, <1>4, <1>5, <1>6, <1>7, <1>8, <1>9, <1>10 DEF Next, Command

------------------------------------------------------------------------------
(* The two channels of the session. *)

\* What one step does to the two channels.
LEMMA SentServer ==
  ASSUME TypeOK, NEW m \in ToServerMsg, toServer' = Append(toServer, m)
  PROVE  \A K : /\ Carries(toServer', K) <=> Carries(toServer, K) \/ m.kind \in K
                /\ One(toServer, K) /\ (m.kind \notin K \/ ~Carries(toServer, K)) =>
                     One(toServer', K)
BY Sent DEF TypeOK, Carries, Holds

LEMMA SentClient ==
  ASSUME TypeOK, NEW m \in ToClientMsg, toClient' = Append(toClient, m)
  PROVE  \A K : /\ Carries(toClient', K) <=> Carries(toClient, K) \/ m.kind \in K
                /\ One(toClient, K) /\ (m.kind \notin K \/ ~Carries(toClient, K)) =>
                     One(toClient', K)
BY Sent DEF TypeOK, Carries, Holds

LEMMA TakenServer ==
  ASSUME TypeOK, toServer # <<>>, toServer' = Tail(toServer)
  PROVE  \A K : /\ Carries(toServer, K) <=> Carries(toServer', K) \/ Head(toServer).kind \in K
                /\ One(toServer, K) => One(toServer', K)
                /\ One(toServer, K) /\ Head(toServer).kind \in K => ~Carries(toServer', K)
BY Taken DEF TypeOK, Carries, Holds

LEMMA TakenClient ==
  ASSUME TypeOK, toClient # <<>>, toClient' = Tail(toClient)
  PROVE  \A K : /\ Carries(toClient, K) <=> Carries(toClient', K) \/ Head(toClient).kind \in K
                /\ One(toClient, K) => One(toClient', K)
                /\ One(toClient, K) /\ Head(toClient).kind \in K => ~Carries(toClient', K)
BY Taken DEF TypeOK, Carries, Holds

------------------------------------------------------------------------------
(* A request of the server's never fails a command: while no file is staged   *)
(* the server was not offered one, and does not ask for one.                  *)

NoFileYet ==
  /\ ~Carries(toServer, {"fileList"}) /\ ~Carries(toClient, {"askFile"})
  /\ offer.kind # "fileList" /\ "fileList" \notin requested

FileStays == ~spurious /\ (~staged => NoFileYet)

LEMMA FileStep == TypeOK /\ FileStays /\ [Next]_vars => FileStays'
<1> SUFFICES ASSUME TypeOK, FileStays, [Next]_vars PROVE FileStays'
  OBVIOUS
<1> USE DEF FileStays, NoFileYet, net, server, ghost, client
<1>1. CASE Receive
  <2>1. /\ UNCHANGED <<staged, offer, spurious>> /\ requested = {}
        /\ toClient # <<>> /\ toClient' = Tail(toClient)
    BY <1>1 DEF Receive, OnRequestFormatList, OnReady, OnRemoteCopy, OnFormatDataRequest,
                OnFormatDataResponse, Incoming, Disown
  <2>2. "fileList" \in requested' => Head(toClient).kind = "askFile"
    BY <1>1, <2>1 DEF Receive, OnRequestFormatList, OnReady, OnRemoteCopy,
                OnFormatDataRequest, OnFormatDataResponse, Incoming
  <2>3. toServer' = toServer \/ toServer' = Append(toServer, Msg("ack", 0))
    BY <1>1 DEF Receive, OnRequestFormatList, OnReady, OnRemoteCopy, OnFormatDataRequest,
                OnFormatDataResponse
  <2>4. Carries(toServer', {"fileList"}) <=> Carries(toServer, {"fileList"})
    BY <2>3, SentServer, MsgTypes DEF ToServerKinds
  <2> QED BY <2>1, <2>2, <2>4, TakenClient
<1>2. CASE Check
  <2>1. UNCHANGED <<staged, offer, toClient>> /\ requested' \subseteq requested
    BY <1>2 DEF Check, CheckFormatListRequest, CheckClipboardDataRequest,
                CheckFileListDataRequest
  <2>2. spurious' = FALSE
    <3>1. CASE CheckFileListDataRequest
      <4>1. staged /\ spurious' = (spurious \/ ~staged)
        BY <3>1 DEF CheckFileListDataRequest
      <4> QED BY <4>1
    <3>2. CASE CheckFormatListRequest \/ CheckClipboardDataRequest
      <4>1. spurious' = spurious
        BY <3>2 DEF CheckFormatListRequest, CheckClipboardDataRequest
      <4>2. spurious \in BOOLEAN
        BY DEF TypeOK
      <4> QED BY <4>1, <4>2
    <3> QED BY <1>2, <3>1, <3>2 DEF Check
  <2>3. \/ toServer' = toServer
        \/ \E k \in {"textList", "emptyList", "text", "file"}, n \in Nat :
             toServer' = Append(toServer, Msg(k, n))
    BY <1>2 DEF Check, CheckFormatListRequest, CheckClipboardDataRequest, TextAnswer,
                CheckFileListDataRequest, Advertise, Announce, TypeOK
  <2>4. Carries(toServer', {"fileList"}) <=> Carries(toServer, {"fileList"})
    BY <2>3, SentServer, MsgTypes DEF ToServerKinds, Lists
  <2> QED BY <2>1, <2>2, <2>4
<1>3. CASE SetClipboard \/ GetPaste
  <2>1. UNCHANGED <<staged, offer, toClient, requested, spurious>>
    BY <1>3 DEF SetClipboard, GetPaste
  <2>2. \/ toServer' = toServer
        \/ \E k \in {"textList", "askText"}, n \in Nat : toServer' = Append(toServer, Msg(k, n))
    BY <1>3 DEF SetClipboard, GetPaste, Announce, TypeOK
  <2>3. Carries(toServer', {"fileList"}) <=> Carries(toServer, {"fileList"})
    BY <2>2, SentServer, MsgTypes DEF ToServerKinds, Lists
  <2> QED BY <2>1, <2>3
<1>4. CASE SendClipboardFile
  BY <1>4 DEF SendClipboardFile
<1>5. CASE \/ OfferDone \/ GetSettle \/ GetReturn \/ GetTimeout \/ ExecDone \/ GetClipboard
           \/ Exec \/ DropFuture
  <2>1. UNCHANGED <<staged, offer, net, spurious>> /\ requested' \in {requested, {}}
    BY <1>5 DEF OfferDone, GetSettle, GetReturn, GetTimeout, ExecDone, GetClipboard, Exec,
                DropFuture
  <2> QED BY <2>1
<1>6. CASE ServerReads
  <2>1. UNCHANGED <<staged, requested, spurious>> /\ toServer # <<>> /\ toServer' = Tail(toServer)
    BY <1>6 DEF ServerReads, ServerTakesList, ServerTakesAck, ServerAnswers, ServerPasted,
                ServerTake
  <2>2. offer' = offer \/ offer' = Head(toServer)
    BY <1>6 DEF ServerReads, ServerTakesList, ServerTakesAck, ServerAnswers, ServerPasted
  <2>3. \/ toClient' = toClient
        \/ \E k \in {"ack", "text"}, n \in Nat : toClient' = Append(toClient, Msg(k, n))
    BY <1>6 DEF ServerReads, ServerTakesList, ServerTakesAck, ServerAnswers, ServerPasted, TypeOK
  <2>4. Carries(toClient', {"askFile"}) <=> Carries(toClient, {"askFile"})
    BY <2>3, SentClient, MsgTypes DEF ToClientKinds
  <2> QED BY <2>1, <2>2, <2>4, TakenServer
<1>7. CASE ServerCopy \/ ServerPaste
  <2>1. UNCHANGED <<staged, requested, spurious, toServer>>
    BY <1>7 DEF ServerCopy, ServerPaste
  <2>2. \/ offer' = Msg("own", 0) /\ toClient' = Append(toClient, Msg("list", 0))
        \/ offer' = offer /\ toClient' = Append(toClient, Msg("askText", 0))
        \/ /\ offer' = offer /\ offer.kind = "fileList"
           /\ toClient' = Append(toClient, Msg("askFile", 0))
    BY <1>7 DEF ServerCopy, ServerPaste
  <2>3. ~staged => (Carries(toClient', {"askFile"}) <=> Carries(toClient, {"askFile"}))
    BY <2>2, SentClient, MsgTypes DEF ToClientKinds
  <2>4. offer' = offer \/ offer'.kind = "own"
    BY <2>2, MsgTypes
  <2> QED BY <2>1, <2>3, <2>4
<1>8. CASE UNCHANGED vars
  BY <1>8 DEF vars
<1> QED
  BY <1>1, <1>2, <1>3, <1>4, <1>5, <1>6, <1>7, <1>8 DEF Next, Command, Elapse

LEMMA FileInit == Init => FileStays
<1> SUFFICES ASSUME Init PROVE FileStays
  OBVIOUS
<1>1. ~Carries(toServer, {"fileList"}) /\ ~Carries(toClient, {"askFile"})
  BY DEF Init, Carries, Msg
<1> QED BY <1>1 DEF Init, FileStays, NoFileYet, Msg

\* However copies, pastes and commands cross, no command fails for a file the
\* server was offered.
THEOREM NeverSpurious == Spec => []NoSpuriousError
<1>1. FileStays => NoSpuriousError
  BY DEF FileStays, NoSpuriousError
<1> QED BY TypeInit, TypeStep, FileInit, FileStep, <1>1, PTL DEF Spec

------------------------------------------------------------------------------
(* A paste never brings a stale text. There is one paste of the server's under *)
(* way at a time, as a request, as a note in ClipboardState or as an answer,   *)
(* and all three are of the kind it asked for; and every number is behind the  *)
(* counter it was drawn from.                                                  *)

Asks == {"askText", "askFile"}
Answers == {"text", "file"}

AboutText == Carries(toClient, {"askText"}) \/ "text" \in requested \/ Carries(toServer, {"text"})
AboutFile == Carries(toClient, {"askFile"}) \/ "fileList" \in requested \/ Carries(toServer, {"file"})

\* The paste has one question or answer under way at most, of the kind it asked for.
Matched ==
  /\ One(toClient, Asks) /\ One(toServer, Answers)
  /\ ~(Carries(toClient, Asks) /\ Carries(toServer, Answers))
  /\ "text" \in requested \/ "fileList" \in requested =>
       ~Carries(toClient, Asks) /\ ~Carries(toServer, Answers)
  /\ AboutText => asking.kind = "textList"
  /\ AboutFile => asking.kind = "fileList"

\* The kinds, one by one.
LEMMA Kinds ==
  ASSUME NEW q
  PROVE  /\ Carries(q, Asks) <=> Carries(q, {"askText"}) \/ Carries(q, {"askFile"})
         /\ Carries(q, Answers) <=> Carries(q, {"text"}) \/ Carries(q, {"file"})
         /\ Carries(q, Lists) <=>
              Carries(q, {"textList"}) \/ Carries(q, {"fileList"}) \/ Carries(q, {"emptyList"})
BY DEF Carries, Asks, Answers, Lists

LEMMA MatchedInit == Init => Matched
<1> SUFFICES ASSUME Init PROVE Matched
  OBVIOUS
<1>1. \A K : ~Carries(toServer, K) /\ One(toServer, K) /\ One(toClient, K)
  BY DEF Init, Carries, One
<1>2. ~Carries(toClient, {"askText"}) /\ ~Carries(toClient, {"askFile"})
  BY DEF Init, Carries, Msg
<1> QED BY <1>1, <1>2, Kinds DEF Init, Matched, AboutText, AboutFile

LEMMA MatchedStep == TypeOK /\ Matched /\ [Next]_vars => Matched'
<1> SUFFICES ASSUME TypeOK, Matched, [Next]_vars PROVE Matched'
  OBVIOUS
<1> USE DEF Matched, AboutText, AboutFile, net, server, ghost, client
\* A step of neither paste nor channel.
<1>a. ASSUME UNCHANGED asking, requested' \subseteq requested,
             toClient' = toClient,
             \/ toServer' = toServer
             \/ \E m \in ToServerMsg : m.kind \notin Answers /\ toServer' = Append(toServer, m)
             \/ toServer # <<>> /\ toServer' = Tail(toServer)
      PROVE  Matched'
  <2>1. \A K \in {Answers, {"text"}, {"file"}} :
          /\ Carries(toServer', K) => Carries(toServer, K)
          /\ One(toServer, K) => One(toServer', K)
    <3>1. CASE toServer' = toServer
      BY <3>1
    <3>2. CASE \E m \in ToServerMsg : m.kind \notin Answers /\ toServer' = Append(toServer, m)
      BY <3>2, SentServer DEF Answers
    <3>3. CASE toServer # <<>> /\ toServer' = Tail(toServer)
      BY <3>3, TakenServer
    <3> QED BY <1>a, <3>1, <3>2, <3>3
  <2> QED BY <1>a, <2>1
<1>1. CASE OnRequestFormatList \/ OnReady \/ OnRemoteCopy \/ OnFormatDataResponse
  <2>1. /\ UNCHANGED asking /\ requested = {} /\ toClient # <<>> /\ toClient' = Tail(toClient)
        /\ requested' \in {{}, {"formatList"}}
    BY <1>1 DEF OnRequestFormatList, OnReady, OnRemoteCopy, OnFormatDataResponse, Incoming
  <2>2. toServer' = toServer \/ toServer' = Append(toServer, Msg("ack", 0))
    BY <1>1 DEF OnRequestFormatList, OnReady, OnRemoteCopy, OnFormatDataResponse
  <2>3. \A K \in {Answers, {"text"}, {"file"}} :
          /\ Carries(toServer', K) => Carries(toServer, K)
          /\ One(toServer, K) => One(toServer', K)
    BY <2>2, SentServer, MsgTypes DEF ToServerKinds, Answers
  <2> QED BY <2>1, <2>3, TakenClient
<1>2. CASE OnFormatDataRequest
  <2>1. /\ UNCHANGED <<asking, toServer>> /\ requested = {}
        /\ toClient # <<>> /\ toClient' = Tail(toClient)
        /\ \/ Head(toClient).kind = "askText" /\ requested' = {"text"}
           \/ Head(toClient).kind = "askFile" /\ requested' = {"fileList"}
    BY <1>2 DEF OnFormatDataRequest, Incoming
  <2>2. Carries(toClient, Asks) /\ ~Carries(toClient', Asks)
    BY <2>1, TakenClient DEF Asks
  <2>3. ~Carries(toServer, Answers) /\ One(toClient', Asks)
    BY <2>1, <2>2, TakenClient
  <2>4. CASE Head(toClient).kind = "askText" /\ requested' = {"text"}
    <3>1. Carries(toClient, {"askText"})
      BY <2>1, <2>4, TakenClient
    <3> QED BY <2>1, <2>2, <2>3, <2>4, <3>1, Kinds
  <2>5. CASE Head(toClient).kind = "askFile" /\ requested' = {"fileList"}
    <3>1. Carries(toClient, {"askFile"})
      BY <2>1, <2>5, TakenClient
    <3> QED BY <2>1, <2>2, <2>3, <2>5, <3>1, Kinds
  <2> QED BY <2>1, <2>4, <2>5
<1>3. CASE CheckFormatListRequest \/ SetClipboard \/ SendClipboardFile \/ GetPaste
  <2>1. UNCHANGED <<asking, toClient>> /\ requested' \subseteq requested
    BY <1>3 DEF CheckFormatListRequest, SetClipboard, SendClipboardFile, GetPaste
  <2>2. \/ toServer' = toServer
        \/ \E k \in Lists \cup {"askText"}, n \in Nat : toServer' = Append(toServer, Msg(k, n))
    BY <1>3 DEF CheckFormatListRequest, Advertise, SetClipboard, SendClipboardFile, GetPaste,
                Announce, Lists, TypeOK
  <2>3. \/ toServer' = toServer
        \/ \E m \in ToServerMsg : m.kind \notin Answers /\ toServer' = Append(toServer, m)
    BY <2>2, MsgTypes DEF ToServerKinds, Answers, Lists
  <2> QED BY <1>a, <2>1, <2>3
<1>4. CASE CheckClipboardDataRequest \/ CheckFileListDataRequest
  <2>1. /\ UNCHANGED <<asking, toClient>>
        /\ \/ "text" \in requested /\ requested' = requested \ {"text"}
           \/ "fileList" \in requested /\ requested' = requested \ {"fileList"}
    BY <1>4 DEF CheckClipboardDataRequest, CheckFileListDataRequest
  <2>2. requested' = {}
    BY <2>1 DEF TypeOK
  <2>3. \/ toServer' = toServer
        \/ \E n \in Nat : "text" \in requested /\ toServer' = Append(toServer, Msg("text", n))
        \/ "fileList" \in requested /\ toServer' = Append(toServer, Msg("file", 0))
    BY <1>4 DEF CheckClipboardDataRequest, CheckFileListDataRequest, TextAnswer, TypeOK
  <2>4. ~Carries(toClient, Asks) /\ ~Carries(toServer, Answers)
    BY <2>1
  <2>5. One(toServer', Answers) /\ (Carries(toServer', {"text"}) => "text" \in requested)
          /\ (Carries(toServer', {"file"}) => "fileList" \in requested)
    <3>1. CASE toServer' = toServer
      BY <2>4, <3>1, Kinds
    <3>2. CASE \E n \in Nat : "text" \in requested /\ toServer' = Append(toServer, Msg("text", n))
      BY <2>4, <3>2, Kinds, SentServer, MsgTypes DEF ToServerKinds
    <3>3. CASE "fileList" \in requested /\ toServer' = Append(toServer, Msg("file", 0))
      BY <2>4, <3>3, Kinds, SentServer, MsgTypes DEF ToServerKinds
    <3> QED BY <2>3, <3>1, <3>2, <3>3
  <2> QED BY <2>1, <2>2, <2>4, <2>5, Kinds
<1>5. CASE \/ OfferDone \/ GetSettle \/ GetReturn \/ GetTimeout \/ ExecDone \/ GetClipboard
           \/ Exec \/ DropFuture
  <2>1. UNCHANGED <<asking, net>> /\ requested' \subseteq requested
    BY <1>5 DEF OfferDone, GetSettle, GetReturn, GetTimeout, ExecDone, GetClipboard, Exec,
                DropFuture
  <2> QED BY <1>a, <2>1
<1>6. CASE ServerTakesList \/ ServerTakesAck \/ ServerAnswers
  <2>1. UNCHANGED <<asking, requested>> /\ toServer # <<>> /\ toServer' = Tail(toServer)
    BY <1>6 DEF ServerTakesList, ServerTakesAck, ServerAnswers, ServerTake
  <2>2. \/ toClient' = toClient
        \/ \E k \in {"ack", "text"}, n \in Nat : toClient' = Append(toClient, Msg(k, n))
    BY <1>6 DEF ServerTakesList, ServerTakesAck, ServerAnswers, TypeOK
  <2>3. One(toClient', Asks) /\ \A K \in {Asks, {"askText"}, {"askFile"}} :
                                   Carries(toClient', K) => Carries(toClient, K)
    BY <2>2, SentClient, MsgTypes DEF ToClientKinds, Asks
  <2>4. One(toServer', Answers) /\ \A K : Carries(toServer', K) => Carries(toServer, K)
    BY <2>1, TakenServer
  <2> QED BY <2>1, <2>3, <2>4
<1>7. CASE ServerPasted
  <2>1. /\ UNCHANGED <<requested, toClient>> /\ toServer # <<>> /\ toServer' = Tail(toServer)
        /\ Head(toServer).kind \in Answers
    BY <1>7 DEF ServerPasted, ServerTake, Answers
  <2>2. Carries(toServer, Answers) /\ ~Carries(toServer', Answers) /\ One(toServer', Answers)
    BY <2>1, TakenServer
  <2>3. ~Carries(toClient, Asks) /\ "text" \notin requested /\ "fileList" \notin requested
    BY <2>2
  <2> QED BY <2>1, <2>2, <2>3, Kinds
<1>8. CASE ServerCopy
  <2>1. UNCHANGED <<asking, requested, toServer>> /\ toClient' = Append(toClient, Msg("list", 0))
    BY <1>8 DEF ServerCopy
  <2>2. \A K \in {Asks, {"askText"}, {"askFile"}} :
          /\ Carries(toClient', K) => Carries(toClient, K)
          /\ One(toClient, K) => One(toClient', K)
    BY <2>1, SentClient, MsgTypes DEF ToClientKinds, Asks
  <2> QED BY <2>1, <2>2
<1>9. CASE ServerPaste
  <2>1. /\ asking.kind = "none" /\ asking' = offer /\ UNCHANGED <<requested, toServer>>
        /\ \/ offer.kind = "textList" /\ toClient' = Append(toClient, Msg("askText", 0))
           \/ offer.kind = "fileList" /\ toClient' = Append(toClient, Msg("askFile", 0))
    BY <1>9 DEF ServerPaste
  <2>2. /\ ~Carries(toClient, {"askText"}) /\ ~Carries(toClient, {"askFile"})
        /\ ~Carries(toServer, {"text"}) /\ ~Carries(toServer, {"file"})
        /\ "text" \notin requested /\ "fileList" \notin requested
    BY <2>1
  <2>3. ~Carries(toClient, Asks) /\ ~Carries(toServer, Answers)
    BY <2>2, Kinds
  <2>4. One(toClient', Asks)
          /\ (Carries(toClient', {"askText"}) => offer.kind = "textList")
          /\ (Carries(toClient', {"askFile"}) => offer.kind = "fileList")
    <3>1. CASE offer.kind = "textList" /\ toClient' = Append(toClient, Msg("askText", 0))
      BY <2>2, <2>3, <3>1, SentClient, MsgTypes DEF ToClientKinds
    <3>2. CASE offer.kind = "fileList" /\ toClient' = Append(toClient, Msg("askFile", 0))
      BY <2>2, <2>3, <3>2, SentClient, MsgTypes DEF ToClientKinds
    <3> QED BY <2>1, <3>1, <3>2
  <2> QED BY <2>1, <2>2, <2>3, <2>4
<1>10. CASE UNCHANGED vars
  BY <1>10 DEF vars
<1> QED
  BY <1>1, <1>2, <1>3, <1>4, <1>5, <1>6, <1>7, <1>8, <1>9, <1>10
  DEF Next, Receive, Check, Command, Elapse, ServerReads

\* What the server may be told, given the newest text and the paste it awaits.
Fit ==
  {m \in ToServerMsg :
     /\ m.kind \in Lists => m.v <= texts
     /\ m.kind = "fileList" => m.v = 0
     /\ m.kind \in Answers => m.v = 0 \/ m.v >= asking.v}

\* Nothing the paste can be given is older than what it was offered.
Fresh ==
  /\ pendingSend \in {0, texts}
  /\ All(toServer, Fit)
  /\ offer.v <= texts /\ (offer.kind = "fileList" => offer.v = 0)
  /\ asking.v <= texts /\ (asking.kind = "fileList" => asking.v = 0)
  /\ NoStalePaste

LEMMA FreshInit == Init => Fresh
<1> SUFFICES ASSUME Init PROVE Fresh
  OBVIOUS
<1>1. All(toServer, Fit)
  BY DEF Init, All
<1> QED BY <1>1 DEF Init, Fresh, NoStalePaste, Msg

LEMMA FreshStep == TypeOK /\ Matched /\ Fresh /\ [Next]_vars => Fresh'
<1> SUFFICES ASSUME TypeOK, Matched, Fresh, [Next]_vars PROVE Fresh'
  OBVIOUS
<1> USE DEF net, server, ghost, client
<1>t. /\ texts \in Nat /\ pendingSend \in Nat /\ asking.v \in Nat /\ offer.v \in Nat
      /\ toServer \in Seq(ToServerMsg) /\ pendingSend \in {0, texts}
      /\ All(toServer, Fit)
  BY DEF TypeOK, Fresh
\* A list of the client's, or the asking for the server's text, may be sent.
<1>a. ASSUME texts' \in Nat, texts' >= texts, asking' = asking,
             \/ toServer' = toServer
             \/ \E m \in ToServerMsg : m \in Fit' /\ toServer' = Append(toServer, m)
             \/ toServer # <<>> /\ toServer' = Tail(toServer)
      PROVE  All(toServer', Fit')
  <2>1. \A x \in Fit : x \in Fit'
    BY <1>t, <1>a DEF Fit, ToServerMsg
  <2>2. CASE toServer' = toServer
    BY <1>t, <2>1, <2>2 DEF All
  <2>3. CASE \E m \in ToServerMsg : m \in Fit' /\ toServer' = Append(toServer, m)
    <3>1. PICK m \in ToServerMsg : m \in Fit' /\ toServer' = Append(toServer, m)
      BY <2>3
    <3>2. PICK F : F = Fit'
      OBVIOUS
    <3>3. All(Append(toServer, m), F)
      BY <1>t, <2>1, <3>1, <3>2, SentAll
    <3> QED BY <3>1, <3>2, <3>3
  <2>4. CASE toServer # <<>> /\ toServer' = Tail(toServer)
    <3>1. PICK F : F = Fit'
      OBVIOUS
    <3>2. All(Tail(toServer), F)
      BY <1>t, <2>1, <2>4, <3>1, TakenAll
    <3> QED BY <2>4, <3>1, <3>2
  <2> QED BY <1>a, <2>2, <2>3, <2>4
\* Nothing else of the invariant moves with the channel.
<1>b. ASSUME UNCHANGED <<texts, pendingSend, asking, offer, pasted>>,
             \/ toServer' = toServer
             \/ \E m \in ToServerMsg : m \in Fit' /\ toServer' = Append(toServer, m)
             \/ toServer # <<>> /\ toServer' = Tail(toServer)
      PROVE  Fresh'
  <2>1. All(toServer', Fit')
    BY <1>a, <1>b, <1>t
  <2> QED BY <1>b, <2>1 DEF Fresh, NoStalePaste
<1>1. CASE Receive
  <2>1. UNCHANGED <<texts, asking, offer, pasted>> /\ pendingSend' \in {0, pendingSend}
    BY <1>1 DEF Receive, OnRequestFormatList, OnReady, OnRemoteCopy, OnFormatDataRequest,
                OnFormatDataResponse, Disown
  <2>2. toServer' = toServer \/ toServer' = Append(toServer, Msg("ack", 0))
    BY <1>1 DEF Receive, OnRequestFormatList, OnReady, OnRemoteCopy, OnFormatDataRequest,
                OnFormatDataResponse
  <2>3. Msg("ack", 0) \in Fit'
    BY MsgTypes DEF Fit, Lists, Answers, ToServerKinds
  <2>4. Msg("ack", 0) \in ToServerMsg
    BY MsgTypes DEF ToServerKinds
  <2>5. All(toServer', Fit')
    BY <1>a, <1>t, <2>1, <2>2, <2>3, <2>4
  <2> QED BY <2>1, <2>5 DEF Fresh, NoStalePaste
<1>2. CASE Check
  <2>1. UNCHANGED <<texts, pendingSend, asking, offer, pasted>>
    BY <1>2 DEF Check, CheckFormatListRequest, CheckClipboardDataRequest, KeepText,
                CheckFileListDataRequest
  <2>2. \/ toServer' = toServer
        \/ \E k \in {"textList", "text"} : toServer' = Append(toServer, Msg(k, pendingSend))
        \/ \E k \in {"emptyList", "file"} : toServer' = Append(toServer, Msg(k, 0))
    BY <1>2 DEF Check, CheckFormatListRequest, CheckClipboardDataRequest, TextAnswer,
                CheckFileListDataRequest, Advertise, Announce
  <2>3. \A k \in {"textList", "text"} :
          Msg(k, pendingSend) \in ToServerMsg /\ Msg(k, pendingSend) \in Fit'
    <3>1. pendingSend = 0 \/ pendingSend = texts
      BY <1>t
    <3>2. asking.v <= texts
      BY DEF Fresh
    <3> QED BY <1>t, <2>1, <3>1, <3>2, MsgTypes DEF Fit, ToServerKinds, Lists, Answers
  <2>4. \A k \in {"emptyList", "file"} : Msg(k, 0) \in ToServerMsg /\ Msg(k, 0) \in Fit'
    BY <1>t, <2>1, MsgTypes DEF Fit, ToServerKinds, Lists, Answers
  <2> QED BY <1>b, <2>1, <2>2, <2>3, <2>4
<1>3. CASE SetClipboard
  <2>1. /\ texts' = texts + 1 /\ pendingSend' = texts + 1 /\ UNCHANGED <<asking, offer, pasted>>
        /\ toServer' = Append(toServer, Msg("textList", texts + 1))
    BY <1>3 DEF SetClipboard, Store, Announce
  <2>2. Msg("textList", texts + 1) \in ToServerMsg /\ Msg("textList", texts + 1) \in Fit'
    BY <1>t, <2>1, MsgTypes DEF Fit, ToServerKinds, Lists, Answers
  <2>3. All(toServer', Fit')
    BY <1>a, <1>t, <2>1, <2>2
  <2> QED BY <1>t, <2>1, <2>3 DEF Fresh, NoStalePaste
<1>4. CASE SendClipboardFile \/ GetPaste
  <2>1. UNCHANGED <<texts, pendingSend, asking, offer, pasted>>
    BY <1>4 DEF SendClipboardFile, GetPaste
  <2>2. \/ toServer' = toServer
        \/ \E k \in {"fileList", "askText"} : toServer' = Append(toServer, Msg(k, 0))
    BY <1>4 DEF SendClipboardFile, GetPaste, Announce
  <2>3. \A k \in {"fileList", "askText"} : Msg(k, 0) \in ToServerMsg /\ Msg(k, 0) \in Fit'
    BY <1>t, <2>1, MsgTypes DEF Fit, ToServerKinds, Lists, Answers
  <2> QED BY <1>b, <2>1, <2>2, <2>3
<1>5. CASE \/ OfferDone \/ GetSettle \/ GetReturn \/ GetTimeout \/ ExecDone \/ GetClipboard
           \/ Exec \/ DropFuture
  <2>1. UNCHANGED <<texts, pendingSend, asking, offer, pasted, toServer>>
    BY <1>5 DEF OfferDone, GetSettle, GetReturn, GetTimeout, ExecDone, GetClipboard, Exec,
                DropFuture
  <2> QED BY <1>b, <2>1
<1>6. CASE ServerTakesList
  <2>1. /\ UNCHANGED <<texts, pendingSend, asking, pasted>> /\ offer' = Head(toServer)
        /\ toServer # <<>> /\ toServer' = Tail(toServer) /\ Head(toServer).kind \in Lists
    BY <1>6 DEF ServerTakesList, ServerTake
  <2>2. All(toServer', Fit')
    BY <1>a, <1>t, <2>1
  <2>3. Head(toServer) \in Fit
    <3>1. \A x \in Fit : x \in ToServerMsg => x \in Fit
      OBVIOUS
    <3> QED BY <1>t, <2>1, <3>1, TakenAll
  <2>4. offer'.v <= texts /\ (offer'.kind = "fileList" => offer'.v = 0)
    BY <2>1, <2>3 DEF Fit
  <2> QED BY <2>1, <2>2, <2>4 DEF Fresh, NoStalePaste
<1>7. CASE ServerTakesAck \/ ServerAnswers
  <2>1. /\ UNCHANGED <<texts, pendingSend, asking, offer, pasted>>
        /\ toServer # <<>> /\ toServer' = Tail(toServer)
    BY <1>7 DEF ServerTakesAck, ServerAnswers, ServerTake
  <2> QED BY <1>b, <2>1
<1>8. CASE ServerPasted
  <2>1. /\ UNCHANGED <<texts, pendingSend, offer>> /\ asking' = Msg("none", 0)
        /\ toServer # <<>> /\ toServer' = Tail(toServer) /\ Head(toServer).kind \in Answers
        /\ pasted' = [want |-> asking.v, got |-> Head(toServer).v, done |-> TRUE]
    BY <1>8 DEF ServerPasted, ServerTake, Answers
  <2>2. asking'.v = 0 /\ asking'.kind = "none"
    BY <2>1, MsgTypes
  <2>3. \A x \in Fit : x \in Fit'
    BY <1>t, <2>1, <2>2 DEF Fit, ToServerMsg
  <2>4. PICK F : F = Fit'
    OBVIOUS
  <2>5. All(Tail(toServer), F) /\ Head(toServer) \in Fit
    BY <1>t, <2>1, <2>3, <2>4, TakenAll
  <2>6. Head(toServer).v = 0 \/ Head(toServer).v >= asking.v
    BY <2>1, <2>5 DEF Fit
  <2>7. pasted'.got = Head(toServer).v /\ pasted'.want = asking.v
    BY <2>1
  <2> QED BY <1>t, <2>1, <2>2, <2>4, <2>5, <2>6, <2>7 DEF Fresh, NoStalePaste
<1>9. CASE ServerCopy
  <2>1. UNCHANGED <<texts, pendingSend, asking, pasted, toServer>> /\ offer' = Msg("own", 0)
    BY <1>9 DEF ServerCopy
  <2>2. offer'.v = 0
    BY <2>1, MsgTypes
  <2>3. All(toServer', Fit')
    BY <1>a, <1>t, <2>1
  <2> QED BY <1>t, <2>1, <2>2, <2>3 DEF Fresh, NoStalePaste
<1>10. CASE ServerPaste
  <2>1. /\ asking.kind = "none" /\ asking' = offer
        /\ UNCHANGED <<texts, pendingSend, offer, toServer>>
        /\ pasted' = [want |-> 0, got |-> 0, done |-> FALSE]
    BY <1>10 DEF ServerPaste
  <2>2. ~Carries(toServer, Answers)
    BY <2>1, Kinds DEF Matched, AboutText, AboutFile
  <2>3. All(toServer', Fit')
    BY <1>t, <2>1, <2>2 DEF All, Fit, Carries
  <2>4. pasted'.got = 0
    BY <2>1
  <2> QED BY <2>1, <2>3, <2>4 DEF Fresh, NoStalePaste
<1>11. CASE UNCHANGED vars
  BY <1>b, <1>11 DEF vars
<1> QED
  BY <1>1, <1>2, <1>3, <1>4, <1>5, <1>6, <1>7, <1>8, <1>9, <1>10, <1>11
  DEF Next, Command, Elapse, ServerReads

\* However offers, copies and requests cross, a paste never brings a text older
\* than the offer it was made from.
THEOREM NeverStale == Spec => []NoStalePaste
<1>1. Fresh => NoStalePaste
  BY DEF Fresh
<1> QED
  BY TypeInit, TypeStep, MatchedInit, MatchedStep, FreshInit, FreshStep, <1>1, PTL DEF Spec

------------------------------------------------------------------------------
(* A paste of ours is served. As long as no two announcements crossed, a list  *)
(* of the server's that is still to be read is the last word on who owns the   *)
(* clipboard, every request of the server's is ahead of it, and whatever the   *)
(* server can take or ask for from us is a text we still have.                 *)

\* The server asks for our text before it copies anything over it.
AsksFirst(q) ==
  \A i, j \in DOMAIN q : q[i].kind = "list" /\ q[j].kind = "askText" => j < i

LEMMA AsksFirstSent ==
  ASSUME NEW S, NEW q \in Seq(S), NEW m \in S, AsksFirst(q),
         m.kind # "askText" \/ ~Carries(q, {"list"})
  PROVE  AsksFirst(Append(q, m))
<1> DEFINE t == Append(q, m)
<1>1. /\ DOMAIN q = 1..Len(q) /\ DOMAIN t = 1..Len(q) + 1 /\ Len(q) \in Nat
      /\ \A i \in DOMAIN q : t[i] = q[i]
      /\ t[Len(q) + 1] = m
  BY AppendFacts
<1> HIDE DEF t
<1>2. \A i \in DOMAIN t : i \in DOMAIN q \/ i = Len(q) + 1
  BY <1>1
<1>3. ASSUME NEW i \in DOMAIN t, NEW j \in DOMAIN t, t[i].kind = "list", t[j].kind = "askText"
      PROVE  j < i
  <2>1. CASE i \in DOMAIN q /\ j \in DOMAIN q
    BY <1>1, <1>3, <2>1 DEF AsksFirst
  <2>2. CASE i = Len(q) + 1
    <3>1. j \in DOMAIN q
      BY <1>1, <1>2, <1>3, <2>2
    <3> QED BY <1>1, <2>2, <3>1
  <2>3. CASE i \in DOMAIN q /\ j = Len(q) + 1
    BY <1>1, <1>3, <2>3 DEF Carries
  <2> QED BY <1>2, <2>1, <2>2, <2>3
<1> QED BY <1>3 DEF t, AsksFirst

LEMMA AsksFirstTaken ==
  ASSUME NEW S, NEW q \in Seq(S), q # <<>>, AsksFirst(q)
  PROVE  /\ AsksFirst(Tail(q))
         /\ Head(q).kind = "list" => ~Carries(q, {"askText"})
<1> DEFINE t == Tail(q)
<1>1. /\ DOMAIN q = 1..Len(q) /\ DOMAIN t = 1..Len(q) - 1 /\ Len(q) \in Nat \ {0}
      /\ \A i \in DOMAIN t : t[i] = q[i + 1]
      /\ Head(q) = q[1] /\ 1 \in DOMAIN q
  BY TailFacts
<1> HIDE DEF t
<1>2. \A i \in DOMAIN t : i + 1 \in DOMAIN q /\ i \in Nat
  BY <1>1
<1>3. ASSUME NEW i \in DOMAIN t, NEW j \in DOMAIN t, t[i].kind = "list", t[j].kind = "askText"
      PROVE  j < i
  <2>1. j + 1 < i + 1
    BY <1>1, <1>2, <1>3 DEF AsksFirst
  <2> QED BY <1>2, <2>1
<1>4. ASSUME Head(q).kind = "list", NEW j \in DOMAIN q, q[j].kind = "askText" PROVE FALSE
  <2>1. j < 1
    BY <1>1, <1>4 DEF AsksFirst
  <2> QED BY <1>1, <2>1
<1> QED BY <1>3, <1>4 DEF t, AsksFirst, Carries

\* A text answer that carries a text.
Real == {m \in ToServerMsg : m.kind = "text" => m.v # 0}

\* When the server copied last, nothing of ours is on its way to undo it.
LastWord ==
  Carries(toClient, {"list"}) => ~Carries(toServer, Lists) /\ offer.kind = "own"

\* Nobody takes our text for what is on the clipboard.
NotOurs ==
  /\ ~Carries(toServer, {"textList"}) /\ offer.kind # "textList"
  /\ ~Carries(toClient, {"askText"}) /\ "text" \notin requested

\* Until announcements cross, both sides agree on whose the clipboard is.
Owned ==
  ~raced => /\ LastWord /\ AsksFirst(toClient)
            /\ pendingSend = 0 => NotOurs
            /\ All(toServer, Real)
            /\ PasteServed

LEMMA OwnedInit == Init => Owned
<1> SUFFICES ASSUME Init PROVE Owned
  OBVIOUS
<1>1. \A K : ~Carries(toServer, K)
  BY DEF Init, Carries
<1>2. AsksFirst(toClient) /\ ~Carries(toClient, {"askText"}) /\ ~Carries(toClient, {"list"})
  BY DEF Init, AsksFirst, Carries, Msg
<1>3. All(toServer, Real)
  BY DEF Init, All
<1> QED BY <1>1, <1>2, <1>3 DEF Init, Owned, LastWord, NotOurs, PasteServed, Msg

\* Sending or taking any message but an empty text keeps what is sent real.
LEMMA RealKept ==
  ASSUME TypeOK, All(toServer, Real),
         \/ toServer' = toServer
         \/ \E m \in Real : toServer' = Append(toServer, m)
         \/ toServer # <<>> /\ toServer' = Tail(toServer)
  PROVE  All(toServer', Real)
<1>1. toServer \in Seq(ToServerMsg) /\ \A m \in Real : m \in ToServerMsg
  BY DEF TypeOK, Real
<1>2. CASE toServer' = toServer
  BY <1>2
<1>3. CASE \E m \in Real : toServer' = Append(toServer, m)
  <2>1. PICK m \in Real : toServer' = Append(toServer, m)
    BY <1>3
  <2>2. All(Append(toServer, m), Real)
    BY <1>1, SentAll
  <2> QED BY <2>1, <2>2
<1>4. CASE toServer # <<>> /\ toServer' = Tail(toServer)
  <2>1. All(Tail(toServer), Real)
    BY <1>1, <1>4, TakenAll
  <2> QED BY <1>4, <2>1
<1> QED BY <1>2, <1>3, <1>4

\* A race is never forgotten.
LEMMA RacedStays == [Next]_vars /\ ~raced' => ~raced
<1> SUFFICES ASSUME [Next]_vars, raced PROVE raced'
  BY PTL
<1> USE DEF net, server, ghost, client
<1>1. CASE CheckFormatListRequest \/ SetClipboard \/ SendClipboardFile \/ ServerCopy
  <2>1. (raced' = (raced \/ Carries(toClient, {"list"}))) \/ (raced' = (raced \/ Carries(toServer, Lists)))
    BY <1>1 DEF CheckFormatListRequest, Advertise, SetClipboard, SendClipboardFile, Announce,
                ServerCopy
  <2> QED BY <2>1
<1>2. CASE \/ Receive \/ CheckClipboardDataRequest \/ CheckFileListDataRequest
           \/ GetClipboard \/ Exec \/ Elapse \/ DropFuture \/ ServerReads \/ ServerPaste
           \/ UNCHANGED vars
  <2>1. raced' = raced
    BY <1>2 DEF Receive, OnRequestFormatList, OnReady, OnRemoteCopy, OnFormatDataRequest,
       OnFormatDataResponse, CheckClipboardDataRequest, CheckFileListDataRequest,
       GetClipboard, Exec, Elapse, OfferDone, GetSettle, GetPaste, GetReturn, GetTimeout,
       ExecDone, DropFuture, ServerReads, ServerTakesList, ServerTakesAck, ServerAnswers,
       ServerPasted, ServerPaste, vars
  <2> QED BY <2>1
<1> QED BY <1>1, <1>2 DEF Next, Check, Command

LEMMA OwnedStep == TypeOK /\ Matched /\ Fresh /\ Owned /\ [Next]_vars => Owned'
<1> SUFFICES ASSUME TypeOK, Matched, Fresh, Owned, [Next]_vars, ~raced'
             PROVE  /\ LastWord' /\ AsksFirst(toClient')
                    /\ (pendingSend = 0 => NotOurs)'
                    /\ All(toServer', Real)
                    /\ PasteServed'
  BY DEF Owned
<1> USE DEF net, server, ghost, client
<1>o. /\ ~raced /\ LastWord /\ AsksFirst(toClient)
      /\ pendingSend = 0 => NotOurs
      /\ All(toServer, Real)
      /\ PasteServed
  BY RacedStays DEF Owned
<1>q. toServer \in Seq(ToServerMsg) /\ toClient \in Seq(ToClientMsg)
  BY DEF TypeOK
<1>f. \A q : AsksFirst(q)' <=> AsksFirst(q)
  BY DEF AsksFirst
\* An announcement that crossed nothing.
<1>a. ASSUME NEW k \in Lists, NEW n \in Nat, Announce(k, n)
      PROVE  /\ ~Carries(toClient, {"list"}) /\ toServer' = Append(toServer, Msg(k, n))
             /\ All(toServer', Real)
             /\ Carries(toServer', {"textList"}) => Carries(toServer, {"textList"}) \/ k = "textList"
  <2>1. raced' = (raced \/ Carries(toClient, {"list"})) /\ toServer' = Append(toServer, Msg(k, n))
    BY <1>a DEF Announce
  <2>2. Msg(k, n) \in Real
    BY MsgTypes DEF Real, ToServerKinds, Lists
  <2>3. Msg(k, n) \in ToServerMsg
    BY <2>2 DEF Real
  <2>4. All(toServer', Real)
    BY <1>o, <2>1, <2>2, RealKept
  <2>5. ~Carries(toClient, {"list"})
    BY <2>1
  <2> QED BY <2>1, <2>3, <2>4, <2>5, SentServer, MsgTypes
<1>1. CASE OnRequestFormatList \/ OnReady \/ OnFormatDataResponse
  <2>1. /\ UNCHANGED <<toServer, offer, pendingSend, pasted>>
        /\ toClient # <<>> /\ toClient' = Tail(toClient)
        /\ "text" \in requested' => "text" \in requested
    BY <1>1 DEF OnRequestFormatList, OnReady, OnFormatDataResponse, Incoming
  <2>2. AsksFirst(toClient')
    BY <1>o, <1>q, <2>1, AsksFirstTaken
  <2> QED BY <1>o, <2>1, <2>2, TakenClient DEF LastWord, NotOurs, PasteServed
<1>2. CASE OnRemoteCopy
  <2>1. /\ UNCHANGED <<offer, pasted>> /\ pendingSend' = 0 /\ requested = {} /\ requested' = {}
        /\ toClient # <<>> /\ toClient' = Tail(toClient) /\ Head(toClient).kind = "list"
        /\ toServer' = Append(toServer, Msg("ack", 0))
    BY <1>2 DEF OnRemoteCopy, Incoming, Disown
  <2>2. AsksFirst(toClient') /\ ~Carries(toClient, {"askText"})
    BY <1>o, <1>q, <2>1, AsksFirstTaken
  <2>3. Carries(toClient, {"list"}) /\ ~Carries(toClient', {"askText"})
    BY <2>1, <2>2, TakenClient
  <2>4. ~Carries(toServer, Lists) /\ offer.kind = "own"
    BY <1>o, <2>3 DEF LastWord
  <2>5. Msg("ack", 0) \in Real /\ Msg("ack", 0) \in ToServerMsg
    BY MsgTypes DEF Real, ToServerKinds
  <2>6. ~Carries(toServer', Lists) /\ ~Carries(toServer', {"textList"})
    BY <2>1, <2>4, <2>5, Kinds, SentServer, MsgTypes DEF Lists
  <2>7. All(toServer', Real)
    BY <1>o, <2>1, <2>5, RealKept
  <2> QED BY <1>o, <2>1, <2>2, <2>3, <2>4, <2>6, <2>7 DEF LastWord, NotOurs, PasteServed
<1>3. CASE OnFormatDataRequest
  <2>1. /\ UNCHANGED <<toServer, offer, pendingSend, pasted>>
        /\ toClient # <<>> /\ toClient' = Tail(toClient)
        /\ "text" \in requested' => "text" \in requested \/ Head(toClient).kind = "askText"
    BY <1>3 DEF OnFormatDataRequest, Incoming
  <2>2. AsksFirst(toClient')
    BY <1>o, <1>q, <2>1, AsksFirstTaken
  <2> QED BY <1>o, <2>1, <2>2, TakenClient DEF LastWord, NotOurs, PasteServed
<1>4. CASE CheckFormatListRequest
  <2>1. UNCHANGED <<toClient, offer, pendingSend, pasted>> /\ requested' \subseteq requested
    BY <1>4 DEF CheckFormatListRequest
  <2>2. PICK k \in Lists, n \in Nat : Announce(k, n) /\ (k = "textList" => pendingSend # 0)
    BY <1>4 DEF CheckFormatListRequest, Advertise, Lists, TypeOK
  <2> QED BY <1>o, <1>a, <1>f, <2>1, <2>2 DEF LastWord, NotOurs, PasteServed
<1>5. CASE CheckClipboardDataRequest
  <2>1. UNCHANGED <<toClient, offer, pendingSend, pasted>> /\ requested' \subseteq requested
          /\ "text" \in requested /\ toServer' = Append(toServer, Msg("text", pendingSend))
    BY <1>5 DEF CheckClipboardDataRequest, KeepText, TextAnswer
  <2>2. pendingSend # 0
    BY <1>o, <2>1 DEF NotOurs
  <2>3. Msg("text", pendingSend) \in Real /\ Msg("text", pendingSend) \in ToServerMsg
    <3>1. pendingSend \in Nat /\ "text" \in ToServerKinds
      BY DEF TypeOK, ToServerKinds
    <3>2. Msg("text", pendingSend) \in ToServerMsg /\ Msg("text", pendingSend).v = pendingSend
      BY <3>1, MsgTypes
    <3> QED BY <2>2, <3>2 DEF Real
  <2>4. All(toServer', Real)
    BY <1>o, <2>1, <2>3, RealKept
  <2>5. Carries(toServer', Lists) => Carries(toServer, Lists)
    BY <2>1, <2>3, SentServer, MsgTypes DEF Lists
  <2> QED BY <1>o, <1>f, <2>1, <2>2, <2>4, <2>5 DEF LastWord, NotOurs, PasteServed
<1>6. CASE CheckFileListDataRequest
  <2>1. UNCHANGED <<toClient, offer, pendingSend, pasted>> /\ requested' \subseteq requested
          /\ (toServer' = toServer \/ toServer' = Append(toServer, Msg("file", 0)))
    BY <1>6 DEF CheckFileListDataRequest
  <2>2. Msg("file", 0) \in Real /\ Msg("file", 0) \in ToServerMsg
    BY MsgTypes DEF Real, ToServerKinds
  <2>3. All(toServer', Real)
    BY <1>o, <2>1, <2>2, RealKept
  <2>4. \A K \in {Lists, {"textList"}} : Carries(toServer', K) => Carries(toServer, K)
    BY <2>1, <2>2, SentServer, MsgTypes DEF Lists
  <2> QED BY <1>o, <1>f, <2>1, <2>3, <2>4 DEF LastWord, NotOurs, PasteServed
<1>7. CASE SetClipboard
  <2>1. UNCHANGED <<toClient, offer, pasted>> /\ pendingSend' = texts + 1
          /\ Announce("textList", texts + 1) /\ texts \in Nat
    BY <1>7 DEF SetClipboard, Store, TypeOK
  <2> QED BY <1>o, <1>a, <1>f, <2>1 DEF LastWord, PasteServed, Lists
<1>8. CASE SendClipboardFile
  <2>1. UNCHANGED <<toClient, offer, pendingSend, pasted>> /\ requested' \subseteq requested
          /\ Announce("fileList", 0)
    BY <1>8 DEF SendClipboardFile
  <2> QED BY <1>o, <1>a, <1>f, <2>1 DEF LastWord, NotOurs, PasteServed, Lists
<1>9. CASE GetPaste
  <2>1. UNCHANGED <<toClient, offer, pendingSend, pasted, requested>>
          /\ (toServer' = toServer \/ toServer' = Append(toServer, Msg("askText", 0)))
    BY <1>9 DEF GetPaste
  <2>2. Msg("askText", 0) \in Real /\ Msg("askText", 0) \in ToServerMsg
    BY MsgTypes DEF Real, ToServerKinds
  <2>3. All(toServer', Real)
    BY <1>o, <2>1, <2>2, RealKept
  <2>4. \A K \in {Lists, {"textList"}} : Carries(toServer', K) => Carries(toServer, K)
    BY <2>1, <2>2, SentServer, MsgTypes DEF Lists
  <2> QED BY <1>o, <1>f, <2>1, <2>3, <2>4 DEF LastWord, NotOurs, PasteServed
<1>10. CASE \/ OfferDone \/ GetSettle \/ GetReturn \/ GetTimeout \/ ExecDone \/ GetClipboard
            \/ Exec \/ DropFuture
  <2>1. UNCHANGED <<net, offer, pendingSend, pasted>> /\ requested' \subseteq requested
    BY <1>10 DEF OfferDone, GetSettle, GetReturn, GetTimeout, ExecDone, GetClipboard, Exec,
                 DropFuture
  <2> QED BY <1>o, <1>f, <2>1 DEF LastWord, NotOurs, PasteServed
<1>11. CASE ServerTakesList
  <2>1. /\ UNCHANGED <<pendingSend, requested, pasted>> /\ offer' = Head(toServer)
        /\ toServer # <<>> /\ toServer' = Tail(toServer) /\ Head(toServer).kind \in Lists
        /\ toClient' = Append(toClient, Msg("ack", 0))
    BY <1>11 DEF ServerTakesList, ServerTake
  <2>2. Msg("ack", 0) \in ToClientMsg /\ Msg("ack", 0).kind = "ack"
    BY MsgTypes DEF ToClientKinds
  <2>3. Carries(toServer, Lists) /\ ~Carries(toClient, {"list"})
    BY <1>o, <2>1, TakenServer DEF LastWord
  <2>4. ~Carries(toClient', {"list"})
          /\ (Carries(toClient', {"askText"}) => Carries(toClient, {"askText"}))
    BY <2>1, <2>2, <2>3, SentClient
  <2>5. AsksFirst(toClient')
    BY <1>o, <1>q, <2>1, <2>2, AsksFirstSent
  <2>6. All(toServer', Real)
    BY <1>o, <2>1, RealKept
  <2>7. pendingSend = 0 => Head(toServer).kind # "textList" /\ ~Carries(toServer', {"textList"})
    BY <1>o, <2>1, TakenServer DEF NotOurs
  <2> QED BY <1>o, <2>1, <2>4, <2>5, <2>6, <2>7 DEF LastWord, NotOurs, PasteServed
<1>12. CASE ServerTakesAck \/ ServerAnswers
  <2>1. /\ UNCHANGED <<pendingSend, requested, pasted, offer>>
        /\ toServer # <<>> /\ toServer' = Tail(toServer)
        /\ \/ toClient' = toClient
           \/ \E n \in Nat : toClient' = Append(toClient, Msg("text", n))
    BY <1>12 DEF ServerTakesAck, ServerAnswers, ServerTake, TypeOK
  <2>2. \A n \in Nat : Msg("text", n) \in ToClientMsg /\ Msg("text", n).kind = "text"
    BY MsgTypes DEF ToClientKinds
  <2>3. \A K \in {{"list"}, {"askText"}} : Carries(toClient', K) => Carries(toClient, K)
    BY <2>1, <2>2, SentClient
  <2>4. AsksFirst(toClient')
    BY <1>o, <1>q, <2>1, <2>2, AsksFirstSent
  <2>5. All(toServer', Real)
    BY <1>o, <2>1, RealKept
  <2> QED BY <1>o, <2>1, <2>3, <2>4, <2>5, TakenServer DEF LastWord, NotOurs, PasteServed
<1>13. CASE ServerPasted
  <2>1. /\ UNCHANGED <<pendingSend, requested, offer, toClient>>
        /\ toServer # <<>> /\ toServer' = Tail(toServer) /\ Head(toServer).kind \in {"text", "file"}
        /\ pasted' = [want |-> asking.v, got |-> Head(toServer).v, done |-> TRUE]
    BY <1>13 DEF ServerPasted, ServerTake
  <2>2. All(toServer', Real)
    BY <1>o, <2>1, RealKept
  <2>3. asking.v # 0 => Head(toServer).v # 0
    <3>1. CASE Head(toServer).kind = "text"
      <4>1. Head(toServer) \in Real
        BY <1>o, <1>q, <2>1, TakenAll
      <4> QED BY <3>1, <4>1 DEF Real
    <3>2. CASE Head(toServer).kind = "file"
      <4>1. Carries(toServer, {"file"})
        BY <2>1, <3>2, TakenServer
      <4> QED BY <4>1 DEF Matched, AboutFile, Fresh
    <3> QED BY <2>1, <3>1, <3>2
  <2>4. pasted'.want = asking.v /\ pasted'.got = Head(toServer).v
    BY <2>1
  <2>5. PasteServed'
    BY <2>3, <2>4 DEF PasteServed
  <2> QED BY <1>o, <1>f, <2>1, <2>2, <2>5, TakenServer DEF LastWord, NotOurs
<1>14. CASE ServerCopy
  <2>1. /\ UNCHANGED <<pendingSend, requested, toServer, pasted>> /\ offer' = Msg("own", 0)
        /\ toClient' = Append(toClient, Msg("list", 0))
        /\ raced' = (raced \/ Carries(toServer, Lists))
    BY <1>14 DEF ServerCopy
  <2>2. ~Carries(toServer, Lists)
    BY <2>1
  <2>3. Msg("list", 0) \in ToClientMsg /\ Msg("list", 0).kind = "list"
    BY MsgTypes DEF ToClientKinds
  <2>4. AsksFirst(toClient')
    BY <1>o, <1>q, <2>1, <2>3, AsksFirstSent
  <2>5. Carries(toClient', {"askText"}) => Carries(toClient, {"askText"})
    BY <2>1, <2>3, SentClient
  <2>6. offer'.kind = "own"
    BY <2>1, MsgTypes
  <2> QED BY <1>o, <2>1, <2>2, <2>4, <2>5, <2>6 DEF LastWord, NotOurs, PasteServed
<1>15. CASE ServerPaste
  <2>1. /\ UNCHANGED <<pendingSend, requested, toServer, offer>>
        /\ pasted' = [want |-> 0, got |-> 0, done |-> FALSE]
        /\ \/ offer.kind = "textList" /\ toClient' = Append(toClient, Msg("askText", 0))
           \/ offer.kind = "fileList" /\ toClient' = Append(toClient, Msg("askFile", 0))
    BY <1>15 DEF ServerPaste
  <2>2. ~Carries(toClient, {"list"})
    BY <1>o, <2>1 DEF LastWord
  <2>3. \A k \in {"askText", "askFile"} : Msg(k, 0) \in ToClientMsg /\ Msg(k, 0).kind = k
    BY MsgTypes DEF ToClientKinds
  <2>4. AsksFirst(toClient') /\ ~Carries(toClient', {"list"})
    <3>1. PICK m \in ToClientMsg : m.kind \in {"askText", "askFile"} /\ toClient' = Append(toClient, m)
      BY <2>1, <2>3
    <3>2. AsksFirst(toClient')
      BY <1>o, <1>q, <2>2, <3>1, AsksFirstSent
    <3>3. ~Carries(toClient', {"list"})
      BY <2>2, <3>1, SentClient
    <3> QED BY <3>2, <3>3
  <2>5. pendingSend = 0 => ~Carries(toClient', {"askText"})
    BY <1>o, <2>1, <2>3, SentClient DEF NotOurs
  <2>6. PasteServed'
    BY <2>1 DEF PasteServed
  <2> QED BY <1>o, <2>1, <2>4, <2>5, <2>6 DEF LastWord, NotOurs
<1>16. CASE UNCHANGED vars
  BY <1>o, <1>f, <1>16 DEF vars, LastWord, NotOurs, PasteServed
<1> QED
  BY <1>1, <1>2, <1>3, <1>4, <1>5, <1>6, <1>7, <1>8, <1>9, <1>10, <1>11, <1>12, <1>13,
     <1>14, <1>15, <1>16
  DEF Next, Receive, Check, Command, Elapse, ServerReads

\* However copies, offers, pastes and commands interleave, as long as no two
\* announcements cross every paste of a text of ours gets one.
THEOREM AlwaysServed == Spec => []PasteServed
<1>1. Fresh /\ Owned => (~raced => PasteServed)
  BY DEF Owned
<1>2. (~raced => PasteServed) => PasteServed
  BY DEF PasteServed
<1> QED
  BY TypeInit, TypeStep, MatchedInit, MatchedStep, FreshInit, FreshStep, OwnedInit,
     OwnedStep, <1>1, <1>2, PTL DEF Spec

------------------------------------------------------------------------------
(* get-clipboard returns what the server had when it was asked, or newer.      *)
(* Unless an earlier get gave up, there is at most one request for the         *)
(* server's text or answer to one under way, and only while a get waits.       *)

\* A get's question, and the answer to it, under way.
Asked == Carries(toServer, {"askText"})
Told == Carries(toClient, {"text"})

\* An answer no older than the server's text was when the get began.
Newer == {m \in ToClientMsg : m.kind = "text" => m.v = 0 \/ m.v >= floor}

\* One question or answer, and only while a get waits for it.
OneGet ==
  /\ One(toServer, {"askText"}) /\ One(toClient, {"text"}) /\ ~(Asked /\ Told)
  /\ pc # "wait" \/ received # 0 => ~Asked /\ ~Told

\* What a get has already is no older either.
Gotten ==
  /\ got # 0 => got >= floor
  /\ pc \in {"get", "settle"} => received = 0
  /\ pc = "wait" /\ received # 0 => received >= floor

\* Until a get gives up, what it returns is current.
Current ==
  /\ floor <= copies
  /\ ~late => OneGet /\ Gotten /\ All(toClient, Newer)

LEMMA CurrentInit == Init => Current
<1> SUFFICES ASSUME Init PROVE Current
  OBVIOUS
<1>1. One(toServer, {"askText"}) /\ One(toClient, {"text"}) /\ ~Asked /\ ~Told
  BY DEF Init, One, Asked, Told, Carries, Msg
<1>2. All(toClient, Newer)
  BY DEF Init, All, Newer, Msg, ToClientMsg, ToClientKinds
<1> QED BY <1>1, <1>2 DEF Init, Current, OneGet, Gotten

\* What the client may be told is kept by sending what is newer and by taking.
LEMMA NewerKept ==
  ASSUME TypeOK, All(toClient, Newer),
         \/ toClient' = toClient
         \/ \E m \in Newer : toClient' = Append(toClient, m)
         \/ toClient # <<>> /\ toClient' = Tail(toClient)
  PROVE  All(toClient', Newer)
<1>1. toClient \in Seq(ToClientMsg) /\ \A m \in Newer : m \in ToClientMsg
  BY DEF TypeOK, Newer
<1>2. CASE toClient' = toClient
  BY <1>2
<1>3. CASE \E m \in Newer : toClient' = Append(toClient, m)
  <2>1. PICK m \in Newer : toClient' = Append(toClient, m)
    BY <1>3
  <2>2. All(Append(toClient, m), Newer)
    BY <1>1, SentAll
  <2> QED BY <2>1, <2>2
<1>4. CASE toClient # <<>> /\ toClient' = Tail(toClient)
  <2>1. All(Tail(toClient), Newer)
    BY <1>1, <1>4, TakenAll
  <2> QED BY <1>4, <2>1
<1> QED BY <1>2, <1>3, <1>4

LEMMA CurrentStep == TypeOK /\ FileStays /\ Current /\ [Next]_vars => Current'
<1> SUFFICES ASSUME TypeOK, FileStays, Current, [Next]_vars PROVE Current'
  OBVIOUS
<1> USE DEF net, server, ghost, client
<1>t. /\ floor \in Nat /\ copies \in Nat /\ received \in Nat /\ floor <= copies
      /\ toClient \in Seq(ToClientMsg) /\ toServer \in Seq(ToServerMsg)
  BY DEF TypeOK, Current
\* Nothing of a get moves but the channels, which lose or gain other messages.
<1>a. ASSUME UNCHANGED <<floor, got, late, received>>, copies' \in Nat, copies' >= copies,
             pc' = pc \/ (pc' \notin {"get", "settle", "wait"} /\ pc # "wait"),
             \/ toServer' = toServer
             \/ \E m \in ToServerMsg : m.kind # "askText" /\ toServer' = Append(toServer, m)
             \/ toServer # <<>> /\ toServer' = Tail(toServer),
             \/ toClient' = toClient
             \/ \E m \in ToClientMsg : m.kind # "text" /\ toClient' = Append(toClient, m)
             \/ toClient # <<>> /\ toClient' = Tail(toClient)
      PROVE  Current'
  <2>1. floor' <= copies'
    BY <1>t, <1>a
  <2>2. One(toServer, {"askText"}) => One(toServer', {"askText"})
    BY <1>a, SentServer, TakenServer
  <2>3. Asked' => Asked
    BY <1>a, SentServer, TakenServer DEF Asked
  <2>4. One(toClient, {"text"}) => One(toClient', {"text"})
    BY <1>a, SentClient, TakenClient
  <2>5. Told' => Told
    BY <1>a, SentClient, TakenClient DEF Told
  <2>6. OneGet => OneGet'
    BY <1>a, <2>2, <2>3, <2>4, <2>5 DEF OneGet, One
  <2>7. Gotten => Gotten'
    BY <1>a DEF Gotten
  <2>8. All(toClient, Newer) => All(toClient', Newer)
    <3>1. \A m \in ToClientMsg : m.kind # "text" => m \in Newer
      BY DEF Newer
    <3> QED BY <1>a, <3>1, NewerKept
  <2>9. Newer' = Newer
    BY <1>a DEF Newer
  <2> QED BY <1>a, <2>1, <2>6, <2>7, <2>8, <2>9 DEF Current
<1>1. CASE OnRequestFormatList \/ OnReady \/ OnFormatDataRequest \/ OnRemoteCopy
  <2>1. /\ UNCHANGED <<floor, got, late, received, copies, pc>>
        /\ toClient # <<>> /\ toClient' = Tail(toClient)
        /\ toServer' = toServer \/ toServer' = Append(toServer, Msg("ack", 0))
    BY <1>1 DEF OnRequestFormatList, OnReady, OnFormatDataRequest, OnRemoteCopy, Incoming
  <2>2. Msg("ack", 0) \in ToServerMsg /\ Msg("ack", 0).kind # "askText"
    BY MsgTypes DEF ToServerKinds
  <2> QED BY <1>a, <1>t, <2>1, <2>2
<1>2. CASE OnFormatDataResponse
  <2>1. /\ UNCHANGED <<floor, got, late, copies, pc, toServer>>
        /\ toClient # <<>> /\ toClient' = Tail(toClient) /\ Head(toClient).kind = "text"
        /\ received' = IF Head(toClient).v = 0 THEN received ELSE Head(toClient).v
    BY <1>2 DEF OnFormatDataResponse, Incoming
  <2>2. ASSUME ~late
        PROVE  OneGet' /\ Gotten' /\ All(toClient', Newer)
    <3>1. OneGet /\ Gotten /\ All(toClient, Newer)
      BY <2>2 DEF Current
    <3>2. Told /\ ~Told' /\ One(toClient', {"text"})
      BY <2>1, <3>1, TakenClient DEF Told, OneGet
    <3>3. ~Asked /\ pc = "wait" /\ received = 0
      BY <3>1, <3>2 DEF OneGet
    <3>4. ~Asked'
      BY <2>1, <3>3 DEF Asked
    <3>5. Head(toClient) \in Newer
      BY <1>t, <2>1, <3>1, TakenAll
    <3>6. received' = 0 \/ received' >= floor
      BY <1>t, <2>1, <3>3, <3>5 DEF Newer
    <3>7. One(toServer', {"askText"})
      BY <2>1, <3>1 DEF OneGet
    <3>8. Gotten'
      BY <2>1, <3>1, <3>3, <3>6 DEF Gotten
    <3>9. All(toClient', Newer)
      BY <2>1, <3>1, NewerKept
    <3> QED BY <3>2, <3>4, <3>7, <3>8, <3>9 DEF OneGet
  <2>3. Newer' = Newer
    BY <2>1 DEF Newer
  <2> QED BY <1>t, <2>1, <2>2, <2>3 DEF Current
<1>3. CASE CheckFormatListRequest \/ CheckClipboardDataRequest \/ CheckFileListDataRequest
  <2>1. UNCHANGED <<floor, got, late, received, copies, toClient>> /\ pc' = pc
    BY <1>3 DEF CheckFormatListRequest, CheckClipboardDataRequest, CheckFileListDataRequest,
                FileStays, NoFileYet
  <2>2. \/ toServer' = toServer
        \/ \E k \in {"textList", "emptyList", "text", "file"}, n \in Nat :
             toServer' = Append(toServer, Msg(k, n))
    BY <1>3 DEF CheckFormatListRequest, CheckClipboardDataRequest, TextAnswer,
                CheckFileListDataRequest, Advertise, Announce, TypeOK
  <2>3. \A k \in {"textList", "emptyList", "text", "file"}, n \in Nat :
          Msg(k, n) \in ToServerMsg /\ Msg(k, n).kind # "askText"
    BY MsgTypes DEF ToServerKinds, Lists
  <2> QED BY <1>a, <1>t, <2>1, <2>2, <2>3
<1>4. CASE SetClipboard \/ SendClipboardFile
  <2>1. /\ UNCHANGED <<floor, got, late, received, copies, toClient>>
        /\ pc = "idle" /\ pc' \in {"set", "send"}
    BY <1>4 DEF SetClipboard, SendClipboardFile, Free
  <2>2. \E k \in {"textList", "fileList"}, n \in Nat : toServer' = Append(toServer, Msg(k, n))
    BY <1>4 DEF SetClipboard, SendClipboardFile, Announce, TypeOK
  <2>3. \A k \in {"textList", "fileList"}, n \in Nat :
          Msg(k, n) \in ToServerMsg /\ Msg(k, n).kind # "askText"
    BY MsgTypes DEF ToServerKinds, Lists
  <2> QED BY <1>a, <1>t, <2>1, <2>2, <2>3
<1>5. CASE OfferDone \/ ExecDone \/ Exec \/ DropFuture
  <2>1. UNCHANGED <<floor, got, late, received, copies, net>>
          /\ (pc' = pc \/ (pc' \in {"idle", "exec"} /\ pc # "wait"))
    BY <1>5 DEF OfferDone, ExecDone, Exec, DropFuture, Free
  <2> QED BY <1>a, <1>t, <2>1
<1>6. CASE GetClipboard
  <2>1. /\ floor' = copies /\ got' = 0 /\ received' = 0 /\ pc = "idle" /\ pc' = "get"
        /\ UNCHANGED <<net, copies, late>>
    BY <1>6 DEF GetClipboard, Free, Forget
  <2>2. ASSUME ~late PROVE OneGet' /\ Gotten' /\ All(toClient, Newer')
    <3>1. OneGet /\ Gotten /\ All(toClient, Newer) /\ ~Asked /\ ~Told
      BY <2>1, <2>2 DEF Current, OneGet
    <3>2. OneGet' /\ Gotten'
      BY <2>1, <3>1 DEF OneGet, Gotten, Asked, Told
    <3>3. All(toClient, Newer')
      BY <3>1 DEF All, Newer, Told, Carries
    <3> QED BY <3>2, <3>3
  <2> QED BY <1>t, <2>1, <2>2 DEF Current
<1>7. CASE GetSettle
  <2>1. UNCHANGED <<floor, got, late, received, copies, net>> /\ pc = "get" /\ pc' = "settle"
    BY <1>7 DEF GetSettle
  <2> QED BY <1>t, <2>1 DEF Current, OneGet, Gotten, Asked, Told, Newer
<1>8. CASE GetPaste
  <2>1. /\ UNCHANGED <<floor, got, late, received, copies, toClient>> /\ pc = "settle"
        /\ \/ toServer' = Append(toServer, Msg("askText", 0)) /\ pc' = "wait"
           \/ toServer' = toServer /\ pc' = "idle"
    BY <1>8 DEF GetPaste
  <2>2. Msg("askText", 0) \in ToServerMsg /\ Msg("askText", 0).kind = "askText"
    BY MsgTypes DEF ToServerKinds
  <2>3. ASSUME ~late PROVE OneGet' /\ Gotten' /\ All(toClient', Newer)
    <3>1. OneGet /\ Gotten /\ All(toClient, Newer) /\ ~Asked /\ ~Told /\ received = 0
      BY <2>1, <2>3 DEF Current, OneGet, Gotten
    <3>2. One(toServer', {"askText"}) /\ (pc' # "wait" => ~Asked')
      BY <2>1, <2>2, <3>1, SentServer DEF OneGet, Asked
    <3>3. ~Told' /\ One(toClient', {"text"})
      BY <2>1, <3>1 DEF Told, OneGet
    <3> QED BY <2>1, <3>1, <3>2, <3>3 DEF OneGet, Gotten
  <2>4. Newer' = Newer
    BY <2>1 DEF Newer
  <2> QED BY <1>t, <2>1, <2>3, <2>4 DEF Current
<1>9. CASE GetReturn
  <2>1. /\ UNCHANGED <<floor, late, received, copies, net>>
        /\ pc = "wait" /\ pc' = "idle" /\ received # 0 /\ got' = received
    BY <1>9 DEF GetReturn
  <2> QED BY <1>t, <2>1 DEF Current, OneGet, Gotten, Asked, Told, Newer
<1>10. CASE GetTimeout
  <2>1. late' /\ UNCHANGED <<floor, copies>>
    BY <1>10 DEF GetTimeout
  <2> QED BY <1>t, <2>1 DEF Current
<1>11. CASE ServerTakesList \/ ServerTakesAck \/ ServerPasted
  <2>1. /\ UNCHANGED <<floor, got, late, received, copies, pc>>
        /\ toServer # <<>> /\ toServer' = Tail(toServer)
        /\ toClient' = toClient \/ toClient' = Append(toClient, Msg("ack", 0))
    BY <1>11 DEF ServerTakesList, ServerTakesAck, ServerPasted, ServerTake
  <2>2. Msg("ack", 0) \in ToClientMsg /\ Msg("ack", 0).kind # "text"
    BY MsgTypes DEF ToClientKinds
  <2> QED BY <1>a, <1>t, <2>1, <2>2
<1>12. CASE ServerAnswers
  <2>1. /\ UNCHANGED <<floor, got, late, received, copies, pc>>
        /\ toServer # <<>> /\ toServer' = Tail(toServer) /\ Head(toServer).kind = "askText"
    BY <1>12 DEF ServerAnswers, ServerTake
  <2>2. PICK n \in Nat : (n = 0 \/ n = copies) /\ toClient' = Append(toClient, Msg("text", n))
    BY <1>t, <1>12 DEF ServerAnswers
  <2>3. Msg("text", n) \in ToClientMsg /\ Msg("text", n).kind = "text" /\ Msg("text", n).v = n
    BY MsgTypes DEF ToClientKinds
  <2>4. Msg("text", n) \in Newer
    BY <1>t, <2>2, <2>3 DEF Newer
  <2>5. ASSUME ~late PROVE OneGet' /\ Gotten' /\ All(toClient', Newer)
    <3>1. OneGet /\ Gotten /\ All(toClient, Newer)
      BY <2>5 DEF Current
    <3>2. Asked /\ ~Asked' /\ One(toServer', {"askText"})
      BY <2>1, <3>1, TakenServer DEF Asked, OneGet
    <3>3. pc = "wait" /\ received = 0 /\ ~Told
      BY <3>1, <3>2 DEF OneGet
    <3>4. One(toClient', {"text"})
      BY <2>2, <2>3, <3>1, <3>3, SentClient DEF OneGet, Told
    <3>5. All(toClient', Newer)
      BY <2>2, <2>4, <3>1, NewerKept
    <3> QED BY <2>1, <3>1, <3>2, <3>3, <3>4, <3>5 DEF OneGet, Gotten
  <2>6. Newer' = Newer
    BY <2>1 DEF Newer
  <2> QED BY <1>t, <2>1, <2>5, <2>6 DEF Current
<1>13. CASE ServerCopy \/ ServerPaste
  <2>1. /\ UNCHANGED <<floor, got, late, received, pc, toServer>> /\ copies' \in {copies, copies + 1}
        /\ \E k \in {"list", "askText", "askFile"} : toClient' = Append(toClient, Msg(k, 0))
    BY <1>13 DEF ServerCopy, ServerPaste
  <2>2. \A k \in {"list", "askText", "askFile"} :
          Msg(k, 0) \in ToClientMsg /\ Msg(k, 0).kind # "text"
    BY MsgTypes DEF ToClientKinds
  <2> QED BY <1>a, <1>t, <2>1, <2>2
<1>14. CASE UNCHANGED vars
  BY <1>a, <1>t, <1>14 DEF vars
<1> QED
  BY <1>1, <1>2, <1>3, <1>4, <1>5, <1>6, <1>7, <1>8, <1>9, <1>10, <1>11, <1>12, <1>13, <1>14
  DEF Next, Receive, Check, Command, Elapse, ServerReads

\* Unless an earlier get gave up on an answer that came late, get-clipboard
\* never returns a text older than the server's when it was asked.
THEOREM AlwaysCurrent == Spec => []GetCurrent
<1>1. Current => GetCurrent
  BY DEF Current, Gotten, GetCurrent
<1> QED
  BY TypeInit, TypeStep, FileInit, FileStep, CurrentInit, CurrentStep, <1>1, PTL DEF Spec

------------------------------------------------------------------------------
(* A text once set stays on offer, or about to be, until the server copies:   *)
(* behind the last announcement of an empty list there is another one, or no  *)
(* empty list is under way and the server holds a better offer already.       *)

Lasting(q, i) ==
  /\ i \in DOMAIN q /\ q[i].kind \in {"textList", "fileList"}
  /\ \A j \in DOMAIN q : j > i => q[j].kind # "emptyList"

Offered ==
  pendingSend # 0 =>
    \/ \E i \in DOMAIN toServer : Lasting(toServer, i)
    \/ /\ offer.kind \in {"textList", "fileList", "own"}
       /\ ~Carries(toServer, {"emptyList"})

LEMMA OfferedInit == Init => Offered
BY DEF Init, Offered

\* Sending anything but an empty list keeps a lasting announcement lasting.
LEMMA LastingSent ==
  ASSUME NEW q \in Seq(ToServerMsg), NEW m \in ToServerMsg
  PROVE  /\ m.kind # "emptyList" =>
              \A i \in DOMAIN q : Lasting(q, i) => Lasting(Append(q, m), i)
         /\ m.kind \in {"textList", "fileList"} => Lasting(Append(q, m), Len(q) + 1)
         /\ \A i \in DOMAIN q : i \in DOMAIN Append(q, m)
         /\ Len(q) + 1 \in DOMAIN Append(q, m)
<1> DEFINE t == Append(q, m)
<1>1. /\ DOMAIN q = 1..Len(q) /\ DOMAIN t = 1..Len(q) + 1 /\ Len(q) \in Nat
      /\ \A i \in DOMAIN q : t[i] = q[i]
      /\ t[Len(q) + 1] = m
  BY AppendFacts
<1> HIDE DEF t
<1>2. \A i \in DOMAIN t : i \in DOMAIN q \/ i = Len(q) + 1
  BY <1>1
<1>3. ASSUME m.kind # "emptyList", NEW i \in DOMAIN q, Lasting(q, i) PROVE Lasting(t, i)
  BY <1>1, <1>2, <1>3 DEF Lasting
<1>4. ASSUME m.kind \in {"textList", "fileList"} PROVE Lasting(t, Len(q) + 1)
  BY <1>1, <1>4 DEF Lasting
<1> QED BY <1>1, <1>3, <1>4 DEF t

\* Taking the first message: the lasting announcement moves up, or is taken.
LEMMA LastingTaken ==
  ASSUME NEW q \in Seq(ToServerMsg), q # <<>>, NEW i \in DOMAIN q, Lasting(q, i)
  PROVE  \/ \E j \in DOMAIN Tail(q) : Lasting(Tail(q), j)
         \/ Head(q).kind \in {"textList", "fileList"}
              /\ \A j \in DOMAIN Tail(q) : Tail(q)[j].kind # "emptyList"
<1> DEFINE t == Tail(q)
<1>1. /\ DOMAIN q = 1..Len(q) /\ DOMAIN t = 1..Len(q) - 1 /\ Len(q) \in Nat \ {0}
      /\ \A j \in DOMAIN t : t[j] = q[j + 1]
      /\ Head(q) = q[1] /\ 1 \in DOMAIN q
  BY TailFacts
<1> HIDE DEF t
<1>2. \A j \in DOMAIN t : j + 1 \in DOMAIN q /\ j \in Nat /\ j >= 1
  BY <1>1
<1>3. CASE i = 1
  BY <1>1, <1>2, <1>3 DEF Lasting
<1>4. CASE i # 1
  <2>1. i - 1 \in DOMAIN t /\ i \in Nat /\ t[i - 1] = q[i]
    BY <1>1, <1>4
  <2>2. Lasting(t, i - 1)
    BY <1>1, <1>2, <2>1 DEF Lasting
  <2> QED BY <2>1, <2>2 DEF t
<1> QED BY <1>3, <1>4 DEF t

LEMMA OfferedStep == TypeOK /\ Offered /\ [Next]_vars => Offered'
<1> SUFFICES ASSUME TypeOK, Offered, [Next]_vars PROVE Offered'
  OBVIOUS
<1> USE DEF net, server, ghost, client
<1>t. toServer \in Seq(ToServerMsg) /\ offer.kind \in {"none", "own"} \cup Lists
  BY DEF TypeOK
\* A message that is no empty list is sent, or nothing is.
<1>a. ASSUME pendingSend' \in {pendingSend, 0}, offer' = offer \/ offer'.kind = "own",
             \/ toServer' = toServer
             \/ \E m \in ToServerMsg : m.kind # "emptyList" /\ toServer' = Append(toServer, m)
      PROVE  Offered'
  <2>1. ~Carries(toServer, {"emptyList"}) => ~Carries(toServer', {"emptyList"})
    BY <1>a, SentServer
  <2>2. ASSUME NEW i \in DOMAIN toServer, Lasting(toServer, i)
        PROVE  i \in DOMAIN toServer' /\ Lasting(toServer', i)
    BY <1>a, <1>t, <2>2, LastingSent
  <2> QED BY <1>a, <2>1, <2>2 DEF Offered
\* An announcement of ours is lasting.
<1>b. ASSUME NEW m \in ToServerMsg, m.kind \in {"textList", "fileList"},
             toServer' = Append(toServer, m)
      PROVE  Offered'
  <2>1. Lasting(toServer', Len(toServer) + 1) /\ Len(toServer) + 1 \in DOMAIN toServer'
    BY <1>b, <1>t, LastingSent
  <2> QED BY <2>1 DEF Offered
\* The server reads a message; if it is a list, that is the offer.
<1>c. ASSUME pendingSend' = pendingSend, toServer # <<>>, toServer' = Tail(toServer),
             IF Head(toServer).kind \in Lists THEN offer' = Head(toServer) ELSE offer' = offer
      PROVE  Offered'
  <2>1. Carries(toServer, {"emptyList"})
          <=> Carries(toServer', {"emptyList"}) \/ Head(toServer).kind = "emptyList"
    BY <1>c, TakenServer
  <2>2. ASSUME NEW i \in DOMAIN toServer, Lasting(toServer, i) PROVE Offered'
    <3>1. \/ \E j \in DOMAIN toServer' : Lasting(toServer', j)
          \/ Head(toServer).kind \in {"textList", "fileList"}
               /\ ~Carries(toServer', {"emptyList"})
      BY <1>c, <1>t, <2>2, LastingTaken DEF Carries
    <3> QED BY <1>c, <3>1 DEF Offered, Lists
  <2>3. ASSUME offer.kind \in {"textList", "fileList", "own"},
               ~Carries(toServer, {"emptyList"})
        PROVE  Offered'
    BY <1>c, <2>1, <2>3 DEF Offered, Lists
  <2>4. pendingSend = 0 => Offered'
    BY <1>c DEF Offered
  <2> QED BY <2>2, <2>3, <2>4 DEF Offered
<1>1. CASE Receive
  <2>1. /\ pendingSend' \in {pendingSend, 0} /\ offer' = offer
        /\ toServer' = toServer \/ toServer' = Append(toServer, Msg("ack", 0))
    BY <1>1 DEF Receive, OnRequestFormatList, OnReady, OnRemoteCopy, Disown,
                OnFormatDataRequest, OnFormatDataResponse, Incoming
  <2>2. Msg("ack", 0) \in ToServerMsg /\ Msg("ack", 0).kind # "emptyList"
    BY MsgTypes DEF ToServerKinds
  <2> QED BY <1>a, <2>1, <2>2
<1>2. CASE CheckFormatListRequest
  <2>1. pendingSend' = pendingSend /\ offer' = offer
    BY <1>2 DEF CheckFormatListRequest
  <2>2. CASE pendingSend = 0
    BY <2>1, <2>2 DEF Offered
  <2>3. CASE pendingSend # 0
    <3>1. toServer' = Append(toServer, Msg("textList", pendingSend))
      BY <1>2, <2>3 DEF CheckFormatListRequest, Advertise, Announce
    <3>2. Msg("textList", pendingSend) \in ToServerMsg
            /\ Msg("textList", pendingSend).kind = "textList"
      BY MsgTypes DEF ToServerKinds, Lists, TypeOK
    <3> QED BY <1>b, <3>1, <3>2
  <2> QED BY <2>2, <2>3
<1>3. CASE CheckClipboardDataRequest \/ CheckFileListDataRequest
  <2>1. /\ pendingSend' = pendingSend /\ offer' = offer
        /\ \/ toServer' = toServer
           \/ \E k \in {"text", "file"}, n \in Nat : toServer' = Append(toServer, Msg(k, n))
    BY <1>3 DEF CheckClipboardDataRequest, KeepText, TextAnswer, CheckFileListDataRequest,
                TypeOK
  <2>2. \A k \in {"text", "file"}, n \in Nat :
          Msg(k, n) \in ToServerMsg /\ Msg(k, n).kind # "emptyList"
    BY MsgTypes DEF ToServerKinds, Lists
  <2> QED BY <1>a, <2>1, <2>2
<1>4. CASE SetClipboard \/ SendClipboardFile
  <2>1. \E k \in {"textList", "fileList"}, n \in Nat : toServer' = Append(toServer, Msg(k, n))
    BY <1>4 DEF SetClipboard, SendClipboardFile, Announce, TypeOK
  <2>2. \A k \in {"textList", "fileList"}, n \in Nat :
          Msg(k, n) \in ToServerMsg /\ Msg(k, n).kind \in {"textList", "fileList"}
    BY MsgTypes DEF ToServerKinds, Lists
  <2> QED BY <1>b, <2>1, <2>2
<1>5. CASE GetClipboard \/ Exec \/ DropFuture
  <2>1. UNCHANGED <<pendingSend, offer, toServer>>
    BY <1>5 DEF GetClipboard, Exec, DropFuture
  <2> QED BY <1>a, <2>1
<1>6. CASE Elapse
  <2>1. /\ UNCHANGED <<pendingSend, offer>>
        /\ toServer' = toServer \/ toServer' = Append(toServer, Msg("askText", 0))
    BY <1>6 DEF Elapse, OfferDone, GetSettle, GetPaste, GetReturn, GetTimeout, ExecDone
  <2>2. Msg("askText", 0) \in ToServerMsg /\ Msg("askText", 0).kind # "emptyList"
    BY MsgTypes DEF ToServerKinds
  <2> QED BY <1>a, <2>1, <2>2
<1>7. CASE ServerReads
  <2>1. /\ pendingSend' = pendingSend /\ toServer # <<>> /\ toServer' = Tail(toServer)
        /\ IF Head(toServer).kind \in Lists THEN offer' = Head(toServer) ELSE offer' = offer
    BY <1>7 DEF ServerReads, ServerTakesList, ServerTakesAck, ServerAnswers, ServerPasted,
                ServerTake, Lists
  <2> QED BY <1>c, <2>1
<1>8. CASE ServerCopy \/ ServerPaste
  <2>1. pendingSend' = pendingSend /\ toServer' = toServer
    BY <1>8 DEF ServerCopy, ServerPaste
  <2>2. offer' = offer \/ offer'.kind = "own"
    BY <1>8, MsgTypes DEF ServerCopy, ServerPaste
  <2> QED BY <1>a, <2>1, <2>2
<1>9. CASE UNCHANGED vars
  BY <1>a, <1>9 DEF vars
<1> QED
  BY <1>1, <1>2, <1>3, <1>4, <1>5, <1>6, <1>7, <1>8, <1>9 DEF Next, Check, Command

\* Whenever the server's request for a list is read, before or after the text is
\* set, the answer to it never leaves the server without an offer of the text.
THEOREM NeverWithdrawn == Spec => []OfferKeepsText
<1>1. TypeOK /\ Offered => OfferKeepsText
  <2> SUFFICES ASSUME TypeOK, Offered, pendingSend # 0, offer.kind \in {"none", "emptyList"}
               PROVE  Carries(toServer, {"textList", "fileList"})
    BY DEF OfferKeepsText
  <2>1. PICK i \in DOMAIN toServer : Lasting(toServer, i)
    BY DEF Offered
  <2> QED BY <2>1 DEF Lasting, Carries
<1> QED
  BY TypeInit, TypeStep, OfferedInit, OfferedStep, <1>1, PTL DEF Spec
==============================================================================
