--------------------------- MODULE FileServeProofs ----------------------------
(***************************************************************************)
(* Proofs about the transfer of a staged file, for every number of files,  *)
(* every length they may have and every length the server asks for.        *)
(***************************************************************************)
EXTENDS FileServeProperties, TLAPS

USE FileServeAssumption

------------------------------------------------------------------------------
(* The invariant. *)

Msgs == [kind : {"offer", "list", "size", "data"}, file : Nat, at : Int, len : Int]
Reqs == [kind : {"list", "size", "range"}, at : Int, len : Int]

\* Every variable keeps its type.
Types ==
  /\ staged \in 0..Files /\ sizes \in [1..Files -> Sizes]
  /\ request \in Reqs \cup {NoRequest}
  /\ toServer \in Seq(Msgs) /\ toClient \in Seq(Reqs)
  /\ offer \in Nat /\ name \in Nat /\ total \in Int /\ have \in Int
  /\ phase \in {"idle", "list", "size", "data"}

Bits ==
  /\ listRequested \in BOOLEAN /\ crashed \in BOOLEAN
  /\ restaged \in BOOLEAN /\ dropped \in BOOLEAN

\* The files announced arrive in order: behind the last announcement there is none
\* other on its way.
Announced ==
  /\ (\A i \in DOMAIN toServer : toServer[i].kind # "offer") => offer = staged
  /\ \A i \in DOMAIN toServer :
       toServer[i].kind = "offer" /\ (\A j \in DOMAIN toServer : j > i => toServer[j].kind # "offer")
         => toServer[i].file = staged

\* There is something to paste only when a file was staged.
Staged ==
  /\ offer # 0 \/ phase # "idle" => staged # 0
  /\ \A i \in DOMAIN toServer : toServer[i].kind = "offer" => staged # 0

\* The request of the paste, and the answer to it.
Asked(q) ==
  /\ \/ phase = "list" /\ q.kind = "list"
     \/ phase = "size" /\ q.kind = "size"
     \/ phase = "data" /\ q.kind = "range"
  /\ phase = "data" /\ ~restaged => q.at = have /\ q.len > 0

Answered(m) ==
  /\ m.kind = phase
  /\ ~restaged =>
       /\ m.file = staged
       /\ phase = "size" => m.len = sizes[staged]
       /\ phase = "data" => m.at = have /\ m.len > 0 /\ m.len <= sizes[staged] - have

NoAnswerUnderWay == \A i \in DOMAIN toServer : toServer[i].kind = "offer"
Unasked == toClient = <<>> /\ listRequested = FALSE /\ request = NoRequest

\* A paste has one message under way, be it on the channel or noted down.
OneAtATime ==
  \/ /\ \/ phase = "idle" /\ ~crashed
        \/ phase # "idle" /\ (crashed \/ dropped)
     /\ Unasked /\ NoAnswerUnderWay
  \/ /\ ~crashed
     /\ Len(toClient) = 1 /\ Asked(toClient[1])
     /\ listRequested = FALSE /\ request = NoRequest /\ NoAnswerUnderWay
  \/ /\ ~crashed
     /\ phase = "list" /\ listRequested
     /\ toClient = <<>> /\ request = NoRequest /\ NoAnswerUnderWay
  \/ /\ ~crashed
     /\ request # NoRequest /\ Asked(request) /\ request.kind # "list"
     /\ toClient = <<>> /\ listRequested = FALSE /\ NoAnswerUnderWay
  \/ /\ ~crashed
     /\ Unasked
     /\ \E i \in DOMAIN toServer :
          /\ Answered(toServer[i])
          /\ \A j \in DOMAIN toServer : j # i => toServer[j].kind = "offer"

\* What an undisturbed paste has got so far is the beginning of the staged file.
Undisturbed ==
  phase # "idle" /\ ~restaged =>
    /\ \A i \in DOMAIN toServer : toServer[i].kind # "offer"
    /\ staged # 0
    /\ phase \in {"size", "data"} => name = staged
    /\ phase \in {"list", "size"} => have = 0 /\ pieces = {}
    /\ phase = "data" => total = sizes[staged] /\ have >= 0 /\ have < total
    /\ \A p \in pieces : p.file = staged /\ p.at = p.put

IInv == Types /\ Bits /\ Announced /\ Staged /\ OneAtATime /\ Undisturbed /\ PastedIntact

LEMMA InitHolds == Init => IInv
<1> SUFFICES ASSUME Init PROVE IInv
  OBVIOUS
<1>1. Types
  BY DEF Init, Types, NoRequest
<1>0. Bits
  BY DEF Init, Bits
<1>2. Announced /\ Staged /\ OneAtATime /\ Undisturbed
  BY DEF Init, Announced, Staged, OneAtATime, Undisturbed, Unasked, NoAnswerUnderWay
<1>3. PastedIntact
  BY DEF Init, PastedIntact, Idle
<1> QED BY <1>0, <1>1, <1>2, <1>3 DEF IInv

------------------------------------------------------------------------------
(* The session. *)

LEMMA StagingKeeps == IInv /\ SendClipboardFile => IInv'
<1> SUFFICES ASSUME IInv, SendClipboardFile PROVE IInv'
  OBVIOUS
<1> DEFINE m == Msg("offer", staged + 1, 0, 0)
<1>1. /\ ~crashed /\ listRequested = FALSE /\ request = NoRequest
      /\ staged < Files /\ staged' = staged + 1
      /\ listRequested' = FALSE /\ request' = NoRequest
      /\ toServer' = Append(toServer, m)
      /\ restaged' = TRUE
      /\ UNCHANGED <<sizes, crashed, toClient, offer, phase, name, total, have, pieces, pasted, dropped>>
  BY DEF SendClipboardFile, Free, server, IInv, Bits
<1>2. m \in Msgs /\ m.kind = "offer" /\ m.file = staged + 1
  BY DEF Msg, Msgs, IInv, Types
<1> HIDE DEF m
<1>3. /\ toServer' \in Seq(Msgs) /\ Len(toServer) \in Nat
      /\ DOMAIN toServer = 1..Len(toServer) /\ DOMAIN toServer' = 1..Len(toServer) + 1
      /\ \A i \in DOMAIN toServer : toServer'[i] = toServer[i]
      /\ toServer'[Len(toServer) + 1] = m
  BY <1>1, <1>2 DEF IInv, Types
<1>4. Types'
  BY <1>1, <1>3 DEF IInv, Types
<1>5. Announced'
  BY <1>1, <1>2, <1>3 DEF Announced
<1>9. Bits'
  BY <1>1 DEF IInv, Bits
<1>6. NoAnswerUnderWay => NoAnswerUnderWay'
  BY <1>2, <1>3 DEF NoAnswerUnderWay
<1>7. OneAtATime'
  <2>1. CASE ((phase = "idle" /\ ~crashed) \/ (phase # "idle" /\ (crashed \/ dropped)))
             /\ Unasked /\ NoAnswerUnderWay
    BY <1>1, <1>6, <2>1 DEF OneAtATime, Unasked
  <2>2. CASE Len(toClient) = 1 /\ Asked(toClient[1]) /\ NoAnswerUnderWay
    BY <1>1, <1>6, <2>2 DEF OneAtATime, Asked
  <2>3. ASSUME NEW i \in DOMAIN toServer, Unasked, Answered(toServer[i]),
               \A j \in DOMAIN toServer : j # i => toServer[j].kind = "offer"
        PROVE  OneAtATime'
    <3>1. i \in DOMAIN toServer' /\ toServer'[i] = toServer[i]
      BY <1>3
    <3>2. \A j \in DOMAIN toServer' : j # i => toServer'[j].kind = "offer"
      BY <1>2, <1>3, <2>3
    <3>3. Answered(toServer[i])'
      BY <1>1, <2>3, <3>1 DEF Answered
    <3> QED BY <1>1, <2>3, <3>1, <3>2, <3>3 DEF OneAtATime, Unasked
  <2> QED BY <1>1, <2>1, <2>2, <2>3 DEF IInv, OneAtATime
<1>8. Staged' /\ Undisturbed' /\ PastedIntact'
  BY <1>1 DEF IInv, Types, Staged, Undisturbed, PastedIntact
<1> QED BY <1>4, <1>5, <1>7, <1>8, <1>9 DEF IInv

\* Taking a request from the channel to note it down.
LEMMA ReceiveKeeps == IInv /\ Receive => IInv'
<1> SUFFICES ASSUME IInv, Receive PROVE IInv'
  OBVIOUS
<1>1. /\ ~crashed /\ listRequested = FALSE /\ request = NoRequest
      /\ toClient # <<>> /\ toClient' = Tail(toClient)
      /\ UNCHANGED <<staged, sizes, crashed, toServer, offer, phase, name, total, have, pieces,
                     restaged, pasted, dropped>>
  BY DEF Receive, OnFormatDataRequest, OnFileContentsRequest, Incoming, Free, server, ghost,
         IInv, Bits
<1>2. Len(toClient) = 1 /\ Asked(toClient[1]) /\ NoAnswerUnderWay
  BY <1>1 DEF IInv, OneAtATime, Unasked
<1>3. Head(toClient) = toClient[1] /\ Head(toClient) \in Reqs /\ toClient' = <<>>
  BY <1>1, <1>2 DEF IInv, Types
<1>4. Announced' /\ Staged' /\ Undisturbed' /\ PastedIntact'
  BY <1>1 DEF IInv, Announced, Staged, Undisturbed, PastedIntact
<1>5. NoAnswerUnderWay'
  BY <1>1, <1>2 DEF NoAnswerUnderWay
<1>6. CASE OnFormatDataRequest
  <2>1. listRequested' = TRUE /\ request' = request /\ toClient[1].kind = "list"
    BY <1>3, <1>6 DEF OnFormatDataRequest, Incoming
  <2>2. Types'
    BY <1>1, <1>3, <2>1 DEF IInv, Types
  <2>3. OneAtATime'
    BY <1>1, <1>2, <1>3, <1>5, <2>1 DEF OneAtATime, Asked
  <2>4. Bits'
    BY <1>1, <2>1 DEF IInv, Bits
  <2> QED BY <1>4, <2>2, <2>3, <2>4 DEF IInv
<1>7. CASE OnFileContentsRequest
  <2>1. /\ request' = toClient[1] /\ listRequested' = listRequested
        /\ toClient[1].kind \in {"size", "range"}
    BY <1>3, <1>7 DEF OnFileContentsRequest, Incoming
  <2>2. Types'
    BY <1>1, <1>3, <2>1 DEF IInv, Types
  <2>3. request' # NoRequest /\ request'.kind # "list"
    BY <2>1 DEF NoRequest, Req
  <2>4. Asked(request)'
    BY <1>1, <1>2, <2>1 DEF Asked
  <2>5. OneAtATime'
    BY <1>1, <1>3, <1>5, <2>1, <2>3, <2>4 DEF OneAtATime
  <2>6. Bits'
    BY <1>1, <2>1 DEF IInv, Bits
  <2> QED BY <1>4, <2>2, <2>5, <2>6 DEF IInv
<1> QED BY <1>6, <1>7 DEF Receive

\* Sending an answer.
LEMMA AnswerKeeps ==
  ASSUME IInv, NEW m \in Msgs, toServer' = Append(toServer, m), m.kind # "offer",
         Answered(m), ~crashed, NoAnswerUnderWay, Unasked', 
         UNCHANGED <<staged, sizes, crashed, offer, phase, name, total, have, pieces,
                     restaged, pasted, dropped>>
  PROVE  IInv'
<1>1. /\ toServer' \in Seq(Msgs) /\ Len(toServer) \in Nat
      /\ DOMAIN toServer = 1..Len(toServer) /\ DOMAIN toServer' = 1..Len(toServer) + 1
      /\ \A i \in DOMAIN toServer : toServer'[i] = toServer[i]
      /\ toServer'[Len(toServer) + 1] = m
  BY DEF IInv, Types
<1>0. Bits'
  BY DEF IInv, Bits, Unasked
<1>2. Types'
  BY <1>1 DEF IInv, Types, Unasked
<1>3. Announced'
  <2>1. (\A i \in DOMAIN toServer' : toServer'[i].kind # "offer") => offer' = staged'
    BY <1>1 DEF IInv, Announced
  <2>2. ASSUME NEW i \in DOMAIN toServer', toServer'[i].kind = "offer",
               \A j \in DOMAIN toServer' : j > i => toServer'[j].kind # "offer"
        PROVE  toServer'[i].file = staged'
    <3>1. i \in DOMAIN toServer /\ toServer'[i] = toServer[i]
      BY <1>1, <2>2
    <3>2. \A j \in DOMAIN toServer : j > i => toServer[j].kind # "offer"
      BY <1>1, <2>2
    <3> QED BY <2>2, <3>1, <3>2 DEF IInv, Announced
  <2> QED BY <2>1, <2>2 DEF Announced
<1>4. OneAtATime'
  <2> DEFINE last == Len(toServer) + 1
  <2>1. last \in DOMAIN toServer' /\ toServer'[last] = m
    BY <1>1
  <2>2. \A j \in DOMAIN toServer' : j # last => toServer'[j].kind = "offer"
    BY <1>1 DEF NoAnswerUnderWay
  <2>3. Answered(m)'
    BY DEF Answered
  <2> HIDE DEF last
  <2> QED BY <2>1, <2>2, <2>3 DEF OneAtATime
<1>5. Staged' /\ Undisturbed' /\ PastedIntact'
  <2>1. Staged' /\ Undisturbed'
    BY <1>1 DEF IInv, Staged, Undisturbed
  <2> QED BY <2>1 DEF IInv, PastedIntact
<1> QED BY <1>0, <1>2, <1>3, <1>4, <1>5 DEF IInv

\* Losing an answer: the paste waits for ever, and no other begins.
LEMMA LossKeeps ==
  ASSUME IInv, toServer' = toServer, dropped' = TRUE, phase # "idle",
         NoAnswerUnderWay, Unasked',
         UNCHANGED <<staged, sizes, crashed, offer, phase, name, total, have, pieces,
                     restaged, pasted>>
  PROVE  IInv'
<1>1. Types'
  BY DEF IInv, Types, Unasked
<1>4. Bits'
  <2>1. listRequested' = FALSE /\ dropped' = TRUE /\ UNCHANGED <<crashed, restaged>>
    BY DEF Unasked
  <2> QED BY <2>1 DEF IInv, Bits
<1>2. Announced' /\ Staged' /\ Undisturbed' /\ PastedIntact'
  BY DEF IInv, Announced, Staged, Undisturbed, PastedIntact
<1>3. OneAtATime'
  BY DEF OneAtATime, NoAnswerUnderWay
<1> QED BY <1>1, <1>2, <1>3, <1>4 DEF IInv

LEMMA CheckListKeeps == IInv /\ CheckFileListDataRequest => IInv'
<1> SUFFICES ASSUME IInv, CheckFileListDataRequest PROVE IInv'
  OBVIOUS
<1> DEFINE m == Msg("list", staged, 0, sizes[staged])
<1>1. /\ listRequested /\ listRequested' = FALSE /\ Answer(m)
      /\ UNCHANGED <<staged, sizes, request, crashed, toClient, offer, phase, name, total, have,
                     pieces, restaged, pasted>>
  BY DEF CheckFileListDataRequest, server
<1>2. ~crashed /\ phase = "list" /\ toClient = <<>> /\ request = NoRequest /\ NoAnswerUnderWay
  BY <1>1 DEF IInv, OneAtATime, Unasked
<1>3. staged \in 1..Files
  BY <1>2 DEF IInv, Types, Staged
<1>4. sizes[staged] \in Nat
  BY <1>3 DEF IInv, Types
<1>5. m \in Msgs /\ m.kind # "offer" /\ Answered(m)
  BY <1>2, <1>3, <1>4 DEF Msg, Msgs, Answered
<1>6. Unasked'
  BY <1>1, <1>2 DEF Unasked
<1> HIDE DEF m
<1> QED BY <1>1, <1>2, <1>5, <1>6, AnswerKeeps, LossKeeps DEF Answer

LEMMA CheckContentsKeeps == IInv /\ CheckFileContentsRequest => IInv'
<1> SUFFICES ASSUME IInv, CheckFileContentsRequest PROVE IInv'
  OBVIOUS
<1>1. /\ request # NoRequest /\ request' = NoRequest
      /\ UNCHANGED <<staged, sizes, listRequested, toClient, offer, phase, name, total, have,
                     pieces, restaged, pasted>>
  BY DEF CheckFileContentsRequest, server
<1>2. /\ ~crashed /\ Asked(request) /\ request.kind # "list"
      /\ toClient = <<>> /\ listRequested = FALSE /\ NoAnswerUnderWay
  BY <1>1 DEF IInv, OneAtATime, Unasked
<1>3. staged \in 1..Files /\ phase \in {"size", "data"} /\ request \in Reqs
  BY <1>1, <1>2 DEF IInv, Types, Staged, Asked
<1>4. sizes[staged] \in Nat /\ request.at \in Int /\ request.len \in Int
  BY <1>3 DEF IInv, Types, Reqs
<1>5. Unasked'
  BY <1>1, <1>2 DEF Unasked
<1>6. CASE request.kind = "size"
  <2> DEFINE m == Msg("size", staged, 0, sizes[staged])
  <2>1. Answer(m) /\ crashed' = crashed
    BY <1>6 DEF CheckFileContentsRequest
  <2>2. phase = "size"
    BY <1>2, <1>6 DEF Asked
  <2>3. m \in Msgs /\ m.kind # "offer" /\ Answered(m)
    BY <1>3, <1>4, <2>2 DEF Msg, Msgs, Answered
  <2> HIDE DEF m
  <2> QED BY <1>1, <1>2, <1>5, <2>1, <2>2, <2>3, AnswerKeeps, LossKeeps DEF Answer
<1>7. CASE request.kind = "range" /\ request.at <= sizes[staged]
  <2> DEFINE n == Fits(request.at, request.len)
             m == Piece(request.at, n)
  <2>1. Answer(m) /\ crashed' = crashed
    BY <1>4, <1>7 DEF CheckFileContentsRequest
  <2>2. phase = "data"
    BY <1>2, <1>7 DEF Asked
  <2>3. n \in Int /\ n <= sizes[staged] - request.at
        /\ (request.len > 0 /\ request.at < sizes[staged] => n > 0)
    BY <1>4 DEF Fits, Lesser
  <2>4. ~restaged => request.at = have /\ request.len > 0 /\ have < sizes[staged]
    BY <1>2, <2>2 DEF Asked, IInv, Undisturbed
  <2> HIDE DEF n
  <2>5. m \in Msgs /\ m.kind # "offer" /\ m.kind = "data" /\ m.file = staged
        /\ m.at = request.at /\ m.len = n
    BY <1>3, <1>4, <2>3 DEF Piece, Msg, Msgs
  <2> HIDE DEF m
  <2>6. Answered(m)
    BY <2>2, <2>3, <2>4, <2>5 DEF Answered
  <2> QED BY <1>1, <1>2, <1>5, <2>1, <2>2, <2>5, <2>6, AnswerKeeps, LossKeeps DEF Answer
<1>8. CASE request.kind = "range" /\ request.at > sizes[staged]
  <2>1. crashed' /\ toServer' = toServer /\ dropped' = dropped
    BY <1>4, <1>8 DEF CheckFileContentsRequest
  <2>2. Types' /\ Announced' /\ Staged'
    BY <1>1, <2>1 DEF IInv, Types, Announced, Staged
  <2>3. OneAtATime'
    BY <1>1, <1>2, <1>3, <1>5, <2>1 DEF OneAtATime, NoAnswerUnderWay
  <2>4. Undisturbed' /\ PastedIntact'
    BY <1>1, <2>1 DEF IInv, Undisturbed, PastedIntact
  <2>5. Bits'
    BY <1>1, <2>1 DEF IInv, Bits
  <2> QED BY <2>2, <2>3, <2>4, <2>5 DEF IInv
<1> QED BY <1>4, <1>6, <1>7, <1>8 DEF CheckFileContentsRequest

------------------------------------------------------------------------------
(* The server. *)

LEMMA TakesOfferKeeps == IInv /\ ServerTakesOffer => IInv'
<1> SUFFICES ASSUME IInv, ServerTakesOffer PROVE IInv'
  OBVIOUS
<1>1. /\ toServer # <<>> /\ Head(toServer).kind = "offer" /\ toServer' = Tail(toServer)
      /\ offer' = Head(toServer).file
      /\ UNCHANGED <<staged, sizes, listRequested, request, crashed, toClient, phase, name,
                     total, have, pieces, restaged, pasted, dropped>>
  BY DEF ServerTakesOffer, ServerTake, client, ghost
<1>2. /\ toServer' \in Seq(Msgs) /\ Len(toServer) \in Nat \ {0}
      /\ DOMAIN toServer = 1..Len(toServer) /\ DOMAIN toServer' = 1..Len(toServer) - 1
      /\ \A i \in DOMAIN toServer' : toServer'[i] = toServer[i + 1]
      /\ Head(toServer) = toServer[1] /\ toServer[1] \in Msgs /\ 1 \in DOMAIN toServer
  BY <1>1 DEF IInv, Types
<1>3. offer' \in Nat
  BY <1>1, <1>2 DEF Msgs
<1>4. Types'
  BY <1>1, <1>2, <1>3 DEF IInv, Types
<1>5. Bits'
  BY <1>1 DEF IInv, Bits
<1>6. Announced'
  <2>1. ASSUME \A i \in DOMAIN toServer' : toServer'[i].kind # "offer"
        PROVE  offer' = staged'
    <3>1. \A j \in DOMAIN toServer : j > 1 => toServer[j].kind # "offer"
      <4>1. ASSUME NEW j \in DOMAIN toServer, j > 1 PROVE toServer[j].kind # "offer"
        <5>1. j - 1 \in DOMAIN toServer' /\ toServer'[j - 1] = toServer[j]
          BY <1>2, <4>1
        <5> QED BY <2>1, <5>1
      <4> QED BY <4>1
    <3> QED BY <1>1, <1>2, <3>1 DEF IInv, Announced
  <2>2. ASSUME NEW i \in DOMAIN toServer', toServer'[i].kind = "offer",
               \A j \in DOMAIN toServer' : j > i => toServer'[j].kind # "offer"
        PROVE  toServer'[i].file = staged'
    <3>1. i + 1 \in DOMAIN toServer /\ toServer'[i] = toServer[i + 1]
      BY <1>2
    <3>2. ASSUME NEW j \in DOMAIN toServer, j > i + 1 PROVE toServer[j].kind # "offer"
      <4>1. j - 1 \in DOMAIN toServer' /\ j - 1 > i /\ toServer'[j - 1] = toServer[j]
        BY <1>2, <3>2
      <4> QED BY <2>2, <4>1
    <3> QED BY <1>1, <2>2, <3>1, <3>2 DEF IInv, Announced
  <2> QED BY <2>1, <2>2 DEF Announced
<1>7. Staged'
  BY <1>1, <1>2 DEF IInv, Staged
<1>8. NoAnswerUnderWay => NoAnswerUnderWay'
  BY <1>2 DEF NoAnswerUnderWay
<1>9. OneAtATime'
  <2>1. ASSUME NEW i \in DOMAIN toServer, ~crashed, Unasked, Answered(toServer[i]),
               \A j \in DOMAIN toServer : j # i => toServer[j].kind = "offer"
        PROVE  OneAtATime'
    <3>1. i # 1
      BY <1>1, <1>2, <2>1 DEF Answered, IInv, Types
    <3>2. i - 1 \in DOMAIN toServer' /\ toServer'[i - 1] = toServer[i]
      BY <1>2, <3>1
    <3>3. \A j \in DOMAIN toServer' : j # i - 1 => toServer'[j].kind = "offer"
      BY <1>2, <2>1
    <3>4. Answered(toServer[i - 1])'
      BY <1>1, <2>1, <3>2 DEF Answered
    <3>5. Unasked' /\ ~crashed'
      BY <1>1, <2>1 DEF Unasked
    <3> QED BY <3>2, <3>3, <3>4, <3>5 DEF OneAtATime
  <2>2. CASE ((phase = "idle" /\ ~crashed) \/ (phase # "idle" /\ (crashed \/ dropped)))
             /\ Unasked /\ NoAnswerUnderWay
    BY <1>1, <1>8, <2>2 DEF OneAtATime, Unasked
  <2>3. CASE ~crashed /\ Len(toClient) = 1 /\ Asked(toClient[1])
             /\ listRequested = FALSE /\ request = NoRequest /\ NoAnswerUnderWay
    BY <1>1, <1>8, <2>3 DEF OneAtATime, Asked
  <2>4. CASE ~crashed /\ phase = "list" /\ listRequested
             /\ toClient = <<>> /\ request = NoRequest /\ NoAnswerUnderWay
    BY <1>1, <1>8, <2>4 DEF OneAtATime
  <2>5. CASE ~crashed /\ request # NoRequest /\ Asked(request) /\ request.kind # "list"
             /\ toClient = <<>> /\ listRequested = FALSE /\ NoAnswerUnderWay
    BY <1>1, <1>8, <2>5 DEF OneAtATime, Asked
  <2> QED BY <2>1, <2>2, <2>3, <2>4, <2>5 DEF IInv, OneAtATime
<1>10. Undisturbed' /\ PastedIntact'
  <2>1. Undisturbed'
    BY <1>1, <1>2 DEF IInv, Undisturbed
  <2> QED BY <1>1, <2>1 DEF IInv, PastedIntact
<1> QED BY <1>4, <1>5, <1>6, <1>7, <1>9, <1>10 DEF IInv

LEMMA PasteKeeps == IInv /\ ServerPaste => IInv'
<1> SUFFICES ASSUME IInv, ServerPaste PROVE IInv'
  OBVIOUS
<1> DEFINE q == Req("list", 0, 0)
<1>1. /\ phase = "idle" /\ offer # 0 /\ phase' = "list"
      /\ toClient' = Append(toClient, q)
      /\ name' = 0 /\ total' = 0 /\ have' = 0 /\ pieces' = {} /\ pasted' = Idle
      /\ restaged' = (\E i \in DOMAIN toServer : toServer[i].kind = "offer")
      /\ UNCHANGED <<staged, sizes, listRequested, request, crashed, toServer, offer, dropped>>
  BY DEF ServerPaste, Ask, client
<1>2. Unasked /\ NoAnswerUnderWay
  <2>1. \A i \in DOMAIN toServer : toServer[i].kind # phase
    <3>1. \A i \in DOMAIN toServer : toServer[i] \in Msgs
      BY DEF IInv, Types
    <3> QED BY <1>1, <3>1 DEF Msgs
  <2>2. \A i \in DOMAIN toServer : ~Answered(toServer[i])
    BY <2>1 DEF Answered
  <2> QED BY <1>1, <2>2 DEF IInv, OneAtATime, Asked
<1>3. q \in Reqs /\ q.kind = "list"
  BY DEF Req, Reqs
<1> HIDE DEF q
<1>4. toClient' \in Seq(Reqs) /\ Len(toClient') = 1 /\ toClient'[1] = q
  BY <1>1, <1>2, <1>3 DEF Unasked
<1>5. Types'
  BY <1>1, <1>4 DEF IInv, Types
<1>6. restaged' \in BOOLEAN
  BY <1>1, Zenon
<1>7. Bits'
  BY <1>1, <1>6 DEF IInv, Bits
<1>8. Announced' /\ Staged'
  BY <1>1 DEF IInv, Announced, Staged
<1>9. OneAtATime'
  <2>1. ~crashed'
    BY <1>1 DEF IInv, OneAtATime
  <2>2. Asked(q)'
    BY <1>1, <1>3 DEF Asked
  <2>3. NoAnswerUnderWay' /\ listRequested' = FALSE /\ request' = NoRequest
    BY <1>1, <1>2 DEF NoAnswerUnderWay, Unasked
  <2> QED BY <1>4, <2>1, <2>2, <2>3 DEF OneAtATime
<1>10. Undisturbed'
  <2>1. ~restaged' => \A i \in DOMAIN toServer : toServer[i].kind # "offer"
    BY <1>1, Zenon
  <2> QED BY <1>1, <1>8, <2>1 DEF IInv, Staged, Undisturbed
<1>11. PastedIntact'
  BY <1>1 DEF PastedIntact, Idle
<1> QED BY <1>5, <1>7, <1>8, <1>9, <1>10, <1>11 DEF IInv

\* Taking the answer to the paste's request: what is left on the channel, and what
\* the answer is.
LEMMA AnswerTaken ==
  ASSUME IInv, toServer # <<>>, Head(toServer).kind \in {"list", "size", "data"},
         toServer' = Tail(toServer)
  PROVE  /\ ~crashed /\ Unasked /\ Answered(Head(toServer)) /\ Head(toServer) \in Msgs
         /\ toServer' \in Seq(Msgs)
         /\ \A i \in DOMAIN toServer' : toServer'[i].kind = "offer"
         /\ (\A i \in DOMAIN toServer : toServer[i].kind # "offer") =>
              \A i \in DOMAIN toServer' : toServer'[i].kind # "offer"
         /\ UNCHANGED <<staged, offer>> => Announced'
<1>1. /\ toServer' \in Seq(Msgs) /\ Len(toServer) \in Nat \ {0}
      /\ DOMAIN toServer = 1..Len(toServer) /\ DOMAIN toServer' = 1..Len(toServer) - 1
      /\ \A i \in DOMAIN toServer' : toServer'[i] = toServer[i + 1]
      /\ Head(toServer) = toServer[1] /\ toServer[1] \in Msgs /\ 1 \in DOMAIN toServer
  BY DEF IInv, Types
<1>2. ~NoAnswerUnderWay
  BY <1>1 DEF NoAnswerUnderWay
<1>3. /\ ~crashed /\ Unasked
      /\ \E i \in DOMAIN toServer :
           /\ Answered(toServer[i])
           /\ \A j \in DOMAIN toServer : j # i => toServer[j].kind = "offer"
  BY <1>2 DEF IInv, OneAtATime
<1>4. Answered(toServer[1]) /\ \A j \in DOMAIN toServer : j # 1 => toServer[j].kind = "offer"
  BY <1>1, <1>3
<1>5. \A i \in DOMAIN toServer' : i + 1 \in DOMAIN toServer /\ i + 1 # 1
  BY <1>1
<1>6. UNCHANGED <<staged, offer>> => Announced'
  <2> SUFFICES ASSUME staged' = staged, offer' = offer PROVE Announced'
    OBVIOUS
  <2>1. ASSUME \A i \in DOMAIN toServer' : toServer'[i].kind # "offer"
        PROVE  offer' = staged'
    <3>1. \A j \in DOMAIN toServer : toServer[j].kind # "offer"
      <4>1. ASSUME NEW j \in DOMAIN toServer, j # 1 PROVE toServer[j].kind # "offer"
        <5>1. j - 1 \in DOMAIN toServer' /\ toServer'[j - 1] = toServer[j]
          BY <1>1, <4>1
        <5> QED BY <2>1, <5>1
      <4> QED BY <1>1, <4>1
    <3> QED BY <3>1 DEF IInv, Announced
  <2>2. ASSUME NEW i \in DOMAIN toServer', toServer'[i].kind = "offer",
               \A j \in DOMAIN toServer' : j > i => toServer'[j].kind # "offer"
        PROVE  toServer'[i].file = staged'
    <3>1. i + 1 \in DOMAIN toServer /\ toServer'[i] = toServer[i + 1]
      BY <1>1
    <3>2. ASSUME NEW j \in DOMAIN toServer, j > i + 1 PROVE toServer[j].kind # "offer"
      <4>1. j - 1 \in DOMAIN toServer' /\ j - 1 > i /\ toServer'[j - 1] = toServer[j]
        BY <1>1, <3>2
      <4> QED BY <2>2, <4>1
    <3> QED BY <2>2, <3>1, <3>2 DEF IInv, Announced
  <2> QED BY <2>1, <2>2 DEF Announced
<1> QED BY <1>1, <1>3, <1>4, <1>5, <1>6

\* What a paste asks for next is the only message under way.
LEMMA NextAsked ==
  ASSUME IInv, Unasked, ~crashed, NEW q \in Reqs, toClient' = Append(toClient, q), Asked(q)',
         NoAnswerUnderWay', UNCHANGED <<listRequested, request, crashed>>
  PROVE  toClient' \in Seq(Reqs) /\ OneAtATime'
<1>1. toClient' \in Seq(Reqs) /\ Len(toClient') = 1 /\ toClient'[1] = q
  BY DEF Unasked
<1> QED BY <1>1 DEF OneAtATime, Unasked

LEMMA TakesListKeeps == IInv /\ ServerTakesList => IInv'
<1> SUFFICES ASSUME IInv, ServerTakesList PROVE IInv'
  OBVIOUS
<1> DEFINE q == Req("size", 0, 8)
<1>1. /\ toServer # <<>> /\ Head(toServer).kind = "list" /\ toServer' = Tail(toServer)
      /\ phase' = "size" /\ name' = Head(toServer).file /\ toClient' = Append(toClient, q)
      /\ UNCHANGED <<staged, sizes, listRequested, request, crashed, offer, total, have, pieces,
                     restaged, pasted, dropped>>
  BY DEF ServerTakesList, ServerTake, Ask, client, ghost
<1>2. /\ ~crashed /\ Unasked /\ Answered(Head(toServer)) /\ Head(toServer) \in Msgs
      /\ toServer' \in Seq(Msgs) /\ Announced'
      /\ \A i \in DOMAIN toServer' : toServer'[i].kind = "offer"
      /\ (\A i \in DOMAIN toServer : toServer[i].kind # "offer") =>
           \A i \in DOMAIN toServer' : toServer'[i].kind # "offer"
  BY <1>1, AnswerTaken
<1>3. phase = "list" /\ name' \in Nat /\ (~restaged => name' = staged)
  BY <1>1, <1>2 DEF Answered, Msgs
<1>4. q \in Reqs /\ q.kind = "size" /\ Asked(q)'
  BY <1>1 DEF Req, Reqs, Asked
<1> HIDE DEF q
<1>5. toClient' \in Seq(Reqs) /\ OneAtATime'
  BY <1>1, <1>2, <1>4, NextAsked DEF NoAnswerUnderWay
<1>6. Types' /\ Staged'
  BY <1>1, <1>2, <1>3, <1>5 DEF IInv, Types, Staged
<1>7. Bits'
  BY <1>1 DEF IInv, Bits
<1>8. Undisturbed' /\ PastedIntact'
  <2>1. Undisturbed'
    BY <1>1, <1>2, <1>3 DEF IInv, Undisturbed
  <2> QED BY <1>1, <2>1 DEF IInv, PastedIntact
<1> QED BY <1>2, <1>5, <1>6, <1>7, <1>8 DEF IInv

LEMMA TakesSizeKeeps == IInv /\ ServerTakesSize => IInv'
<1> SUFFICES ASSUME IInv, ServerTakesSize PROVE IInv'
  OBVIOUS
<1>1. /\ toServer # <<>> /\ Head(toServer).kind = "size" /\ toServer' = Tail(toServer)
      /\ total' = Head(toServer).len
      /\ UNCHANGED <<staged, sizes, listRequested, request, crashed, offer, name, have, pieces,
                     restaged, dropped>>
  BY DEF ServerTakesSize, ServerTake, client
<1>2. /\ ~crashed /\ Unasked /\ Answered(Head(toServer)) /\ Head(toServer) \in Msgs
      /\ toServer' \in Seq(Msgs) /\ Announced'
      /\ \A i \in DOMAIN toServer' : toServer'[i].kind = "offer"
      /\ (\A i \in DOMAIN toServer : toServer[i].kind # "offer") =>
           \A i \in DOMAIN toServer' : toServer'[i].kind # "offer"
  BY <1>1, AnswerTaken
<1>3. phase = "size" /\ total' \in Int /\ (~restaged => total' = sizes[staged])
  BY <1>1, <1>2 DEF Answered, Msgs
<1>4. ~restaged => /\ staged # 0 /\ name = staged /\ have = 0 /\ pieces = {}
                   /\ \A i \in DOMAIN toServer' : toServer'[i].kind # "offer"
                   /\ sizes[staged] \in Nat
  <2>1. ~restaged => staged \in 1..Files
    BY <1>3 DEF IInv, Types, Undisturbed
  <2>2. ~restaged => sizes[staged] \in Nat
    BY <2>1 DEF IInv, Types
  <2> QED BY <1>2, <1>3, <2>2 DEF IInv, Undisturbed
<1>5. Bits'
  BY <1>1 DEF IInv, Bits
<1>6. CASE total' = 0
  <2>1. /\ phase' = "idle" /\ toClient' = toClient
        /\ pasted' = [name |-> name, len |-> 0, pieces |-> {}, sure |-> ~restaged, failed |-> FALSE]
    BY <1>6 DEF ServerTakesSize, Conclude
  <2>2. Types' /\ Staged'
    BY <1>1, <1>2, <1>3, <2>1 DEF IInv, Types, Staged
  <2>3. OneAtATime'
    BY <1>1, <1>2, <2>1 DEF OneAtATime, NoAnswerUnderWay, Unasked
  <2>4. Undisturbed'
    BY <2>1 DEF Undisturbed
  <2>5. PastedIntact'
    BY <1>1, <1>3, <1>4, <1>6, <2>1 DEF PastedIntact
  <2> QED BY <1>2, <1>5, <2>2, <2>3, <2>4, <2>5 DEF IInv
<1>7. CASE total' # 0
  <2>1. PICK n \in Ranges : toClient' = Append(toClient, Req("range", 0, n))
    BY <1>7 DEF ServerTakesSize, Ask
  <2>2. phase' = "data" /\ pasted' = pasted
    BY <1>7 DEF ServerTakesSize
  <2> DEFINE q == Req("range", 0, n)
  <2>3. q \in Reqs /\ q.kind = "range" /\ q.at = 0 /\ q.len > 0
    BY DEF Req, Reqs
  <2>4. toClient' = Append(toClient, q)
    BY <2>1
  <2> HIDE DEF q
  <2>5. Asked(q)'
    BY <1>1, <1>4, <2>2, <2>3 DEF Asked
  <2>6. toClient' \in Seq(Reqs) /\ OneAtATime'
    BY <1>1, <1>2, <2>3, <2>4, <2>5, NextAsked DEF NoAnswerUnderWay
  <2>7. Types' /\ Staged'
    BY <1>1, <1>2, <1>3, <2>2, <2>6 DEF IInv, Types, Staged
  <2>8. Undisturbed'
    BY <1>1, <1>3, <1>4, <1>7, <2>2 DEF Undisturbed
  <2>9. PastedIntact'
    BY <1>1, <2>2 DEF IInv, PastedIntact
  <2> QED BY <1>2, <1>5, <2>6, <2>7, <2>8, <2>9 DEF IInv
<1> QED BY <1>6, <1>7

LEMMA TakesDataKeeps == IInv /\ ServerTakesData => IInv'
<1> SUFFICES ASSUME IInv, ServerTakesData PROVE IInv'
  OBVIOUS
<1> DEFINE m == Head(toServer)
           got == pieces \cup {[file |-> m.file, at |-> m.at, put |-> have]}
<1>1. /\ toServer # <<>> /\ Head(toServer).kind = "data" /\ toServer' = Tail(toServer)
      /\ have' = have + m.len /\ pieces' = got
      /\ UNCHANGED <<staged, sizes, listRequested, request, crashed, offer, name, total,
                     restaged, dropped>>
  BY DEF ServerTakesData, ServerTake, client
<1>2. /\ ~crashed /\ Unasked /\ Answered(m) /\ m \in Msgs
      /\ toServer' \in Seq(Msgs) /\ Announced'
      /\ \A i \in DOMAIN toServer' : toServer'[i].kind = "offer"
      /\ (\A i \in DOMAIN toServer : toServer[i].kind # "offer") =>
           \A i \in DOMAIN toServer' : toServer'[i].kind # "offer"
  BY <1>1, AnswerTaken
<1>3. phase = "data" /\ m.len \in Int /\ have \in Int /\ have' \in Int
  <2>1. phase = "data"
    BY <1>1, <1>2 DEF Answered
  <2>2. m.len \in Int
    BY <1>2 DEF Msgs
  <2>3. have \in Int
    BY DEF IInv, Types
  <2> QED BY <1>1, <2>1, <2>2, <2>3
<1>4. ~restaged => /\ staged # 0 /\ name = staged /\ total = sizes[staged]
                   /\ m.file = staged /\ m.at = have /\ m.len > 0
                   /\ m.len <= sizes[staged] - have /\ have >= 0
                   /\ \A i \in DOMAIN toServer' : toServer'[i].kind # "offer"
                   /\ sizes[staged] \in Nat
  <2>1. ~restaged => staged \in 1..Files
    BY <1>3 DEF IInv, Types, Undisturbed
  <2>2. ~restaged => sizes[staged] \in Nat
    BY <2>1 DEF IInv, Types
  <2>3. ~restaged => /\ m.file = staged /\ m.at = have /\ m.len > 0
                     /\ m.len <= sizes[staged] - have
    BY <1>2, <1>3 DEF Answered
  <2>4. ~restaged => /\ staged # 0 /\ name = staged /\ total = sizes[staged] /\ have >= 0
                     /\ \A i \in DOMAIN toServer : toServer[i].kind # "offer"
    BY <1>3 DEF IInv, Undisturbed
  <2>5. ~restaged => \A i \in DOMAIN toServer' : toServer'[i].kind # "offer"
    BY <1>2, <2>4
  <2> QED BY <2>2, <2>3, <2>4, <2>5
<1>5. ~restaged => \A p \in got : p.file = staged /\ p.at = p.put
  BY <1>3, <1>4 DEF IInv, Undisturbed
<1>6. Bits'
  BY <1>1 DEF IInv, Bits
<1>7. \/ /\ m.len = 0 /\ Conclude(have, pieces, TRUE)
      \/ /\ m.len # 0 /\ have' >= total /\ Conclude(have', got, FALSE)
      \/ /\ m.len # 0 /\ ~(have' >= total)
         /\ \E n \in Ranges : Ask("range", have', n)
         /\ UNCHANGED <<phase, pasted>>
  BY DEF ServerTakesData
<1> HIDE DEF m, got
<1>8. ASSUME NEW len, NEW what, NEW bad, Conclude(len, what, bad),
             ~restaged => /\ ~bad /\ len = sizes[staged]
                          /\ \A p \in what : p.file = staged /\ p.at = p.put
      PROVE  IInv'
  <2>1. /\ phase' = "idle" /\ toClient' = toClient
        /\ pasted' = [name |-> name, len |-> len, pieces |-> what, sure |-> ~restaged,
                      failed |-> bad]
    BY <1>8 DEF Conclude
  <2>2. Types' /\ Staged'
    BY <1>1, <1>2, <1>3, <2>1 DEF IInv, Types, Staged
  <2>3. OneAtATime'
    BY <1>1, <1>2, <2>1 DEF OneAtATime, NoAnswerUnderWay, Unasked
  <2>4. Undisturbed'
    BY <2>1 DEF Undisturbed
  <2>5. PastedIntact'
    BY <1>1, <1>4, <1>8, <2>1 DEF PastedIntact
  <2> QED BY <1>2, <1>6, <2>2, <2>3, <2>4, <2>5 DEF IInv
<1>9. CASE m.len = 0 /\ Conclude(have, pieces, TRUE)
  <2>1. restaged
    BY <1>4, <1>9
  <2> QED BY <1>8, <1>9, <2>1
<1>10. CASE m.len # 0 /\ have' >= total /\ Conclude(have', got, FALSE)
  <2>1. ~restaged => have' = sizes[staged]
    BY <1>1, <1>3, <1>4, <1>10
  <2> QED BY <1>5, <1>8, <1>10, <2>1
<1>11. ASSUME NEW n \in Ranges, Ask("range", have', n), UNCHANGED <<phase, pasted>>,
              ~(have' >= total), m.len # 0
       PROVE  IInv'
  <2>0. PICK at \in Int : at = have'
    BY <1>3
  <2>9. n \in Int /\ Req("range", at, n) \in Reqs
    BY DEF Req, Reqs
  <2>1. PICK q \in Reqs : q = Req("range", at, n)
    BY <2>9, Zenon
  <2>2. toClient' = Append(toClient, q)
    BY <1>11, <2>0, <2>1 DEF Ask
  <2>8. q.kind = "range" /\ q.at = have' /\ q.len > 0
    BY <2>0, <2>1 DEF Req
  <2>3. Asked(q)'
    BY <1>3, <1>11, <2>8 DEF Asked
  <2>4. toClient' \in Seq(Reqs) /\ OneAtATime'
    BY <1>1, <1>2, <2>1, <2>2, <2>3, NextAsked DEF NoAnswerUnderWay
  <2>5. Types' /\ Staged'
    BY <1>1, <1>2, <1>3, <1>11, <2>4 DEF IInv, Types, Staged
  <2>6. Undisturbed'
    BY <1>1, <1>3, <1>4, <1>5, <1>11 DEF Undisturbed
  <2>7. PastedIntact'
    BY <1>1, <1>11 DEF IInv, PastedIntact
  <2> QED BY <1>2, <1>6, <2>4, <2>5, <2>6, <2>7 DEF IInv
<1> QED BY <1>7, <1>9, <1>10, <1>11

------------------------------------------------------------------------------
LEMMA StepHolds == IInv /\ [Next]_vars => IInv'
<1> SUFFICES ASSUME IInv, [Next]_vars PROVE IInv'
  OBVIOUS
<1>1. CASE UNCHANGED vars
  <2>1. UNCHANGED <<staged, sizes, listRequested, request, crashed, toServer, toClient, offer,
                    phase, name, total, have, pieces, restaged, pasted, dropped>>
    BY <1>1 DEF vars, client, server, ghost
  <2>2. Types' /\ Announced' /\ Staged'
    BY <2>1 DEF IInv, Types, Announced, Staged
  <2>5. Bits'
    BY <2>1 DEF IInv, Bits
  <2>3. OneAtATime'
    <3>1. \A q : Asked(q)' <=> Asked(q)
      BY <2>1 DEF Asked
    <3>2. \A m : Answered(m)' <=> Answered(m)
      BY <2>1 DEF Answered
    <3>3. Unasked' <=> Unasked
      BY <2>1 DEF Unasked
    <3>4. NoAnswerUnderWay' <=> NoAnswerUnderWay
      BY <2>1 DEF NoAnswerUnderWay
    <3> QED BY <2>1, <3>1, <3>2, <3>3, <3>4 DEF IInv, OneAtATime
  <2>4. Undisturbed' /\ PastedIntact'
    BY <2>1 DEF IInv, Undisturbed, PastedIntact
  <2> QED BY <2>2, <2>3, <2>4, <2>5 DEF IInv
<1> QED BY <1>1, StagingKeeps, ReceiveKeeps, CheckListKeeps, CheckContentsKeeps, PasteKeeps,
           TakesOfferKeeps, TakesListKeeps, TakesSizeKeeps, TakesDataKeeps
        DEF Next, Check, ServerReads

LEMMA InvariantHolds == Spec => []IInv
<1> QED BY InitHolds, StepHolds, PTL DEF Spec

\* A file that is pasted undisturbed is the staged one, whole and in order, however
\* long it is and whatever pieces the server asks for (session.rs 1413-1422).
THEOREM PastedAlwaysIntact == Spec => []PastedIntact
<1>1. IInv => PastedIntact
  BY DEF IInv
<1> QED BY <1>1, InvariantHolds, PTL
==============================================================================
