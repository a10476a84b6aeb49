--------------------------- MODULE FileRecvProofs ----------------------------
(* Proofs about the files received over the clipboard, for any number of      *)
(* copies, of any sizes, in pieces of any length.                             *)
EXTENDS FileRecvProperties, TLAPS

------------------------------------------------------------------------------
(* What is under way on a channel. *)

\* What taking the first message leaves.
LEMMA TailFacts ==
  ASSUME NEW S, NEW q \in Seq(S), q # <<>>
  PROVE  /\ Tail(q) \in Seq(S) /\ Len(Tail(q)) = Len(q) - 1
         /\ DOMAIN q = 1..Len(q) /\ DOMAIN Tail(q) = 1..Len(q) - 1
         /\ \A i \in DOMAIN Tail(q) : Tail(q)[i] = q[i + 1]
         /\ Head(q) = q[1] /\ Head(q) \in S /\ Len(q) \in Nat \ {0}
         /\ 1 \in DOMAIN q
OBVIOUS

\* What sending a message adds.
LEMMA AppendFacts ==
  ASSUME NEW S, NEW q \in Seq(S), NEW m \in S
  PROVE  /\ Append(q, m) \in Seq(S) /\ Len(q) \in Nat /\ Len(Append(q, m)) = Len(q) + 1
         /\ DOMAIN q = 1..Len(q) /\ DOMAIN Append(q, m) = 1..Len(q) + 1
         /\ \A i \in DOMAIN q : Append(q, m)[i] = q[i]
         /\ Append(q, m)[Len(q) + 1] = m
OBVIOUS

\* A message of one of these kinds is under way.
Holds(q, K) == \E i \in DOMAIN q : q[i].kind \in K

\* At most one message of these kinds is under way.
One(q, K) == \A i, j \in DOMAIN q : q[i].kind \in K /\ q[j].kind \in K => i = j

\* Every message under way is one of these.
All(q, S) == \A i \in DOMAIN q : q[i] \in S

\* Sending adds the message and nothing else.
LEMMA Sent ==
  ASSUME NEW S, NEW q \in Seq(S), NEW m \in S, NEW K
  PROVE  /\ Holds(Append(q, m), K) <=> Holds(q, K) \/ m.kind \in K
         /\ One(q, K) /\ (m.kind \notin K \/ ~Holds(q, K)) => One(Append(q, m), K)
<1> DEFINE t == Append(q, m)
<1>1. /\ DOMAIN q = 1..Len(q) /\ DOMAIN t = 1..Len(q) + 1 /\ Len(q) \in Nat
      /\ \A i \in DOMAIN q : t[i] = q[i]
      /\ t[Len(q) + 1] = m
  BY AppendFacts
<1> HIDE DEF t
<1>2. \A i \in DOMAIN t : i \in DOMAIN q \/ i = Len(q) + 1
  BY <1>1
<1>3. Len(q) + 1 \in DOMAIN t /\ \A i \in DOMAIN q : i \in DOMAIN t
  BY <1>1
<1>4. Holds(t, K) <=> Holds(q, K) \/ m.kind \in K
  BY <1>1, <1>2, <1>3 DEF Holds
<1>5. ASSUME One(q, K), m.kind \notin K \/ ~Holds(q, K) PROVE One(t, K)
  BY <1>1, <1>2, <1>5 DEF One, Holds
<1> QED BY <1>4, <1>5 DEF t

LEMMA SentAll ==
  ASSUME NEW S, NEW q \in Seq(S), NEW m \in S, NEW R, NEW T,
         All(q, R), m \in T, \A x \in R : x \in S => x \in T
  PROVE  All(Append(q, m), T)
<1> DEFINE t == Append(q, m)
<1>1. /\ DOMAIN q = 1..Len(q) /\ DOMAIN t = 1..Len(q) + 1 /\ Len(q) \in Nat
      /\ \A i \in DOMAIN q : t[i] = q[i]
      /\ t[Len(q) + 1] = m
  BY AppendFacts
<1>2. \A i \in DOMAIN q : q[i] \in S
  OBVIOUS
<1> HIDE DEF t
<1>3. \A i \in DOMAIN t : t[i] \in T
  BY <1>1, <1>2 DEF All
<1> QED BY <1>3 DEF t, All

\* Taking removes the message and nothing else.
LEMMA Taken ==
  ASSUME NEW S, NEW q \in Seq(S), q # <<>>, NEW K
  PROVE  /\ Holds(q, K) <=> Holds(Tail(q), K) \/ Head(q).kind \in K
         /\ One(q, K) => One(Tail(q), K)
         /\ One(q, K) /\ Head(q).kind \in K => ~Holds(Tail(q), K)
<1> DEFINE t == Tail(q)
<1>1. /\ DOMAIN q = 1..Len(q) /\ DOMAIN t = 1..Len(q) - 1 /\ Len(q) \in Nat \ {0}
      /\ \A i \in DOMAIN t : t[i] = q[i + 1]
      /\ Head(q) = q[1] /\ 1 \in DOMAIN q
  BY TailFacts
<1> HIDE DEF t
<1>2. \A i \in DOMAIN q : i = 1 \/ (i - 1 \in DOMAIN t /\ t[i - 1] = q[i])
  BY <1>1
<1>3. \A i \in DOMAIN t : i + 1 \in DOMAIN q /\ i + 1 # 1 /\ i \in Nat
  BY <1>1
<1>4. Holds(q, K) <=> Holds(t, K) \/ Head(q).kind \in K
  BY <1>1, <1>2, <1>3 DEF Holds
<1>5. ASSUME One(q, K) PROVE One(t, K)
  <2>1. ASSUME NEW i \in DOMAIN t, NEW j \in DOMAIN t, t[i].kind \in K, t[j].kind \in K
        PROVE  i = j
    <3>1. i + 1 = j + 1
      BY <1>1, <1>3, <1>5, <2>1 DEF One
    <3> QED BY <1>3, <3>1
  <2> QED BY <2>1 DEF One
<1>6. ASSUME One(q, K), Head(q).kind \in K PROVE ~Holds(t, K)
  BY <1>1, <1>3, <1>6 DEF One, Holds
<1> QED BY <1>4, <1>5, <1>6 DEF t

LEMMA TakenAll ==
  ASSUME NEW S, NEW q \in Seq(S), q # <<>>, NEW R, NEW T,
         All(q, R), \A x \in R : x \in S => x \in T
  PROVE  All(Tail(q), T) /\ Head(q) \in R
<1>1. /\ DOMAIN q = 1..Len(q) /\ DOMAIN Tail(q) = 1..Len(q) - 1 /\ Len(q) \in Nat \ {0}
      /\ \A i \in DOMAIN Tail(q) : Tail(q)[i] = q[i + 1]
      /\ Head(q) = q[1] /\ 1 \in DOMAIN q
  BY TailFacts
<1>2. \A i \in DOMAIN q : q[i] \in S
  OBVIOUS
<1>3. \A i \in DOMAIN Tail(q) : i + 1 \in DOMAIN q
  BY <1>1
<1> QED BY <1>1, <1>2, <1>3 DEF All

------------------------------------------------------------------------------
(* Types. *)

\* What a list may name: a file, nothing, or a list without files.
Named == NoFiles..Files

Question == [what : {"list", "size", "data"}, at : Nat, len : Nat]
Message ==
  {m \in [kind : {"copy", "list", "contents"}, file : Named,
          holds : {"nothing", "size", "data"}, at : Nat, len : Nat] :
     m.holds = "size" => m.file \in 1..Files}
Filled ==
  {s \in [kind : {"none", "error", "size", "data"}, file : Named,
          holds : {"nothing", "size", "data"}, at : Nat, len : Nat] :
     s.holds = "size" => s.file \in 1..Files}

TypeOK ==
  /\ pc \in {"idle", "list", "size", "data", "crashed"} /\ offered \in BOOLEAN /\ list \in Named
  /\ slot \in Filled
  /\ size \in Nat /\ offset \in Nat /\ held \in Nat /\ asked \in Nat
  /\ toServer \in Seq(Question) /\ toClient \in Seq(Message)
  /\ cur \in 0..Files /\ copied \in 0..Files /\ sizes \in [1..Files -> Sizes]
  /\ changed \in BOOLEAN /\ late \in BOOLEAN /\ saved.name \in Named /\ saved.len \in Nat

\* A request is for no more than a chunk, and for some number of bytes.
LEMMA RequestIsNat ==
  ASSUME NEW rest \in Nat
  PROVE  Request(rest) \in Nat
<1>1. Wrap \in Nat \ {0} /\ Chunk \in Nat
  BY FileRecvAssumption
<1>2. rest % Wrap \in Nat
  BY <1>1
<1> QED BY <1>1, <1>2 DEF Request, Lesser

\* What the client asks is a question, what the server sends a message.
LEMMA Built ==
  /\ \A w \in {"list", "size", "data"}, at, n \in Nat :
       [what |-> w, at |-> at, len |-> n] \in Question
  /\ \A k \in {"copy", "list", "contents"}, f \in Named, h \in {"nothing", "data"},
        at, n \in Nat : Reply(k, f, h, at, n) \in Message
  /\ \A k \in {"copy", "list", "contents"}, f \in 1..Files, at, n \in Nat :
       Reply(k, f, "size", at, n) \in Message
  /\ \A m \in Message : Classify(m) \in Filled
  /\ Empty \in Filled
BY FileRecvAssumption DEF Question, Message, Filled, Reply, Classify, Empty, Named, NoFiles

\* The fields of a message.
LEMMA Fields ==
  \A k, f, h, at, n : /\ Reply(k, f, h, at, n).kind = k /\ Reply(k, f, h, at, n).file = f
                      /\ Reply(k, f, h, at, n).holds = h /\ Reply(k, f, h, at, n).at = at
                      /\ Reply(k, f, h, at, n).len = n
BY DEF Reply

\* The replies a server may give to a question.
Answers(q) ==
  LET left == IF cur = 0 THEN 0 ELSE sizes[cur] - q.at
      Content(h, at, n) == Reply("contents", cur, h, at, n)
  IN  {m \in Message :
        \/ q.what = "list" /\ \E f \in {cur, NoFiles} :
             (f = NoFiles => cur = 0) /\ m = Reply("list", f, "nothing", 0, 0)
        \/ q.what = "size" /\ cur # 0 /\ m = Content("size", 0, Eight)
        \/ q.what = "data" /\ \E n \in Nat : n > 0 /\ n <= left /\ m = Content("data", q.at, n)
        \/ q.what = "size" /\ cur = 0 /\ m = Content("nothing", 0, 0)
        \/ q.what = "data" /\ Lesser(q.len, left) <= 0 /\ m = Content("nothing", 0, 0)}

LEMMA ServerGives ==
  ASSUME TypeOK, ServerAnswer
  PROVE  \E m \in Answers(Head(toServer)) : toClient' = Append(toClient, m)
<1> DEFINE q == Head(toServer)
           left == IF cur = 0 THEN 0 ELSE sizes[cur] - q.at
<1>1. q \in Question
  BY DEF ServerAnswer, TypeOK
<1> HIDE DEF q
<1>2. q.at \in Nat /\ q.len \in Nat /\ Eight \in Nat /\ cur \in 0..Files /\ Files \in Nat
  BY <1>1, FileRecvAssumption DEF Question, TypeOK
<1>3. left \in Int
  <2>1. cur # 0 => cur \in 1..Files
    BY <1>2
  <2>2. cur # 0 => sizes[cur] \in Nat
    BY <2>1, FileRecvAssumption DEF TypeOK
  <2> QED BY <1>2, <2>2
<1>4. \/ Names(q)
      \/ q.what = "size" /\ cur # 0 /\ Contents("size", 0, Eight)
      \/ q.what = "data" /\ \E n \in 1..Lesser(q.len, left) : Contents("data", q.at, n)
      \/ q.what = "size" /\ cur = 0 /\ Contents("nothing", 0, 0)
      \/ q.what = "data" /\ Lesser(q.len, left) <= 0 /\ Contents("nothing", 0, 0)
  BY DEF ServerAnswer, q
<1>n. cur \in Named /\ NoFiles \in Named /\ cur # NoFiles
  BY <1>2 DEF Named, NoFiles
<1>5. CASE Names(q)
  <2>1. PICK f \in {cur} \cup (IF cur = 0 THEN {NoFiles} ELSE {}) :
          toClient' = Append(toClient, Reply("list", f, "nothing", 0, 0))
    BY <1>5 DEF Names
  <2>2. f \in Named /\ f \in {cur, NoFiles} /\ (f = NoFiles => cur = 0)
    BY <1>n, <2>1
  <2>3. Reply("list", f, "nothing", 0, 0) \in Message
    BY <2>2, Built
  <2> QED BY <1>5, <2>1, <2>2, <2>3 DEF Names, Answers, q
<1>6. CASE q.what = "size" /\ cur # 0 /\ Contents("size", 0, Eight)
  <2>1. Reply("contents", cur, "size", 0, Eight) \in Message
    BY <1>2, <1>6, Built
  <2> QED BY <1>6, <2>1 DEF Contents, Answers, q
<1>7. ASSUME q.what = "data", NEW n \in 1..Lesser(q.len, left), Contents("data", q.at, n)
      PROVE  \E m \in Answers(q) : toClient' = Append(toClient, m)
  <2>1. n \in Nat /\ n > 0 /\ n <= left
    BY <1>2, <1>3, <1>7 DEF Lesser
  <2>2. Reply("contents", cur, "data", q.at, n) \in Message
    BY <1>2, <1>n, <2>1, Built
  <2> QED BY <1>7, <2>1, <2>2 DEF Contents, Answers
<1>8. CASE q.what \in {"size", "data"} /\ (q.what = "size" => cur = 0)
           /\ (q.what = "data" => Lesser(q.len, left) <= 0) /\ Contents("nothing", 0, 0)
  <2>1. Reply("contents", cur, "nothing", 0, 0) \in Message
    BY <1>n, Built
  <2> QED BY <1>8, <2>1 DEF Contents, Answers, q
<1> QED BY <1>4, <1>5, <1>6, <1>7, <1>8 DEF q

LEMMA TypeInit == Init => TypeOK
<1> SUFFICES ASSUME Init PROVE TypeOK
  OBVIOUS
<1>1. toServer \in Seq(Question) /\ toClient \in Seq(Message)
  BY DEF Init
<1>2. slot \in Filled
  BY Built DEF Init
<1>3. saved.name = 0 /\ saved.len = 0
  BY DEF Init
<1>4. 0 \in 0..Files /\ 0 \in Named
  BY FileRecvAssumption DEF Named, NoFiles
<1>5. /\ pc = "idle" /\ offered = FALSE /\ list = 0 /\ changed = FALSE /\ late = FALSE
      /\ size = 0 /\ offset = 0 /\ held = 0 /\ asked = 0 /\ cur = 0 /\ copied = 0
      /\ sizes \in [1..Files -> Sizes]
  BY DEF Init, None
<1>6. offered \in BOOLEAN /\ changed \in BOOLEAN /\ late \in BOOLEAN
  BY <1>5
<1>7. saved.name \in Named /\ saved.len \in Nat
  BY <1>3, <1>4
<1> QED BY <1>1, <1>2, <1>4, <1>5, <1>6, <1>7 DEF TypeOK

\* Asking the server.
LEMMA Asks ==
  ASSUME TypeOK
  PROVE  \A w \in {"list", "size", "data"}, at, n \in Nat : Ask(w, at, n) \in Seq(Question)
<1> SUFFICES ASSUME NEW w \in {"list", "size", "data"}, NEW at \in Nat, NEW n \in Nat
             PROVE  Ask(w, at, n) \in Seq(Question)
  OBVIOUS
<1>1. [what |-> w, at |-> at, len |-> n] \in Question
  BY Built
<1>2. toServer \in Seq(Question)
  BY DEF TypeOK
<1> QED BY <1>1, <1>2 DEF Ask

\* Taking the next message from the connection.
LEMMA Pulled ==
  ASSUME TypeOK, NEW K, Incoming(K)
  PROVE  /\ toClient # <<>> /\ toClient' = Tail(toClient) /\ toClient' \in Seq(Message)
         /\ Head(toClient) \in Message /\ Head(toClient).kind \in K
BY DEF Incoming, TypeOK

\* The transfer goes on to the next piece.
LEMMA ContinueTypes ==
  ASSUME TypeOK, NEW n \in Nat, NEW at \in Nat, NEW have \in Nat, Continue(n, at, have)
  PROVE  /\ toServer' \in Seq(Question) /\ slot' \in Filled /\ pc' \in {"idle", "data"}
         /\ size' \in Nat /\ offset' \in Nat /\ held' \in Nat /\ asked' \in Nat
         /\ saved.name' \in Named /\ saved.len' \in Nat
<1>1. slot' \in Filled
  BY Built DEF Continue, Fresh
<1>2. CASE at < n
  <2>1. n - at \in Nat
    BY <1>2
  <2>2. Request(n - at) \in Nat
    BY <2>1, RequestIsNat
  <2>3. toServer' \in Seq(Question)
    BY <1>2, <2>2, Asks DEF Continue
  <2> QED BY <1>1, <1>2, <2>2, <2>3 DEF Continue, TypeOK
<1>3. CASE ~(at < n)
  <2>1. saved' = saved \/ (saved.name' = list /\ saved.len' = have)
    BY <1>3 DEF Continue
  <2> QED BY <1>1, <1>3, <2>1 DEF Continue, Return, End, TypeOK
<1> QED BY <1>2, <1>3

\* A size as it is read.
LEMMA SizeTypes ==
  ASSUME TypeOK
  PROVE  \A n \in IF slot.holds = "size" THEN {sizes[slot.file]}
                 ELSE Sizes \cup {Memory + 1} : n \in Nat
<1>1. slot.holds = "size" => slot.file \in 1..Files
  BY DEF TypeOK, Filled
<1> QED BY <1>1, FileRecvAssumption DEF TypeOK

LEMMA TypeStep == TypeOK /\ [Next]_vars => TypeOK'
<1> SUFFICES ASSUME TypeOK, [Next]_vars PROVE TypeOK'
  OBVIOUS
<1> USE DEF net, locals, server, ghost
<1>1. CASE Receive
  <2>1. toClient' \in Seq(Message) /\ Head(toClient) \in Message
    BY <1>1, Pulled DEF Receive, OnRemoteCopy, OnFormatDataResponse, OnFileContentsResponse
  <2>2. slot' \in Filled
    BY <1>1, <2>1, Built DEF Receive, OnRemoteCopy, OnFormatDataResponse,
                            OnFileContentsResponse, TypeOK
  <2>3. list' \in Named
    BY <1>1, <2>1 DEF Receive, OnRemoteCopy, OnFormatDataResponse, OnFileContentsResponse,
                      Message, TypeOK
  <2>4. offered' \in BOOLEAN
    BY <1>1 DEF Receive, OnRemoteCopy, OnFormatDataResponse, OnFileContentsResponse, TypeOK
  <2>5. UNCHANGED <<pc, locals, toServer, server, ghost>>
    BY <1>1 DEF Receive, OnRemoteCopy, OnFormatDataResponse, OnFileContentsResponse
  <2> QED BY <2>1, <2>2, <2>3, <2>4, <2>5 DEF TypeOK
<1>2. CASE RecvClipboardFile
  <2>1. toServer' \in Seq(Question)
    BY <1>2, Asks DEF RecvClipboardFile, TypeOK
  <2>2. 0 \in Named
    BY FileRecvAssumption DEF Named, NoFiles
  <2>3. /\ list' \in {list, 0} /\ pc' \in {"idle", "list"} /\ changed' = FALSE
        /\ size' \in {size, 0} /\ offset' \in {offset, 0} /\ held' \in {held, 0}
        /\ asked' \in {asked, 0}
        /\ UNCHANGED <<offered, slot, toClient, server, late, saved>>
    BY <1>2 DEF RecvClipboardFile, Return, End, None
  <2>4. changed' \in BOOLEAN
    BY <2>3
  <2>5. list' \in Named /\ size' \in Nat /\ offset' \in Nat /\ held' \in Nat /\ asked' \in Nat
    BY <2>2, <2>3 DEF TypeOK
  <2> QED BY <2>1, <2>3, <2>4, <2>5 DEF TypeOK
<1>3. CASE AskSize
  <2>1. toServer' \in Seq(Question) /\ slot' \in Filled
    BY <1>3, Built, Asks DEF AskSize, Fresh, TypeOK
  <2>2. /\ pc' \in {"idle", "size"} /\ size' \in {size, 0} /\ offset' \in {offset, 0}
        /\ held' \in {held, 0} /\ asked' \in {asked, 0}
        /\ UNCHANGED <<offered, list, toClient, server, changed, late, saved>>
    BY <1>3 DEF AskSize, Return, End
  <2> QED BY <2>1, <2>2 DEF TypeOK
<1>4. CASE TakeSize
  <2>1. CASE slot.kind = "size"
    <3>1. PICK n \in Nat : Reserve(n)
      BY <1>4, <2>1, SizeTypes DEF TakeSize
    <3>2. CASE n <= Memory
      <4>1. Continue(n, 0, 0)
        BY <3>1, <3>2 DEF Reserve
      <4> QED BY <1>4, <4>1, ContinueTypes DEF TakeSize, TypeOK
    <3>3. CASE ~(n <= Memory)
      <4>1. slot' \in Filled
        BY <3>1, <3>3, Built DEF Reserve
      <4> QED BY <1>4, <3>1, <3>3, <4>1 DEF Reserve, End, TakeSize, TypeOK
    <3> QED BY <3>2, <3>3
  <2>2. CASE slot.kind # "size"
    <3>1. slot' \in Filled
      BY <1>4, <2>2, Built DEF TakeSize, Reject
    <3> QED BY <1>4, <2>2, <3>1 DEF TakeSize, Reject, Return, End, TypeOK
  <2> QED BY <2>1, <2>2
<1>5. CASE TakeData
  <2>1. CASE slot.kind = "data"
    <3>1. slot.len \in Nat
      BY DEF TypeOK, Filled
    <3>2. offset + Advance(slot.len) \in Nat /\ held + slot.len \in Nat /\ size \in Nat
      BY <3>1 DEF Advance, TypeOK
    <3>3. Continue(size, offset + Advance(slot.len), held + slot.len)
      BY <1>5, <2>1 DEF TakeData
    <3> QED BY <1>5, <3>2, <3>3, ContinueTypes DEF TakeData, TypeOK
  <2>2. CASE slot.kind # "data"
    <3>1. slot' \in Filled
      BY <1>5, <2>2, Built DEF TakeData, Reject
    <3>2. Reject(IF slot.kind = "error" THEN "error" ELSE "misread")
      BY <1>5, <2>2 DEF TakeData
    <3> QED BY <1>5, <3>1, <3>2 DEF TakeData, Reject, Return, End, TypeOK
  <2> QED BY <2>1, <2>2
<1>6. CASE GiveUp
  BY <1>6 DEF GiveUp, Return, End, TypeOK
<1>7. CASE ServerCopy
  <2>1. copied' \in 0..Files /\ cur' \in 0..Files /\ cur' \in Named
    BY <1>7, FileRecvAssumption DEF ServerCopy, TypeOK, Named, NoFiles
  <2>2. Reply("copy", cur', "nothing", 0, 0) \in Message
    BY <2>1, Built
  <2>3. toClient' \in Seq(Message)
    BY <1>7, <2>2 DEF ServerCopy, TypeOK
  <2>4. changed' \in BOOLEAN
    BY <1>7 DEF ServerCopy
  <2> QED BY <1>7, <2>1, <2>3, <2>4 DEF ServerCopy, TypeOK
<1>8. CASE ServerAnswer
  <2>1. PICK m \in Message : toClient' = Append(toClient, m)
    BY <1>8, ServerGives DEF Answers
  <2>2. toClient' \in Seq(Message)
    BY <2>1 DEF TypeOK
  <2>3. toServer' \in Seq(Question)
    BY <1>8 DEF ServerAnswer, TypeOK
  <2> QED BY <1>8, <2>2, <2>3 DEF ServerAnswer, TypeOK
<1>9. CASE UNCHANGED vars
  BY <1>9 DEF vars, TypeOK
<1> QED
  BY <1>1, <1>2, <1>3, <1>4, <1>5, <1>6, <1>7, <1>8, <1>9 DEF Next, Step

------------------------------------------------------------------------------
(* One question at a time. While no request was abandoned there is at most    *)
(* one question or reply under way, it is what the command waits for, and it  *)
(* reads as what it is.                                                       *)

Replies == {"list", "contents"}

\* Nothing under way that answers a question.
Quiet == toServer = <<>> /\ ~Holds(toClient, Replies)

\* An answer without contents: nothing but its length says so.
Failed(m) == m.holds = "nothing" /\ m.len = 0

\* The question the command waits on.
Asked ==
  {q \in Question : q.what = pc /\ (pc = "data" => q.at = offset /\ q.len = asked)}

\* What may fill the slot of the request under way.
Own(m) ==
  /\ pc = "size" => Failed(m) \/ (m.holds = "size" /\ m.len = Eight)
  /\ pc = "data" => Failed(m) \/ (m.holds = "data" /\ m.at = offset /\ m.len > 0)

Answered ==
  {m \in Message : m.kind \in Replies => (m.kind = "list" <=> pc = "list") /\ Own(m)}

\* The command does not wait: it runs, or is not there at all.
Done == pc \in {"idle", "crashed"} \/ (pc = "list" /\ list # None) \/ slot # Empty

Single ==
  /\ One(toClient, Replies) /\ Len(toServer) <= 1
  /\ toServer # <<>> => ~Holds(toClient, Replies)
  /\ Done => Quiet
Matching ==
  /\ slot # Empty => pc \in {"size", "data"} /\ Own(slot)
  /\ slot # Empty => slot.kind = Classify(slot).kind
  /\ All(toServer, Asked) /\ All(toClient, Answered)

OneRequest == ~late => Single /\ Matching

\* One message more towards the client, and one less.
LEMMA SentReply ==
  ASSUME TypeOK, NEW m \in Message, toClient' = Append(toClient, m)
  PROVE  /\ Holds(toClient', Replies) <=> Holds(toClient, Replies) \/ m.kind \in Replies
         /\ One(toClient, Replies) /\ (m.kind \notin Replies \/ ~Holds(toClient, Replies)) =>
              One(toClient', Replies)
BY Sent DEF TypeOK

LEMMA TakenReply ==
  ASSUME TypeOK, toClient # <<>>, toClient' = Tail(toClient)
  PROVE  /\ Holds(toClient, Replies) <=> Holds(toClient', Replies) \/ Head(toClient).kind \in Replies
         /\ One(toClient, Replies) => One(toClient', Replies)
         /\ One(toClient, Replies) /\ Head(toClient).kind \in Replies => ~Holds(toClient', Replies)
BY Taken DEF TypeOK

\* With no reply under way, whatever is said of replies is true.
LEMMA QuietAll ==
  ASSUME NEW q \in Seq(Message), ~Holds(q, Replies), NEW T,
         \A m \in Message : m.kind \notin Replies => m \in T
  PROVE  All(q, T)
BY DEF Holds, All

\* The first question, asked when nothing else is.
LEMMA AsksOne ==
  ASSUME TypeOK, toServer = <<>>, NEW w \in {"list", "size", "data"}, NEW at \in Nat,
         NEW n \in Nat, toServer' = Ask(w, at, n)
  PROVE  /\ Len(toServer') = 1 /\ toServer' # <<>>
         /\ \A T : [what |-> w, at |-> at, len |-> n] \in T => All(toServer', T)
<1> DEFINE m == [what |-> w, at |-> at, len |-> n]
<1>1. m \in Question /\ toServer \in Seq(Question)
  BY Built DEF TypeOK
<1>2. toServer' = Append(toServer, m)
  BY DEF Ask
<1> HIDE DEF m
<1>3. /\ Len(toServer') = 1 /\ DOMAIN toServer' = 1..1 /\ toServer'[1] = m
      /\ toServer' \in Seq(Question)
  BY <1>1, <1>2
<1>4. \A T : m \in T => All(toServer', T)
  BY <1>3 DEF All
<1>5. toServer' # <<>>
  BY <1>3
<1> QED BY <1>3, <1>4, <1>5 DEF m

LEMMA OneInit == Init => OneRequest
<1> SUFFICES ASSUME Init PROVE Single /\ Matching
  BY DEF OneRequest
<1>1. toServer = <<>> /\ toClient = <<>> /\ slot = Empty
  BY DEF Init
<1>2. Single
  BY <1>1 DEF Single, One, Holds, Quiet
<1>3. Matching
  BY <1>1 DEF Matching, All
<1> QED BY <1>2, <1>3

\* A question goes out while nothing else is under way.
LEMMA OneAsks ==
  ASSUME TypeOK, Quiet, UNCHANGED toClient, NEW w \in {"list", "size", "data"},
         NEW at \in Nat, NEW n \in Nat, toServer' = Ask(w, at, n),
         pc' = w, w = "data" => at = offset' /\ n = asked', w = "list" => list' = None, slot' = Empty
  PROVE  Single' /\ Matching'
<1>1. /\ Len(toServer') = 1 /\ toServer' # <<>>
      /\ \A T : [what |-> w, at |-> at, len |-> n] \in T => All(toServer', T)
  BY AsksOne DEF Quiet
<1>2. ~Holds(toClient', Replies) /\ toClient' \in Seq(Message)
  BY DEF Quiet, TypeOK
<1>3. One(toClient', Replies)
  BY <1>2 DEF One, Holds
<1>4. ~Done'
  BY DEF Done
<1>5. Single'
  BY <1>1, <1>2, <1>3, <1>4 DEF Single
<1>6. PICK A : A = Asked'
  OBVIOUS
<1>7. [what |-> w, at |-> at, len |-> n] \in A
  BY <1>6, Built DEF Asked
<1>8. PICK T : T = Answered'
  OBVIOUS
<1>9. All(toClient', T)
  <2>1. \A m \in Message : m.kind \notin Replies => m \in T
    BY <1>8 DEF Answered
  <2>2. PICK q \in Seq(Message) : q = toClient'
    BY <1>2
  <2>3. ~Holds(q, Replies)
    BY <1>2, <2>2
  <2> QED BY <2>1, <2>2, <2>3, QuietAll
<1> QED BY <1>1, <1>5, <1>6, <1>7, <1>8, <1>9 DEF Matching

\* The command is over, or waits no more.
LEMMA OneReturns ==
  ASSUME TypeOK, Quiet, UNCHANGED net, pc' \in {"idle", "crashed"}, slot' = Empty
  PROVE  Single' /\ Matching'
<1>1. Quiet' /\ toClient' \in Seq(Message) /\ toServer' = <<>>
  BY DEF net, Quiet, TypeOK
<1>2. One(toClient', Replies)
  BY <1>1 DEF One, Holds, Quiet
<1>3. Single'
  BY <1>1, <1>2 DEF Single, Quiet
<1>4. PICK T : T = Answered'
  OBVIOUS
<1>5. All(toClient', T)
  <2>1. \A m \in Message : m.kind \notin Replies => m \in T
    BY <1>4 DEF Answered
  <2>2. ~Holds(toClient, Replies) /\ toClient \in Seq(Message) /\ toClient' = toClient
    BY DEF net, Quiet, TypeOK
  <2> QED BY <2>1, <2>2, QuietAll
<1>6. All(toServer', Asked')
  BY <1>1 DEF All
<1> QED BY <1>3, <1>4, <1>5, <1>6 DEF Matching

\* Continue asks for the next piece, or is over.
LEMMA OneContinues ==
  ASSUME TypeOK, Quiet, UNCHANGED toClient, NEW n \in Nat, NEW at \in Nat, NEW have \in Nat,
         Continue(n, at, have)
  PROVE  Single' /\ Matching'
<1>1. CASE at < n
  <2>1. n - at \in Nat
    BY <1>1
  <2>2. Request(n - at) \in Nat
    BY <2>1, RequestIsNat
  <2>3. /\ toServer' = Ask("data", at, Request(n - at)) /\ pc' = "data" /\ at = offset'
        /\ Request(n - at) = asked' /\ slot' = Empty
    BY <1>1 DEF Continue, Fresh
  <2> HIDE DEF Request
  <2> QED BY <2>2, <2>3, OneAsks
<1>2. CASE ~(at < n)
  <2>1. UNCHANGED net /\ pc' = "idle" /\ slot' = Empty
    BY <1>2 DEF Continue, Return, End, net
  <2> QED BY <2>1, OneReturns
<1> QED BY <1>1, <1>2

LEMMA OneStep == TypeOK /\ OneRequest /\ [Next]_vars => OneRequest'
<1> SUFFICES ASSUME TypeOK, OneRequest, [Next]_vars, ~late' PROVE Single' /\ Matching'
  BY DEF OneRequest
<1> USE DEF net, locals, server, ghost
<1>0. Single /\ Matching /\ UNCHANGED late
  <2>1. UNCHANGED late
    BY DEF Next, Receive, OnRemoteCopy, OnFormatDataResponse, OnFileContentsResponse,
           RecvClipboardFile, Step, AskSize, TakeSize, TakeData, GiveUp, ServerCopy,
           ServerAnswer, vars
  <2> QED BY <2>1 DEF OneRequest
<1>m. Empty.kind = "none" /\ \A m : Classify(m) # Empty
  BY DEF Empty, Reply, Classify
<1>1. CASE Receive
  <2>1. /\ toClient # <<>> /\ toClient' = Tail(toClient) /\ toClient' \in Seq(Message)
        /\ Head(toClient) \in Message /\ Pumps
        /\ UNCHANGED <<pc, locals, toServer, server, ghost>>
    BY <1>1, Pulled DEF Receive, OnRemoteCopy, OnFormatDataResponse, OnFileContentsResponse,
                        Incoming
  <2>2. Asked' = Asked /\ Answered' = Answered
    BY <2>1 DEF Asked, Answered, Own, locals
  <2>3. All(toServer', Asked')
    BY <2>1, <2>2, <1>0 DEF Matching
  <2>4. All(toClient', Answered') /\ Head(toClient) \in Answered
    <3>1. PICK T : T = Answered
      OBVIOUS
    <3>2. All(toClient, T) /\ toClient \in Seq(Message)
      BY <1>0, <3>1 DEF Matching, TypeOK
    <3>3. All(Tail(toClient), T) /\ Head(toClient) \in T
      BY <2>1, <3>2, TakenAll
    <3> QED BY <2>1, <2>2, <3>1, <3>3
  <2>5. CASE OnRemoteCopy
    <3>1. Head(toClient).kind \notin Replies
      BY <2>5 DEF OnRemoteCopy, Incoming, Replies
    <3>2. UNCHANGED <<list, slot>>
      BY <2>5 DEF OnRemoteCopy
    <3>3. Holds(toClient', Replies) <=> Holds(toClient, Replies)
      BY <2>1, <3>1, TakenReply
    <3>4. Single'
      BY <1>0, <2>1, <3>2, <3>3, TakenReply DEF Single, Quiet, Done
    <3>5. Matching'
      BY <1>0, <2>1, <2>3, <2>4, <3>2 DEF Matching, Own
    <3> QED BY <3>4, <3>5
  <2>6. CASE OnFormatDataResponse \/ OnFileContentsResponse
    <3>1. Head(toClient).kind \in Replies
      BY <2>6 DEF OnFormatDataResponse, OnFileContentsResponse, Incoming, Replies
    <3>2. ~Holds(toClient', Replies) /\ One(toClient', Replies) /\ Holds(toClient, Replies)
      BY <1>0, <2>1, <3>1, TakenReply DEF Single
    <3>3. toServer' = <<>>
      BY <1>0, <2>1, <3>2 DEF Single
    <3>4. Len(toServer') = 0
      BY <3>3
    <3>5. Single'
      BY <3>2, <3>3, <3>4 DEF Single, Quiet
    <3>6. slot = Empty /\ pc \notin {"idle", "crashed"}
      BY <1>0, <3>2 DEF Single, Done, Quiet
    <3>7. CASE OnFormatDataResponse
      <4>1. UNCHANGED slot
        BY <3>7 DEF OnFormatDataResponse
      <4> QED BY <2>3, <2>4, <3>5, <3>6, <4>1 DEF Matching
    <3>8. CASE OnFileContentsResponse
      <4>1. slot' = Classify(Head(toClient)) /\ Head(toClient).kind = "contents"
        BY <3>8 DEF OnFileContentsResponse, Incoming
      <4>2. pc \in {"size", "data"} /\ Own(Head(toClient))
        BY <2>4, <3>1, <3>6, <4>1 DEF Answered, TypeOK
      <4>3. /\ slot'.holds = Head(toClient).holds /\ slot'.len = Head(toClient).len
            /\ slot'.at = Head(toClient).at
            /\ slot'.kind = Classify(slot').kind
        BY <2>1, <4>1, FileRecvAssumption DEF Classify, Message
      <4>4. Own(slot)'
        BY <2>1, <4>2, <4>3 DEF Own, Failed
      <4> QED BY <2>1, <2>3, <2>4, <3>5, <4>2, <4>3, <4>4 DEF Matching
    <3> QED BY <2>6, <3>7, <3>8
  <2> QED BY <1>1, <2>5, <2>6 DEF Receive
<1>2. CASE RecvClipboardFile
  <2>1. Quiet /\ slot = Empty /\ UNCHANGED <<slot, toClient>> /\ pc = "idle"
    <3>1. pc = "idle" /\ UNCHANGED <<slot, toClient>>
      BY <1>2 DEF RecvClipboardFile
    <3> QED BY <1>0, <3>1 DEF Single, Done, Matching
  <2>2. CASE offered
    BY <1>2, <2>1, <2>2, OneAsks DEF RecvClipboardFile
  <2>3. CASE ~offered
    BY <1>2, <2>1, <2>3, OneReturns DEF RecvClipboardFile, Return, End
  <2> QED BY <2>2, <2>3
<1>3. CASE AskSize
  <2>1. Quiet
    BY <1>0, <1>3 DEF AskSize, Single, Done
  <2>2. CASE list # NoFiles
    <3>1. pc' = "size" /\ slot' = Empty /\ UNCHANGED toClient /\ toServer' = Ask("size", 0, 8)
      BY <1>3, <2>2 DEF AskSize, Fresh
    <3> QED BY <2>1, <3>1, OneAsks
  <2>3. CASE list = NoFiles
    <3>1. slot = Empty
      BY <1>0, <1>3 DEF AskSize, Matching
    <3>2. UNCHANGED net /\ pc' = "idle" /\ slot' = Empty
      BY <1>3, <2>3, <3>1 DEF AskSize, Return, End
    <3> QED BY <2>1, <3>2, OneReturns
  <2> QED BY <2>2, <2>3
<1>4. CASE TakeSize
  <2>1. Quiet /\ UNCHANGED toClient
    BY <1>0, <1>4 DEF TakeSize, Single, Done
  <2>2. CASE slot.kind = "size"
    <3>1. PICK n \in Nat : Reserve(n)
      BY <1>4, <2>2, SizeTypes DEF TakeSize
    <3>2. CASE n <= Memory
      <4>1. Continue(n, 0, 0)
        BY <3>1, <3>2 DEF Reserve
      <4> QED BY <2>1, <4>1, OneContinues
    <3>3. CASE ~(n <= Memory)
      <4>1. UNCHANGED net /\ pc' = "crashed" /\ slot' = Empty
        BY <2>1, <3>1, <3>3 DEF Reserve, End
      <4> QED BY <2>1, <4>1, OneReturns
    <3> QED BY <3>2, <3>3
  <2>3. CASE slot.kind # "size"
    BY <1>4, <2>1, <2>3, OneReturns DEF TakeSize, Reject, Return, End
  <2> QED BY <2>2, <2>3
<1>5. CASE TakeData
  <2>1. Quiet /\ UNCHANGED toClient
    BY <1>0, <1>5 DEF TakeData, Single, Done
  <2>2. CASE slot.kind = "data"
    <3>1. slot.len \in Nat
      BY DEF TypeOK, Filled
    <3>2. offset + Advance(slot.len) \in Nat /\ held + slot.len \in Nat /\ size \in Nat
      BY <3>1 DEF Advance, TypeOK
    <3>3. Continue(size, offset + Advance(slot.len), held + slot.len)
      BY <1>5, <2>2 DEF TakeData
    <3> QED BY <2>1, <3>2, <3>3, OneContinues
  <2>3. CASE slot.kind # "data"
    <3>1. Reject(IF slot.kind = "error" THEN "error" ELSE "misread")
      BY <1>5, <2>3 DEF TakeData
    <3>2. UNCHANGED net /\ pc' = "idle" /\ slot' = Empty
      BY <2>1, <3>1 DEF Reject, Return, End
    <3> QED BY <2>1, <3>2, OneReturns
  <2> QED BY <2>2, <2>3
<1>6. CASE GiveUp
  BY <1>0, <1>6 DEF GiveUp, OneRequest
<1>7. CASE ServerCopy
  <2>1. UNCHANGED <<pc, list, slot, offset, asked, toServer>>
    BY <1>7 DEF ServerCopy
  <2>2. PICK m \in Message : m.kind = "copy" /\ toClient' = Append(toClient, m)
    <3>1. cur' \in Named
      BY <1>7, FileRecvAssumption DEF ServerCopy, TypeOK, Named, NoFiles
    <3>2. Reply("copy", cur', "nothing", 0, 0) \in Message
      BY <3>1, Built
    <3> QED BY <1>7, <3>2, Fields DEF ServerCopy
  <2>3. m.kind \notin Replies
    BY <2>2 DEF Replies
  <2>4. Single'
    BY <1>0, <2>1, <2>2, <2>3, SentReply DEF Single, Quiet, Done
  <2>5. Asked' = Asked /\ Answered' = Answered /\ (Own(slot)' <=> Own(slot))
    BY <2>1 DEF Asked, Answered, Own
  <2>6. All(toClient', Answered')
    <3>1. PICK T : T = Answered
      OBVIOUS
    <3>2. All(toClient, T) /\ toClient \in Seq(Message)
      BY <1>0, <3>1 DEF Matching, TypeOK
    <3>3. m \in T
      BY <2>3, <3>1 DEF Answered
    <3>4. All(toClient', T)
      BY <2>2, <3>2, <3>3, SentAll
    <3> QED BY <2>5, <3>1, <3>4
  <2> QED BY <1>0, <2>1, <2>4, <2>5, <2>6 DEF Matching
<1>8. CASE ServerAnswer
  <2>1. /\ toServer # <<>> /\ toServer' = Tail(toServer) /\ toServer \in Seq(Question)
        /\ UNCHANGED <<pc, list, slot, offset, asked>>
    BY <1>8 DEF ServerAnswer, TypeOK
  <2>2. PICK m \in Answers(Head(toServer)) : toClient' = Append(toClient, m)
    BY <1>8, ServerGives
  <2>3. ~Holds(toClient, Replies) /\ ~Done
    BY <1>0, <2>1 DEF Single, Quiet
  <2>4. toServer' = <<>> /\ Len(toServer') = 0
    <3>1. PICK q \in Seq(Question) : q = toServer
      BY <2>1
    <3>2. Len(q) <= 1 /\ q # <<>>
      BY <1>0, <2>1, <3>1 DEF Single
    <3>3. Tail(q) \in Seq(Question) /\ Len(Tail(q)) = Len(q) - 1 /\ Len(q) \in Nat \ {0}
      BY <3>2
    <3>4. Tail(q) = <<>> /\ Len(Tail(q)) = 0
      BY <3>2, <3>3
    <3> QED BY <2>1, <3>1, <3>4
  <2>5. Head(toServer) \in Asked
    BY <1>0, <2>1 DEF Matching, All
  <2>6. m \in Message /\ m \in Answered
    <3>1. m \in Message /\ pc \notin {"idle", "crashed"}
      BY <2>2, <2>3 DEF Answers, Done
    <3>2. m.kind = "list" <=> pc = "list"
      BY <2>2, <2>5, Fields DEF Answers, Asked
    <3>3. Own(m)
      BY <2>2, <2>5, Fields DEF Answers, Asked, Own, Failed
    <3> QED BY <3>1, <3>2, <3>3 DEF Answered
  <2>7. Single'
    <3>1. One(toClient', Replies)
      BY <1>0, <2>2, <2>3, <2>6, SentReply DEF Single
    <3>2. ~Done'
      BY <2>1, <2>3 DEF Done
    <3> QED BY <2>4, <3>1, <3>2 DEF Single
  <2>8. Asked' = Asked /\ Answered' = Answered /\ (Own(slot)' <=> Own(slot))
    BY <2>1 DEF Asked, Answered, Own
  <2>9. All(toClient', Answered')
    <3>1. PICK T : T = Answered
      OBVIOUS
    <3>2. All(toClient, T) /\ toClient \in Seq(Message) /\ m \in T
      BY <1>0, <2>6, <3>1 DEF Matching, TypeOK
    <3>3. All(toClient', T)
      BY <2>2, <2>6, <3>2, SentAll
    <3> QED BY <2>8, <3>1, <3>3
  <2>10. All(toServer', Asked')
    BY <2>4 DEF All
  <2> QED BY <1>0, <2>1, <2>7, <2>8, <2>9, <2>10 DEF Matching
<1>9. CASE UNCHANGED vars
  BY <1>0, <1>9 DEF vars, Single, Matching, Quiet, Done, Asked, Answered, Own
<1> QED
  BY <1>1, <1>2, <1>3, <1>4, <1>5, <1>6, <1>7, <1>8, <1>9 DEF Next, Step

------------------------------------------------------------------------------
(* The right file. While nothing was copied since the command began either,   *)
(* the list, the size and every piece are of the file on the clipboard.       *)

\* A piece of the file lies within it.
Whole(m) == m.holds = "data" => m.len <= sizes[cur] - m.at

\* A reply is about the file on the clipboard, and a size is known of it; only
\* a request for nothing gets nothing.
Concerns(m) ==
  /\ m.file = cur \/ (cur = 0 /\ m.file = NoFiles)
  /\ pc = "size" => m.holds = "size"
  /\ pc = "data" => Whole(m) /\ (Failed(m) => asked = 0)
About == {m \in Message : m.kind \in Replies => Concerns(m)}

\* The transfer is so far what the server has.
UpToHere ==
  /\ pc \in {"size", "data"} \/ (pc = "list" /\ list \notin {None, NoFiles}) =>
       list = cur /\ cur # 0
  /\ pc = "data" => /\ size = sizes[cur] /\ held = offset /\ offset < size /\ clean
                    /\ asked = Request(size - offset)
Calm ==
  ~late /\ ~changed =>
    /\ UpToHere /\ All(toClient, About)
    /\ slot # Empty => Concerns(slot)

LEMMA CalmInit == Init => Calm /\ SavedIntact
<1> SUFFICES ASSUME Init PROVE Calm /\ SavedIntact
  OBVIOUS
<1>1. toClient = <<>> /\ slot = Empty /\ pc = "idle" /\ saved.name = 0
  BY DEF Init
<1> QED BY <1>1 DEF Calm, UpToHere, SavedIntact, All

\* Where no reply is under way, none is about another file.
LEMMA QuietAbout ==
  ASSUME TypeOK, Quiet, UNCHANGED toClient
  PROVE  All(toClient', About')
<1>1. PICK T : T = About'
  OBVIOUS
<1>2. \A m \in Message : m.kind \notin Replies => m \in T
  BY <1>1 DEF About
<1>3. ~Holds(toClient, Replies) /\ toClient \in Seq(Message)
  BY DEF Quiet, TypeOK
<1>4. All(toClient, T)
  BY <1>2, <1>3, QuietAll
<1> QED BY <1>1, <1>4

\* A piece that was taken in a calm transfer leaves it calm, and a file that
\* is complete is saved as it is on the server.
LEMMA CalmContinues ==
  ASSUME TypeOK, Quiet, SavedIntact, UNCHANGED <<list, toClient, server, changed, late>>,
         NEW n \in Nat, NEW at \in Nat, NEW have \in Nat, Continue(n, at, have),
         ~late /\ ~changed => /\ list = cur /\ cur # 0 /\ clean' /\ n = sizes[cur]
                              /\ have = at /\ at <= n
  PROVE  Calm' /\ SavedIntact'
<1> USE DEF server
<1>1. All(toClient', About') /\ slot' = Empty
  BY QuietAbout DEF Continue, Fresh
<1>2. ~late' /\ ~changed' => UpToHere'
  <2>1. CASE at < n
    BY <2>1 DEF Continue, UpToHere
  <2>2. CASE ~(at < n)
    BY <2>2 DEF Continue, Return, End, UpToHere
  <2> QED BY <2>1, <2>2
<1>3. SavedIntact'
  <2>1. CASE at < n
    BY <2>1 DEF Continue, SavedIntact
  <2>2. CASE ~(at < n)
    <3>1. /\ sizes' = sizes
          /\ \/ saved' = saved
             \/ /\ saved.name' = list /\ saved.len' = have /\ saved.clean' = clean'
                /\ saved.sure' = (~changed /\ ~late)
      BY <2>2 DEF Continue
    <3>2. ASSUME ~late, ~changed PROVE have = sizes[list] /\ clean'
      <4>1. list = cur /\ clean' /\ n = sizes[cur] /\ have = at /\ at <= n
        BY <3>2
      <4>2. have = n
        BY <2>2, <4>1
      <4> QED BY <4>1, <4>2
    <3> QED BY <3>1, <3>2 DEF SavedIntact
  <2> QED BY <2>1, <2>2
<1> QED BY <1>1, <1>2, <1>3 DEF Calm

\* A command that is over says nothing of the server.
LEMMA CalmReturns ==
  ASSUME TypeOK, Quiet, SavedIntact, UNCHANGED <<toClient, sizes, saved>>,
         pc' \in {"idle", "crashed"} \/ (pc' = "list" /\ list' = None), slot' = Empty
  PROVE  Calm' /\ SavedIntact'
<1>1. All(toClient', About')
  BY QuietAbout
<1>2. UpToHere'
  BY DEF UpToHere
<1> QED BY <1>1, <1>2 DEF Calm, SavedIntact

\* The same where the standing of earlier requests decides whether it is calm.
LEMMA CalmTakes ==
  ASSUME TypeOK, ~late => Single, pc \in {"size", "data"}, slot # Empty, SavedIntact,
         UNCHANGED <<list, toClient, server, changed, late>>,
         NEW n \in Nat, NEW at \in Nat, NEW have \in Nat, Continue(n, at, have),
         ~late /\ ~changed => /\ list = cur /\ cur # 0 /\ clean' /\ n = sizes[cur]
                              /\ have = at /\ at <= n
  PROVE  Calm' /\ SavedIntact'
<1>1. CASE ~late
  BY <1>1, CalmContinues DEF Single, Done
<1>2. CASE late
  <2>1. late'
    BY <1>2
  <2>2. CASE at < n
    BY <2>1, <2>2 DEF Continue, Calm, SavedIntact, server
  <2>3. CASE ~(at < n)
    <3>1. saved' = saved \/ saved.sure' = (~changed /\ ~late)
      BY <2>3 DEF Continue
    <3>2. UNCHANGED saved \/ ~saved.sure'
      BY <1>2, <3>1
    <3> QED BY <2>1, <3>2 DEF Calm, SavedIntact, server
  <2> QED BY <2>2, <2>3
<1> QED BY <1>1, <1>2

LEMMA CalmStops ==
  ASSUME TypeOK, ~late => Single, slot # Empty, SavedIntact,
         UNCHANGED <<toClient, server, late, saved>>, pc' \in {"idle", "crashed"}, slot' = Empty
  PROVE  Calm' /\ SavedIntact'
<1> USE DEF server
<1>1. CASE ~late
  BY <1>1, CalmReturns DEF Single, Done
<1>2. CASE late
  BY <1>2 DEF Calm, SavedIntact
<1> QED BY <1>1, <1>2

LEMMA CalmStep ==
  TypeOK /\ OneRequest /\ Calm /\ SavedIntact /\ [Next]_vars => Calm' /\ SavedIntact'
<1> SUFFICES ASSUME TypeOK, OneRequest, Calm, SavedIntact, [Next]_vars
             PROVE  Calm' /\ SavedIntact'
  OBVIOUS
<1> USE DEF net, locals, server, ghost
<1>l. late => late'
  BY DEF Next, Receive, OnRemoteCopy, OnFormatDataResponse, OnFileContentsResponse,
         RecvClipboardFile, Step, AskSize, TakeSize, TakeData, GiveUp, ServerCopy,
         ServerAnswer, vars
<1>0. ~late => Single /\ Matching
  BY DEF OneRequest
<1>m. Empty.kind = "none" /\ \A m : Classify(m) # Empty
  BY DEF Empty, Reply, Classify
<1>1. CASE Receive
  <2>1. /\ toClient # <<>> /\ toClient' = Tail(toClient) /\ toClient \in Seq(Message)
        /\ Head(toClient) \in Message /\ Pumps
        /\ UNCHANGED <<pc, locals, toServer, server, ghost>>
    BY <1>1, Pulled DEF Receive, OnRemoteCopy, OnFormatDataResponse, OnFileContentsResponse,
                        Incoming, TypeOK
  <2>2. SavedIntact'
    BY <2>1 DEF SavedIntact
  <2> SUFFICES ASSUME ~late, ~changed
               PROVE  UpToHere' /\ All(toClient', About') /\ (slot' # Empty => Concerns(slot)')
    BY <2>1, <2>2 DEF Calm
  <2>3. /\ UpToHere /\ All(toClient, About) /\ (slot # Empty => Concerns(slot))
        /\ Single /\ Matching
    BY <1>0 DEF Calm
  <2>4. About' = About
    BY <2>1 DEF About, Concerns, Whole
  <2>5. All(toClient', About') /\ Head(toClient) \in About
    <3>1. PICK T : T = About
      OBVIOUS
    <3>2. All(toClient, T)
      BY <2>3, <3>1
    <3>3. All(Tail(toClient), T) /\ Head(toClient) \in T
      BY <2>1, <3>2, TakenAll
    <3> QED BY <2>1, <2>4, <3>1, <3>3
  <2>6. CASE OnRemoteCopy
    <3>1. UNCHANGED <<list, slot>>
      BY <2>6 DEF OnRemoteCopy
    <3> QED BY <2>1, <2>3, <2>5, <3>1 DEF UpToHere, Concerns, Whole
  <2>7. CASE OnFormatDataResponse
    <3>1. Head(toClient).kind = "list" /\ UNCHANGED slot
      BY <2>7 DEF OnFormatDataResponse, Incoming
    <3>2. Head(toClient) \in Answered
      <4>1. PICK T : T = Answered
        OBVIOUS
      <4>2. Head(toClient) \in T
        BY <2>1, <2>3, <4>1, TakenAll DEF Matching
      <4> QED BY <4>1, <4>2
    <3>3. /\ pc = "list"
          /\ Head(toClient).file = cur \/ (cur = 0 /\ Head(toClient).file = NoFiles)
      BY <2>5, <3>1, <3>2 DEF Answered, About, Concerns, Replies
    <3>4. UpToHere'
      BY <2>1, <2>3, <2>7, <3>3 DEF OnFormatDataResponse, UpToHere, None
    <3> QED BY <2>1, <2>3, <2>5, <3>1, <3>4 DEF Concerns, Whole
  <2>8. CASE OnFileContentsResponse
    <3>1. /\ slot' = Classify(Head(toClient)) /\ Head(toClient).kind = "contents"
          /\ UNCHANGED list
      BY <2>8 DEF OnFileContentsResponse, Incoming
    <3>2. Concerns(Head(toClient))
      BY <2>5, <3>1 DEF About, Replies
    <3>3. /\ slot'.holds = Head(toClient).holds /\ slot'.len = Head(toClient).len
          /\ slot'.at = Head(toClient).at /\ slot'.file = Head(toClient).file
      BY <2>1, <3>1 DEF Classify, Message
    <3>4. Concerns(slot)'
      BY <2>1, <3>2, <3>3 DEF Concerns, Whole, Failed
    <3> QED BY <2>1, <2>3, <2>5, <3>1, <3>4 DEF UpToHere
  <2> QED BY <1>1, <2>6, <2>7, <2>8 DEF Receive
<1>2. CASE RecvClipboardFile
  <2>1. UNCHANGED <<slot, toClient, server, late, saved>> /\ pc = "idle"
    BY <1>2 DEF RecvClipboardFile
  <2>2. CASE late
    BY <2>1, <2>2 DEF Calm, SavedIntact
  <2>3. CASE ~late
    <3>1. Quiet /\ slot = Empty
      BY <1>0, <2>1, <2>3 DEF Single, Done, Matching
    <3>2. pc' = "idle" \/ (pc' = "list" /\ list' = None)
      BY <1>2 DEF RecvClipboardFile, Return, End
    <3> QED BY <2>1, <3>1, <3>2, CalmReturns
  <2> QED BY <2>2, <2>3
<1>3. CASE AskSize
  <2>1. UNCHANGED <<list, toClient, server, changed, late, saved>> /\ pc = "list" /\ list # None
    BY <1>3 DEF AskSize
  <2>2. SavedIntact'
    BY <2>1 DEF SavedIntact
  <2> SUFFICES ASSUME ~late, ~changed
               PROVE  UpToHere' /\ All(toClient', About') /\ (slot' # Empty => Concerns(slot)')
    BY <2>1, <2>2 DEF Calm
  <2>3. UpToHere /\ Quiet
    BY <1>0, <2>1 DEF Calm, Single, Done
  <2>4. All(toClient', About')
    BY <2>1, <2>3, QuietAbout
  <2>5. CASE list # NoFiles
    <3>1. pc' = "size" /\ slot' = Empty
      BY <1>3, <2>5 DEF AskSize, Fresh
    <3> QED BY <2>1, <2>3, <2>4, <2>5, <3>1 DEF UpToHere
  <2>6. CASE list = NoFiles
    <3>1. pc' = "idle" /\ UNCHANGED slot /\ slot = Empty
      BY <1>0, <1>3, <2>1, <2>6 DEF AskSize, Return, End, Matching
    <3> QED BY <2>4, <3>1 DEF UpToHere
  <2> QED BY <2>5, <2>6
<1>4. CASE TakeSize
  <2>1. UNCHANGED <<list, toClient, server, changed, late>> /\ pc = "size" /\ slot # Empty
    BY <1>4 DEF TakeSize
  <2>2. CASE slot.kind = "size"
    <3>1. PICK n \in IF slot.holds = "size" THEN {sizes[slot.file]}
                      ELSE Sizes \cup {Memory + 1} : Reserve(n)
      BY <1>4, <2>2 DEF TakeSize
    <3>2. n \in Nat
      BY <3>1, SizeTypes
    <3>3. ~late /\ ~changed => list = cur /\ cur # 0 /\ n = sizes[cur]
      BY <2>1, <3>1 DEF Calm, UpToHere, Concerns
    <3>4. clean'
      BY <1>4, <2>2 DEF TakeSize
    <3>5. CASE n <= Memory
      <4>1. Continue(n, 0, 0)
        BY <3>1, <3>5 DEF Reserve
      <4> QED BY <1>0, <2>1, <3>2, <3>3, <3>4, <4>1, CalmTakes
    <3>6. CASE ~(n <= Memory)
      <4>1. pc' = "crashed" /\ slot' = Empty /\ UNCHANGED saved
        BY <3>1, <3>6 DEF Reserve, End
      <4> QED BY <1>0, <2>1, <4>1, CalmStops
    <3> QED BY <3>5, <3>6
  <2>3. CASE slot.kind # "size"
    <3>1. pc' = "idle" /\ slot' = Empty /\ UNCHANGED saved
      BY <1>4, <2>3 DEF TakeSize, Reject, Return, End
    <3> QED BY <1>0, <2>1, <3>1, CalmStops
  <2> QED BY <2>2, <2>3
<1>5. CASE TakeData
  <2>1. UNCHANGED <<list, toClient, server, changed, late>> /\ pc = "data" /\ slot # Empty
    BY <1>5 DEF TakeData
  <2>2. CASE slot.kind = "data"
    <3>1. slot.len \in Nat
      BY DEF TypeOK, Filled
    <3>2. offset + slot.len \in Nat /\ held + slot.len \in Nat /\ size \in Nat
      BY <3>1 DEF TypeOK
    <3>3. Continue(size, offset + slot.len, held + slot.len)
      BY <1>5, <2>2 DEF TakeData, Advance
    <3>4. ASSUME ~late, ~changed
          PROVE  /\ list = cur /\ cur # 0 /\ clean' /\ size = sizes[cur]
                 /\ held + slot.len = offset + slot.len /\ offset + slot.len <= size
      <4>1. /\ list = cur /\ cur # 0 /\ size = sizes[cur] /\ held = offset /\ clean
            /\ slot.file = cur /\ Whole(slot)
        BY <2>1, <3>4 DEF Calm, UpToHere, Concerns
      <4>2. slot.len # 0 /\ slot.holds = "data" /\ slot.at = offset
        BY <1>0, <2>1, <2>2, <3>4 DEF Matching, Own, Failed, Classify
      <4>3. slot.len <= size - offset
        BY <4>1, <4>2 DEF Whole
      <4>4. offset + slot.len <= size
        BY <3>1, <4>3 DEF TypeOK
      <4>5. clean'
        BY <1>5, <2>2, <4>1, <4>2 DEF TakeData
      <4> QED BY <4>1, <4>4, <4>5
    <3> QED BY <1>0, <2>1, <3>2, <3>3, <3>4, CalmTakes
  <2>3. CASE slot.kind # "data"
    <3>1. Reject(IF slot.kind = "error" THEN "error" ELSE "misread")
      BY <1>5, <2>3 DEF TakeData
    <3>2. pc' = "idle" /\ slot' = Empty /\ UNCHANGED saved
      BY <3>1 DEF Reject, Return, End
    <3> QED BY <1>0, <2>1, <3>2, CalmStops
  <2> QED BY <2>2, <2>3
<1>6. CASE GiveUp
  <2>1. late' /\ UNCHANGED <<sizes, saved>>
    BY <1>6 DEF GiveUp
  <2> QED BY <2>1 DEF Calm, SavedIntact
<1>7. CASE ServerCopy
  <2>1. /\ UNCHANGED <<pc, list, slot, sizes, late, saved>>
        /\ ~changed' => pc = "idle"
    BY <1>7 DEF ServerCopy
  <2>2. SavedIntact'
    BY <2>1 DEF SavedIntact
  <2> SUFFICES ASSUME ~late, ~changed'
               PROVE  UpToHere' /\ All(toClient', About') /\ (slot' # Empty => Concerns(slot)')
    BY <2>1, <2>2 DEF Calm
  <2>3. Quiet /\ slot = Empty
    BY <1>0, <2>1 DEF Single, Done, Matching
  <2>4. PICK m \in Message : m.kind = "copy" /\ toClient' = Append(toClient, m)
    <3>1. cur' \in Named
      BY <1>7, FileRecvAssumption DEF ServerCopy, TypeOK, Named, NoFiles
    <3>2. Reply("copy", cur', "nothing", 0, 0) \in Message
      BY <3>1, Built
    <3> QED BY <1>7, <3>2, Fields DEF ServerCopy
  <2>5. ~Holds(toClient', Replies)
    BY <2>3, <2>4, SentReply DEF Quiet, Replies
  <2>6. All(toClient', About')
    <3>1. PICK T : T = About'
      OBVIOUS
    <3>2. \A x \in Message : x.kind \notin Replies => x \in T
      BY <3>1 DEF About
    <3>3. PICK q \in Seq(Message) : q = toClient'
      BY <2>4, AppendFacts DEF TypeOK
    <3>4. ~Holds(q, Replies)
      BY <2>5, <3>3
    <3> QED BY <3>1, <3>2, <3>3, <3>4, QuietAll
  <2> QED BY <2>1, <2>3, <2>6 DEF UpToHere
<1>8. CASE ServerAnswer
  <2>1. /\ toServer # <<>> /\ toServer \in Seq(Question)
        /\ UNCHANGED <<pc, list, slot, locals, server, ghost>>
    BY <1>8 DEF ServerAnswer, TypeOK
  <2>2. SavedIntact'
    BY <2>1 DEF SavedIntact
  <2> SUFFICES ASSUME ~late, ~changed
               PROVE  UpToHere' /\ All(toClient', About') /\ (slot' # Empty => Concerns(slot)')
    BY <2>1, <2>2 DEF Calm
  <2>3. /\ UpToHere /\ All(toClient, About) /\ (slot # Empty => Concerns(slot))
        /\ Single /\ Matching
    BY <1>0 DEF Calm
  <2>4. PICK m \in Answers(Head(toServer)) : toClient' = Append(toClient, m)
    BY <1>8, ServerGives
  <2>5. Head(toServer) \in Asked
    BY <2>1, <2>3 DEF Matching, All
  <2>6. m \in Message /\ m \in About
    <3>1. m \in Message
      BY <2>4 DEF Answers
    <3>2. /\ m.file = cur \/ (cur = 0 /\ m.file = NoFiles)
          /\ m.kind = "contents" => m.kind \in Replies
      BY <2>4, Fields DEF Answers, Replies
    <3>3. pc = "size" => m.holds = "size"
      BY <2>3, <2>4, <2>5, Fields DEF Answers, Asked, UpToHere
    <3>4. pc = "data" => Whole(m)
      BY <2>3, <2>4, <2>5, Fields DEF Answers, Asked, UpToHere, Whole
    <3>5. pc = "data" /\ Failed(m) => asked = 0
      <4> SUFFICES ASSUME pc = "data", Failed(m) PROVE asked = 0
        OBVIOUS
      <4>1. cur # 0 /\ offset < size /\ size = sizes[cur]
        BY <2>3 DEF UpToHere
      <4>2. Head(toServer).at = offset /\ Head(toServer).len = asked /\ Head(toServer).what = "data"
        BY <2>5 DEF Asked
      <4>3. Lesser(asked, sizes[cur] - offset) <= 0
        BY <2>4, <4>1, <4>2, Fields DEF Answers, Failed
      <4> QED BY <4>1, <4>3 DEF Lesser, TypeOK
    <3> QED BY <3>1, <3>2, <3>3, <3>4, <3>5 DEF About, Concerns
  <2>7. About' = About
    BY <2>1 DEF About, Concerns, Whole
  <2>8. All(toClient', About')
    <3>1. PICK T : T = About
      OBVIOUS
    <3>2. All(toClient, T) /\ toClient \in Seq(Message) /\ m \in T
      BY <2>3, <2>6, <3>1 DEF TypeOK
    <3>3. All(toClient', T)
      BY <2>4, <2>6, <3>2, SentAll
    <3> QED BY <2>7, <3>1, <3>3
  <2> QED BY <2>1, <2>3, <2>8 DEF UpToHere, Concerns, Whole
<1>9. CASE UNCHANGED vars
  BY <1>9 DEF vars, Calm, UpToHere, About, Concerns, Whole, SavedIntact
<1> QED
  BY <1>1, <1>2, <1>3, <1>4, <1>5, <1>6, <1>7, <1>8, <1>9 DEF Next, Step

------------------------------------------------------------------------------
(* Why a transfer fails. *)

\* Only where a multiple of Wrap is to come is nothing asked for.
LEMMA AsksNothing ==
  ASSUME NEW rest \in Nat, Request(rest) = 0
  PROVE  rest % Wrap = 0
<1>1. Wrap \in Nat \ {0} /\ Chunk \in Nat \ {0}
  BY FileRecvAssumption
<1>2. rest % Wrap \in Nat
  BY <1>1
<1> QED BY <1>1, <1>2 DEF Request, Lesser

LEMMA CauseStep ==
  TypeOK /\ OneRequest /\ Calm /\ FailsForCause /\ [Next]_vars => FailsForCause'
<1> SUFFICES ASSUME TypeOK, OneRequest, Calm, FailsForCause, [Next]_vars, ~changed', ~late'
             PROVE  FailsForCause'
  BY DEF FailsForCause
<1> USE DEF net, locals, server, ghost
<1>1. CASE UNCHANGED <<failure, sizes>> /\ ~changed /\ ~late
  BY <1>1 DEF FailsForCause
<1>2. ASSUME UNCHANGED sizes,
             failure'.why \in {"none", "refused", "empty", "unwritten", "timeout"}
      PROVE  FailsForCause'
  BY <1>2 DEF FailsForCause
<1>3. CASE Receive
  BY <1>1, <1>3 DEF Receive, OnRemoteCopy, OnFormatDataResponse, OnFileContentsResponse
<1>4. CASE RecvClipboardFile
  <2>1. UNCHANGED sizes /\ failure'.why \in {"none", "refused"}
    BY <1>4 DEF RecvClipboardFile, Return, End, Failure
  <2> QED BY <1>2, <2>1
<1>5. CASE AskSize
  <2>1. ~changed /\ ~late /\ UNCHANGED sizes
    BY <1>5 DEF AskSize
  <2>2. UNCHANGED failure \/ failure' = Failure("empty", slot, size - offset)
    BY <1>5 DEF AskSize, Return, End
  <2>3. UNCHANGED failure \/ failure'.why = "empty"
    BY <2>2 DEF Failure
  <2> QED BY <1>1, <1>2, <2>1, <2>3
<1>6. CASE TakeSize
  <2>1. pc = "size" /\ slot # Empty /\ ~changed /\ ~late /\ UNCHANGED sizes
    BY <1>6 DEF TakeSize
  <2>2. slot.holds = "size" /\ slot.kind = Classify(slot).kind /\ Own(slot)
    BY <2>1 DEF OneRequest, Matching, Calm, Concerns
  <2>3. slot.kind = "size"
    BY <2>1, <2>2, FileRecvAssumption DEF Own, Failed, Classify, TypeOK, Filled
  <2>4. Reserve(sizes[slot.file])
    BY <1>6, <2>2, <2>3 DEF TakeSize
  <2>5. CASE sizes[slot.file] <= Memory
    <3>1. Continue(sizes[slot.file], 0, 0)
      BY <2>4, <2>5 DEF Reserve
    <3>2. UNCHANGED failure \/ failure'.why \in {"none", "unwritten"}
      BY <3>1 DEF Continue, Return, End, Failure
    <3> QED BY <1>1, <1>2, <2>1, <3>2
  <2>6. CASE ~(sizes[slot.file] <= Memory)
    <3>1. failure' = Failure("memory", slot, sizes[slot.file])
      BY <2>4, <2>6 DEF Reserve, End
    <3> QED BY <2>1, <3>1 DEF FailsForCause, Failure
  <2> QED BY <2>5, <2>6
<1>7. CASE TakeData
  <2>1. pc = "data" /\ slot # Empty /\ ~changed /\ ~late /\ UNCHANGED sizes
    BY <1>7 DEF TakeData
  <2>2. CASE slot.kind = "data"
    <3>1. Continue(size, offset + Advance(slot.len), held + slot.len)
      BY <1>7, <2>2 DEF TakeData
    <3>2. UNCHANGED failure \/ failure'.why \in {"none", "unwritten"}
      BY <3>1 DEF Continue, Return, End, Failure
    <3> QED BY <1>1, <1>2, <2>1, <3>2
  <2>3. CASE slot.kind # "data"
    <3>1. failure' = Failure(IF slot.kind = "error" THEN "error" ELSE "misread",
                             slot, size - offset)
      BY <1>7, <2>3 DEF TakeData, Reject, Return, End
    <3>2. /\ slot.kind = Classify(slot).kind /\ Own(slot) /\ Concerns(slot) /\ offset < size
          /\ asked = Request(size - offset)
      BY <2>1 DEF OneRequest, Matching, Calm, UpToHere
    <3>3. slot.len \in Nat /\ Eight \in Nat \ {0} /\ size - offset \in Nat /\ size - offset > 0
      BY <3>2, FileRecvAssumption DEF TypeOK, Filled
    <3>4. CASE slot.kind = "error"
      <4>1. slot.len = 0
        BY <3>2, <3>4 DEF Classify
      <4>2. asked = 0
        BY <2>1, <3>2, <4>1 DEF Own, Concerns
      <4>3. (size - offset) % Wrap = 0
        BY <3>2, <3>3, <4>2, AsksNothing
      <4> QED BY <2>1, <3>1, <3>3, <3>4, <4>3 DEF FailsForCause, Failure
    <3>5. CASE slot.kind # "error"
      <4>1. slot.len = Eight
        BY <2>3, <3>2, <3>5 DEF Classify
      <4>2. slot.holds = "data"
        BY <2>1, <3>2, <3>3, <4>1 DEF Own, Failed
      <4> QED BY <2>1, <3>1, <3>5, <4>1, <4>2 DEF FailsForCause, Failure
    <3> QED BY <3>4, <3>5
  <2> QED BY <2>2, <2>3
<1>8. CASE GiveUp
  BY <1>8 DEF GiveUp
<1>9. CASE ServerCopy
  <2>1. ~changed /\ ~late /\ UNCHANGED <<failure, sizes>>
    BY <1>9 DEF ServerCopy
  <2> QED BY <1>1, <2>1
<1>10. CASE ServerAnswer
  BY <1>1, <1>10 DEF ServerAnswer
<1>11. CASE UNCHANGED vars
  BY <1>1, <1>11 DEF vars
<1> QED
  BY <1>3, <1>4, <1>5, <1>6, <1>7, <1>8, <1>9, <1>10, <1>11 DEF Next, Step

------------------------------------------------------------------------------
\* What is said of a transfer is an invariant.
LEMMA TransferInvariant == Spec => [](TypeOK /\ OneRequest /\ Calm /\ SavedIntact)
<1>1. Init => TypeOK /\ OneRequest /\ Calm /\ SavedIntact
  BY TypeInit, OneInit, CalmInit
<1>2. TypeOK /\ OneRequest /\ Calm /\ SavedIntact /\ [Next]_vars =>
        (TypeOK /\ OneRequest /\ Calm /\ SavedIntact)'
  BY TypeStep, OneStep, CalmStep
<1> QED BY <1>1, <1>2, PTL DEF Spec

\* A file received with no copy and no abandoned request in between is the one
\* on the server's clipboard, whole and in order, whatever the pieces it came
\* in (session.rs:1564-1584): for every number and size of files, every chunk
\* and every number of transfers.
THEOREM AlwaysIntact == Spec => []SavedIntact
BY TransferInvariant, PTL

\* And a transfer fails for no other cause than those named.
THEOREM AlwaysForCause == Spec => []FailsForCause
<1>1. Init => FailsForCause
  BY DEF Init, FailsForCause, Failure
<1>2. TypeOK /\ OneRequest /\ Calm /\ FailsForCause /\ [Next]_vars => FailsForCause'
  BY CauseStep
<1> QED BY <1>1, <1>2, TransferInvariant, PTL DEF Spec

==============================================================================
