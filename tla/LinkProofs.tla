----------------------------- MODULE LinkProofs -----------------------------
(***************************************************************************)
(* Proofs about Link, for every set of orders, every first number and      *)
(* every bound.                                                            *)
(***************************************************************************)
EXTENDS Link, TLAPS, SequenceTheorems

-----------------------------------------------------------------------------
(* Queues *)

\* What a queue holds once a message is appended.
LEMMA Appended ==
  ASSUME NEW S, NEW q \in Seq(S), NEW m \in S
  PROVE  /\ Append(q, m) \in Seq(S) /\ Append(q, m) # <<>>
         /\ Len(Append(q, m)) = Len(q) + 1
         /\ ToSet(Append(q, m)) = ToSet(q) \cup {m}
<1>1. /\ Append(q, m) \in Seq(S) /\ Append(q, m) # <<>>
      /\ Len(Append(q, m)) = Len(q) + 1
      /\ \A k \in 1..Len(q) : Append(q, m)[k] = q[k]
      /\ Append(q, m)[Len(q) + 1] = m
  BY AppendProperties
<1>2. Len(q) \in Nat /\ DOMAIN q = 1..Len(q) /\ DOMAIN Append(q, m) = 1..(Len(q) + 1)
  BY <1>1, LenProperties
<1>3. ToSet(Append(q, m)) \subseteq ToSet(q) \cup {m}
  BY <1>1, <1>2 DEF ToSet
<1>4. ToSet(q) \cup {m} \subseteq ToSet(Append(q, m))
  BY <1>1, <1>2 DEF ToSet
<1>. QED BY <1>1, <1>3, <1>4

\* What a queue holds once its head is taken.
LEMMA HeadTaken ==
  ASSUME NEW S, NEW q \in Seq(S), q # <<>>
  PROVE  /\ Tail(q) \in Seq(S) /\ Head(q) \in S /\ Head(q) = q[1] /\ Len(q) >= 1
         /\ Len(Tail(q)) = Len(q) - 1
         /\ ToSet(q) = {Head(q)} \cup ToSet(Tail(q))
<1>1. /\ Head(q) \in S /\ Tail(q) \in Seq(S) /\ Len(Tail(q)) = Len(q) - 1
      /\ \A k \in 1..Len(Tail(q)) : Tail(q)[k] = q[k + 1]
  BY HeadTailProperties
<1>2. /\ Len(q) \in Nat /\ DOMAIN q = 1..Len(q) /\ DOMAIN Tail(q) = 1..(Len(q) - 1)
      /\ Len(q) >= 1 /\ Head(q) = q[1]
  BY <1>1, LenProperties, EmptySeq
<1>3. ToSet(q) \subseteq {Head(q)} \cup ToSet(Tail(q))
  <2> SUFFICES ASSUME NEW k \in 1..Len(q) PROVE q[k] \in {Head(q)} \cup ToSet(Tail(q))
    BY <1>2 DEF ToSet
  <2>1. CASE k = 1
    BY <2>1, <1>2
  <2>2. CASE k # 1
    <3>1. k - 1 \in 1..Len(Tail(q)) /\ k - 1 + 1 = k
      BY <2>2, <1>1, <1>2
    <3>2. Tail(q)[k - 1] = q[k]
      BY <3>1, <1>1
    <3>. QED BY <3>1, <3>2, <1>1, <1>2 DEF ToSet
  <2>. QED BY <2>1, <2>2
<1>4. {Head(q)} \cup ToSet(Tail(q)) \subseteq ToSet(q)
  BY <1>1, <1>2 DEF ToSet
<1>. QED BY <1>1, <1>2, <1>3, <1>4

\* A queue is empty when it holds nothing; one message is all that a queue of
\* length one holds.
LEMMA Contents ==
  /\ ToSet(<<>>) = {} /\ Len(<<>>) = 0
  /\ \A S : \A q \in Seq(S) :
       /\ ToSet(q) \subseteq S /\ Len(q) \in Nat
       /\ q = <<>> <=> Len(q) = 0
       /\ Len(q) = 1 => q # <<>> /\ q[1] \in S /\ ToSet(q) = {q[1]}
<1>1. ToSet(<<>>) = {} /\ Len(<<>>) = 0
  BY DEF ToSet
<1>2. ASSUME NEW S, NEW q \in Seq(S)
      PROVE  /\ ToSet(q) \subseteq S /\ Len(q) \in Nat
             /\ q = <<>> <=> Len(q) = 0
             /\ Len(q) = 1 => q # <<>> /\ q[1] \in S /\ ToSet(q) = {q[1]}
  <2>1. Len(q) \in Nat /\ DOMAIN q = 1..Len(q) /\ \A k \in 1..Len(q) : q[k] \in S
    BY LenProperties, ElementOfSeq
  <2>2. q = <<>> <=> Len(q) = 0
    BY EmptySeq
  <2>3. ASSUME Len(q) = 1 PROVE q # <<>> /\ q[1] \in S /\ ToSet(q) = {q[1]}
    BY <2>1, <2>2, <2>3 DEF ToSet
  <2>4. ToSet(q) \subseteq S
    BY <2>1 DEF ToSet
  <2>. QED BY <2>1, <2>2, <2>3, <2>4
<1>. QED BY <1>1, <1>2

\* Queues of one message.
LEMMA Alone ==
  ASSUME NEW S, NEW m \in S
  PROVE  /\ <<m>> \in Seq(S) /\ <<m>> # <<>> /\ Append(<<>>, m) = <<m>> /\ <<m>>[1] = m
         /\ Head(<<m>>) = m /\ Tail(<<m>>) = <<>> /\ Len(<<m>>) = 1
  OBVIOUS

-----------------------------------------------------------------------------
(* Messages and types *)

BackKinds == {"Logon", "Order", "HeartBeat", "Echo", "Reject"}
ServerKinds == {"Logon", "TestRequest", "HeartBeat", "Ack", "Fill", "Refusal", "Reject"}
Handlers == {"auth", "heartbeat", "execution"}

\* Messages of the back, of the server, and for the GUI.
BackMsg == {m \in [kind : BackKinds, order : Orders \cup {None}, num : 0..(MaxNum - 1)] :
              m.kind = "Order" => m.order \in Orders}
ServerMsg == {m \in [kind : ServerKinds, order : Orders \cup {None}, num : 0..(MaxNum - 1)] :
                m.kind \in {"Ack", "Fill", "Refusal"} => m.order \in Orders}
GuiMsg == {m \in [kind : {"Logon", "ExecNew"}, order : Orders \cup {None}, num : {0}] :
             m.kind = "ExecNew" => m.order \in Orders}

\* Which unit handles a kind.
LEMMA HandlerIs ==
  /\ DOMAIN Handler = ServerKinds \ {"Reject"}
  /\ Handler["Logon"] = "auth"
  /\ Handler["TestRequest"] = "heartbeat" /\ Handler["HeartBeat"] = "heartbeat"
  /\ Handler["Ack"] = "execution" /\ Handler["Fill"] = "execution"
  /\ Handler["Refusal"] = "execution"
<1>1. DOMAIN Handler = {"Logon", "TestRequest", "HeartBeat", "Ack", "Fill", "Refusal"}
  BY DEF Handler
<1>. QED BY <1>1 DEF Handler, ServerKinds

\* Messages are given fields, and numbers.
LEMMA MsgIs ==
  /\ \A kind, order : /\ Msg(kind, order).kind = kind /\ Msg(kind, order).order = order
                      /\ Msg(kind, order).num = 0
  /\ \A num : \A m \in BackMsg \cup ServerMsg :
       /\ Numbered(m, num).kind = m.kind /\ Numbered(m, num).order = m.order
       /\ Numbered(m, num).num = num
  /\ \A m \in BackMsg, num \in 0..(MaxNum - 1) : Numbered(m, num) \in BackMsg
  /\ \A m \in ServerMsg, num \in 0..(MaxNum - 1) : Numbered(m, num) \in ServerMsg
  BY DEF Msg, Numbered, BackMsg, ServerMsg

\* Which messages are made.
LEMMA MsgTypes ==
  /\ \A kind \in {"Logon", "HeartBeat", "Reject"} :
       Msg(kind, None) \in BackMsg /\ Msg(kind, None) \in ServerMsg
  /\ Echo \in BackMsg /\ Msg("TestRequest", None) \in ServerMsg
  /\ \A o \in Orders :
       /\ Msg("Order", o) \in BackMsg
       /\ \A kind \in {"Ack", "Fill", "Refusal"} : Msg(kind, o) \in ServerMsg
       /\ Msg("ExecNew", o) \in GuiMsg
  /\ Msg("Logon", None) \in GuiMsg
<1>1. 0 \in 0..(MaxNum - 1)
  BY NumbersAssumption
<1>. QED BY <1>1 DEF Msg, Echo, BackMsg, ServerMsg, GuiMsg, BackKinds, ServerKinds

\* The type invariant, with what the queues hold.
QueueTypes ==
  /\ builder \in Seq(BackMsg) /\ output \in Seq(BackMsg) /\ toServer \in Seq(BackMsg)
  /\ sender \in [pc : {"idle", "count", "send"}, msg : BackMsg \cup {Msg("none", None)}]
  /\ sender.pc # "idle" => sender.msg \in BackMsg
  /\ unit \in [Units -> Seq(ServerMsg)]
  /\ answers \in Seq(ServerMsg) /\ toBack \in Seq(ServerMsg)
  /\ toGui \in [bytes : Seq(GuiMsg), edge : BOOLEAN]

HandlerTypes ==
  /\ \A m \in ToSet(unit["auth"]) : m.kind = "Logon"
  /\ \A m \in ToSet(unit["heartbeat"]) : m.kind \in {"TestRequest", "HeartBeat"}
  /\ \A m \in ToSet(unit["execution"]) : m.kind \in {"Ack", "Fill", "Refusal"}

StateTypes ==
  /\ user \in [seq : 0..(MaxNum + 1), login : BOOLEAN]
  /\ account \in [login : BOOLEAN, seq : 0..(MaxNum + 1), test : BOOLEAN, open : BOOLEAN]
  /\ core \in {"run", "thrown", "gone"}
  /\ book \in [Orders -> {"none", "Ack", "Refusal", "Fill"}]
  /\ gui \in [in : BOOLEAN, rows : [Orders -> {"none", "sent", "listed", "filled"}]]
  /\ crossed \in BOOLEAN /\ strayed \in BOOLEAN /\ refused \in BOOLEAN
  /\ sender.pc = "count" => user.seq <= MaxNum

LinkTypes == QueueTypes /\ HandlerTypes /\ StateTypes

-----------------------------------------------------------------------------
(* What moves from a queue to another *)

\* receive() hands a message that came alone to HeaderValidation.
LEMMA ReceiveMoves ==
  ASSUME QueueTypes, Receive
  PROVE  /\ unit' \in [Units -> Seq(ServerMsg)] /\ output' \in Seq(BackMsg)
         /\ \A u \in Units \ {"header"} : unit'[u] = unit[u]
         /\ Len(toBack) = 1 =>
              /\ toBack[1] \in ServerMsg /\ ToSet(toBack) = {toBack[1]}
              /\ unit'["header"] = Append(unit["header"], toBack[1])
              /\ ToSet(unit'["header"]) = ToSet(unit["header"]) \cup ToSet(toBack)
              /\ output' = output /\ strayed' = strayed
         /\ Len(toBack) # 1 =>
              /\ unit' = unit /\ strayed' = TRUE
              /\ output' = Append(output, Msg("Reject", None))
              /\ ToSet(output') = ToSet(output) \cup {Msg("Reject", None)}
<1>1. toBack \in Seq(ServerMsg) /\ output \in Seq(BackMsg) /\ unit["header"] \in Seq(ServerMsg)
      /\ unit \in [Units -> Seq(ServerMsg)] /\ "header" \in Units
  BY DEF QueueTypes, Units
<1>2. CASE Len(toBack) = 1
  <2>1. toBack[1] \in ServerMsg /\ ToSet(toBack) = {toBack[1]}
    BY <1>1, <1>2, Contents
  <2>2. unit' = [unit EXCEPT !["header"] = Append(@, toBack[1])] /\ UNCHANGED <<output, strayed>>
    BY <1>2 DEF Receive
  <2>3. /\ Append(unit["header"], toBack[1]) \in Seq(ServerMsg)
        /\ ToSet(Append(unit["header"], toBack[1])) = ToSet(unit["header"]) \cup {toBack[1]}
    BY <1>1, <2>1, Appended
  <2>. QED BY <1>1, <1>2, <2>1, <2>2, <2>3
<1>3. CASE Len(toBack) # 1
  <2>1. unit' = unit /\ strayed' = TRUE /\ output' = Append(output, Msg("Reject", None))
    BY <1>3 DEF Receive
  <2>2. /\ Append(output, Msg("Reject", None)) \in Seq(BackMsg)
        /\ ToSet(Append(output, Msg("Reject", None))) = ToSet(output) \cup {Msg("Reject", None)}
    BY <1>1, MsgTypes, Appended
  <2>. QED BY <1>1, <1>3, <2>1, <2>2
<1>. QED BY <1>2, <1>3

\* HeaderValidation passes a message on, or answers it with a Reject.
LEMMA ValidateMoves ==
  ASSUME QueueTypes, ValidateHeader
  PROVE  LET m == Head(unit["header"])
         IN /\ m \in ServerMsg /\ unit' \in [Units -> Seq(ServerMsg)] /\ output' \in Seq(BackMsg)
            /\ ToSet(unit["header"]) = {m} \cup ToSet(unit'["header"])
            /\ m = unit["header"][1] /\ Len(unit'["header"]) = Len(unit["header"]) - 1
            /\ \A u \in Units \ {"header", "router"} : unit'[u] = unit[u]
            /\ RefusedByNumber(m) =>
                 /\ unit'["router"] = unit["router"] /\ refused' = TRUE
                 /\ ToSet(output') = ToSet(output) \cup {Msg("Reject", None)}
                 /\ output' = Append(output, Msg("Reject", None))
            /\ ~RefusedByNumber(m) =>
                 /\ unit'["router"] = Append(unit["router"], m)
                 /\ ToSet(unit'["router"]) = ToSet(unit["router"]) \cup {m}
                 /\ output' = output /\ refused' = refused
<1> DEFINE m == Head(unit["header"])
<1>1. /\ output \in Seq(BackMsg) /\ unit["header"] \in Seq(ServerMsg) /\ unit["header"] # <<>>
      /\ unit["router"] \in Seq(ServerMsg) /\ unit \in [Units -> Seq(ServerMsg)]
      /\ "header" \in Units /\ "router" \in Units
  BY DEF QueueTypes, Units, ValidateHeader
<1>2. /\ m \in ServerMsg /\ Tail(unit["header"]) \in Seq(ServerMsg)
      /\ ToSet(unit["header"]) = {m} \cup ToSet(Tail(unit["header"]))
      /\ m = unit["header"][1] /\ Len(Tail(unit["header"])) = Len(unit["header"]) - 1
  BY <1>1, HeadTaken
<1>3. /\ Append(output, Msg("Reject", None)) \in Seq(BackMsg)
      /\ ToSet(Append(output, Msg("Reject", None))) = ToSet(output) \cup {Msg("Reject", None)}
      /\ Append(unit["router"], m) \in Seq(ServerMsg)
      /\ ToSet(Append(unit["router"], m)) = ToSet(unit["router"]) \cup {m}
  BY <1>1, <1>2, MsgTypes, Appended
<1>4. CASE RefusedByNumber(m)
  <2>1. /\ unit' = [unit EXCEPT !["header"] = Tail(@)]
        /\ output' = Append(output, Msg("Reject", None)) /\ refused' = TRUE
    BY <1>4 DEF ValidateHeader
  <2>. QED BY <1>1, <1>2, <1>3, <1>4, <2>1
<1>5. CASE ~RefusedByNumber(m)
  <2>1. /\ unit' = [unit EXCEPT !["header"] = Tail(@), !["router"] = Append(@, m)]
        /\ UNCHANGED <<output, refused>>
    BY <1>5 DEF ValidateHeader
  <2>. QED BY <1>1, <1>2, <1>3, <1>5, <2>1
<1>. QED BY <1>4, <1>5

\* The Router hands a message to the unit of its kind, and drops a Reject.
LEMMA RouteMoves ==
  ASSUME QueueTypes, Route
  PROVE  LET m == Head(unit["router"])
         IN /\ m \in ServerMsg /\ unit' \in [Units -> Seq(ServerMsg)]
            /\ ToSet(unit["router"]) = {m} \cup ToSet(unit'["router"])
            /\ unit'["router"] = Tail(unit["router"])
            /\ unit'["header"] = unit["header"]
            /\ \A u \in Handlers :
                 IF m.kind # "Reject" /\ Handler[m.kind] = u
                 THEN /\ unit'[u] = Append(unit[u], m)
                      /\ ToSet(unit'[u]) = ToSet(unit[u]) \cup {m}
                 ELSE unit'[u] = unit[u]
<1> DEFINE m == Head(unit["router"])
           rest == [unit EXCEPT !["router"] = Tail(@)]
<1>1. /\ unit["router"] \in Seq(ServerMsg) /\ unit["router"] # <<>>
      /\ unit \in [Units -> Seq(ServerMsg)] /\ "router" \in Units
  BY DEF QueueTypes, Units, Route
<1>2. /\ m \in ServerMsg /\ Tail(unit["router"]) \in Seq(ServerMsg)
      /\ ToSet(unit["router"]) = {m} \cup ToSet(Tail(unit["router"]))
  BY <1>1, HeadTaken
<1>3. /\ rest \in [Units -> Seq(ServerMsg)] /\ rest["router"] = Tail(unit["router"])
      /\ \A u \in Units \ {"router"} : rest[u] = unit[u]
  BY <1>1, <1>2
<1>4. unit' = IF m.kind = "Reject" THEN rest ELSE [rest EXCEPT ![Handler[m.kind]] = Append(@, m)]
  BY DEF Route, Routed
<1>5. m.kind \in ServerKinds
  BY <1>2 DEF ServerMsg
<1> HIDE DEF m, rest
<1>6. \A u \in Units : /\ Append(rest[u], m) \in Seq(ServerMsg)
                       /\ ToSet(Append(rest[u], m)) = ToSet(rest[u]) \cup {m}
  BY <1>2, <1>3, Appended
<1>7. Handlers \subseteq Units \ {"router", "header"} /\ "header" \in Units \ {"router"}
  BY DEF Handlers, Units
<1>8. CASE m.kind = "Reject"
  BY <1>2, <1>3, <1>4, <1>7, <1>8 DEF m
<1>9. CASE m.kind # "Reject"
  <2>1. Handler[m.kind] \in Handlers
    BY <1>5, <1>9, HandlerIs DEF Handlers, ServerKinds
  <2>. QED BY <1>2, <1>3, <1>4, <1>6, <1>7, <1>9, <2>1 DEF m
<1>. QED BY <1>8, <1>9 DEF m

\* A unit is done with the message at the head of its queue.
LEMMA DoneMoves ==
  ASSUME QueueTypes, NEW u \in Units, unit[u] # <<>>, Done(u)
  PROVE  /\ Head(unit[u]) \in ServerMsg /\ unit' \in [Units -> Seq(ServerMsg)]
         /\ unit'[u] = Tail(unit[u]) /\ ToSet(unit[u]) = {Head(unit[u])} \cup ToSet(unit'[u])
         /\ \A v \in Units \ {u} : unit'[v] = unit[v]
<1>1. unit[u] \in Seq(ServerMsg) /\ unit \in [Units -> Seq(ServerMsg)]
  BY DEF QueueTypes
<1>2. /\ Head(unit[u]) \in ServerMsg /\ Tail(unit[u]) \in Seq(ServerMsg)
      /\ ToSet(unit[u]) = {Head(unit[u])} \cup ToSet(Tail(unit[u]))
  BY <1>1, HeadTaken
<1>. QED BY <1>1, <1>2 DEF Done

\* FixBuilder hands its message to TcpOutput.
LEMMA BuildMoves ==
  ASSUME QueueTypes, Build
  PROVE  /\ Head(builder) \in BackMsg /\ builder' = Tail(builder) /\ builder # <<>>
         /\ builder' \in Seq(BackMsg) /\ output' \in Seq(BackMsg)
         /\ ToSet(builder) = {Head(builder)} \cup ToSet(builder')
         /\ output' = Append(output, Head(builder))
         /\ ToSet(output') = ToSet(output) \cup {Head(builder)}
<1>1. builder \in Seq(BackMsg) /\ output \in Seq(BackMsg) /\ builder # <<>>
  BY DEF QueueTypes, Build
<1>2. /\ Head(builder) \in BackMsg /\ Tail(builder) \in Seq(BackMsg)
      /\ ToSet(builder) = {Head(builder)} \cup ToSet(Tail(builder))
  BY <1>1, HeadTaken
<1>3. /\ Append(output, Head(builder)) \in Seq(BackMsg)
      /\ ToSet(Append(output, Head(builder))) = ToSet(output) \cup {Head(builder)}
  BY <1>1, <1>2, Appended
<1>4. builder' = Tail(builder) /\ output' = Append(output, Head(builder))
  BY DEF Build
<1>. QED BY <1>1, <1>2, <1>3, <1>4

\* TcpOutput takes a message and gives it its number.
LEMMA NumberMoves ==
  ASSUME LinkTypes, OutNumber
  PROVE  LET m == Head(output)
         IN /\ m \in BackMsg /\ output' \in Seq(BackMsg) /\ NextNumber \in 0..(MaxNum - 1)
            /\ output # <<>> /\ output' = Tail(output)
            /\ ToSet(output) = {m} \cup ToSet(output')
            /\ Numbered(m, NextNumber) \in BackMsg
            /\ sender' = [pc |-> "count", msg |-> Numbered(m, NextNumber)]
            /\ sender.pc = "idle"
<1>1. output \in Seq(BackMsg) /\ output # <<>>
  BY DEF LinkTypes, QueueTypes, OutNumber
<1>2. /\ Head(output) \in BackMsg /\ Tail(output) \in Seq(BackMsg)
      /\ ToSet(output) = {Head(output)} \cup ToSet(Tail(output))
  BY <1>1, HeadTaken
<1>3. NextNumber \in 0..(MaxNum - 1)
  <2>1. user.seq \in 0..(MaxNum + 1) /\ NextNumber < MaxNum /\ MaxNum \in Nat
    BY NumbersAssumption DEF LinkTypes, StateTypes, OutNumber
  <2>2. NextNumber \in Nat
    BY <2>1 DEF NextNumber
  <2>. QED BY <2>1, <2>2
<1>4. Numbered(Head(output), NextNumber) \in BackMsg
  BY <1>2, <1>3, MsgIs
<1>5. /\ output' = Tail(output) /\ sender.pc = "idle"
      /\ sender' = [pc |-> "count", msg |-> Numbered(Head(output), NextNumber)]
  BY DEF OutNumber
<1>. QED BY <1>1, <1>2, <1>3, <1>4, <1>5

\* A message is sent to a server that still listens.
LEMMA SendMoves ==
  ASSUME QueueTypes, OutSend
  PROVE  /\ sender.pc = "send" /\ sender.msg \in BackMsg /\ sender' = Idle
         /\ toServer' \in Seq(BackMsg)
         /\ \/ /\ core' = core /\ account.open
               /\ toServer' = Append(toServer, sender.msg)
               /\ ToSet(toServer') = ToSet(toServer) \cup {sender.msg}
               /\ Len(toServer') = Len(toServer) + 1
            \/ core' = core /\ ~account.open /\ toServer' = toServer
            \/ core' = "gone" /\ ~account.open /\ toServer' = toServer
<1>1. toServer \in Seq(BackMsg) /\ sender.msg \in BackMsg /\ sender.pc = "send" /\ sender' = Idle
  BY DEF QueueTypes, OutSend
<1>2. /\ Append(toServer, sender.msg) \in Seq(BackMsg)
      /\ ToSet(Append(toServer, sender.msg)) = ToSet(toServer) \cup {sender.msg}
      /\ Len(Append(toServer, sender.msg)) = Len(toServer) + 1
  BY <1>1, Appended
<1>3. \/ toServer' = (IF account.open THEN Append(toServer, sender.msg) ELSE toServer) /\ UNCHANGED core
      \/ ~account.open /\ core' = "gone" /\ UNCHANGED toServer
  BY DEF OutSend
<1>. QED BY <1>1, <1>2, <1>3

\* A TestRequest is echoed, a HeartBeat is not.
LEMMA EchoMoves ==
  ASSUME QueueTypes, HandleHeartBeat
  PROVE  /\ output' \in Seq(BackMsg)
         /\ output' = (IF Head(unit["heartbeat"]).kind = "TestRequest"
                       THEN Append(output, Echo) ELSE output)
         /\ ToSet(output') = ToSet(output) \cup
              (IF Head(unit["heartbeat"]).kind = "TestRequest" THEN {Echo} ELSE {})
<1>1. output \in Seq(BackMsg)
  BY DEF QueueTypes
<1>2. /\ Append(output, Echo) \in Seq(BackMsg)
      /\ ToSet(Append(output, Echo)) = ToSet(output) \cup {Echo}
  BY <1>1, MsgTypes, Appended
<1>3. output' = (IF Head(unit["heartbeat"]).kind = "TestRequest"
                 THEN Append(output, Echo) ELSE output)
  BY DEF HandleHeartBeat
<1>. QED BY <1>1, <1>2, <1>3

\* A heartbeat is due.
LEMMA BeatMoves ==
  ASSUME QueueTypes, Beat
  PROVE  /\ output' = Append(output, Msg("HeartBeat", None)) /\ output' \in Seq(BackMsg)
         /\ ToSet(output') = ToSet(output) \cup {Msg("HeartBeat", None)}
<1>1. output \in Seq(BackMsg) /\ output' = Append(output, Msg("HeartBeat", None))
  BY DEF QueueTypes, Beat
<1>. QED BY <1>1, MsgTypes, Appended

\* An order leaves the GUI.
LEMMA SubmitMoves ==
  ASSUME QueueTypes, NEW o \in Orders, Submit(o)
  PROVE  /\ builder' = Append(builder, Msg("Order", o)) /\ builder' \in Seq(BackMsg)
         /\ ToSet(builder') = ToSet(builder) \cup {Msg("Order", o)}
<1>1. builder \in Seq(BackMsg) /\ builder' = Append(builder, Msg("Order", o))
  BY DEF QueueTypes, Submit
<1>. QED BY <1>1, MsgTypes, Appended

\* The server has one more answer.
LEMMA ReplyMoves ==
  ASSUME QueueTypes, NEW kind, NEW o, Msg(kind, o) \in ServerMsg, Reply(kind, o)
  PROVE  /\ answers' = Append(answers, Msg(kind, o)) /\ answers' \in Seq(ServerMsg)
         /\ ToSet(answers') = ToSet(answers) \cup {Msg(kind, o)}
<1>1. answers \in Seq(ServerMsg) /\ answers' = Append(answers, Msg(kind, o))
  BY DEF QueueTypes, Reply
<1>. QED BY <1>1, Appended

\* The GUI has one more message.
LEMMA ToGuiMoves ==
  ASSUME QueueTypes, NEW kind, NEW o, Msg(kind, o) \in GuiMsg, ToGui(kind, o)
  PROVE  /\ toGui' \in [bytes : Seq(GuiMsg), edge : BOOLEAN]
         /\ toGui'.bytes = Append(toGui.bytes, Msg(kind, o))
         /\ ToSet(toGui'.bytes) = ToSet(toGui.bytes) \cup {Msg(kind, o)}
<1>1. toGui.bytes \in Seq(GuiMsg)
  BY DEF QueueTypes
<1>2. /\ Append(toGui.bytes, Msg(kind, o)) \in Seq(GuiMsg)
      /\ ToSet(Append(toGui.bytes, Msg(kind, o))) = ToSet(toGui.bytes) \cup {Msg(kind, o)}
  BY <1>1, Appended
<1>3. toGui' = [bytes |-> Append(toGui.bytes, Msg(kind, o)), edge |-> TRUE]
  BY DEF ToGui
<1>. QED BY <1>2, <1>3

\* An answer is numbered and sent.
LEMMA AnswerMoves ==
  ASSUME LinkTypes, ServerSends
  PROVE  LET num == IF account.login THEN account.seq ELSE account.seq + 1
             m == Head(answers)
         IN /\ m \in ServerMsg /\ num \in 0..(MaxNum - 1) /\ Numbered(m, num) \in ServerMsg
            /\ answers # <<>> /\ answers' = Tail(answers)
            /\ answers' \in Seq(ServerMsg) /\ toBack' \in Seq(ServerMsg)
            /\ ToSet(answers) = {m} \cup ToSet(answers')
            /\ toBack' = Append(toBack, Numbered(m, num))
            /\ ToSet(toBack') = ToSet(toBack) \cup {Numbered(m, num)}
            /\ Len(toBack') = Len(toBack) + 1
            /\ account' = [account EXCEPT !.seq = num + 1]
<1> DEFINE num == IF account.login THEN account.seq ELSE account.seq + 1
<1>1. answers \in Seq(ServerMsg) /\ toBack \in Seq(ServerMsg) /\ answers # <<>>
  BY DEF LinkTypes, QueueTypes, ServerSends
<1>2. /\ Head(answers) \in ServerMsg /\ Tail(answers) \in Seq(ServerMsg)
      /\ ToSet(answers) = {Head(answers)} \cup ToSet(Tail(answers))
  BY <1>1, HeadTaken
<1>3. num \in 0..(MaxNum - 1)
  <2>1. account.seq \in 0..(MaxNum + 1) /\ num < MaxNum /\ MaxNum \in Nat
    BY NumbersAssumption DEF LinkTypes, StateTypes, ServerSends
  <2>2. num \in Nat
    BY <2>1
  <2>. QED BY <2>1, <2>2
<1>4. /\ answers' = Tail(answers) /\ toBack' = Append(toBack, Numbered(Head(answers), num))
      /\ account' = [account EXCEPT !.seq = num + 1]
  BY DEF ServerSends
<1> HIDE DEF num
<1>5. Numbered(Head(answers), num) \in ServerMsg
  BY <1>2, <1>3, MsgIs
<1>6. /\ Append(toBack, Numbered(Head(answers), num)) \in Seq(ServerMsg)
      /\ ToSet(Append(toBack, Numbered(Head(answers), num)))
           = ToSet(toBack) \cup {Numbered(Head(answers), num)}
      /\ Len(Append(toBack, Numbered(Head(answers), num))) = Len(toBack) + 1
  BY <1>1, <1>5, Appended
<1>. QED BY <1>1, <1>2, <1>3, <1>4, <1>5, <1>6 DEF num

\* The GUI reads a message.
LEMMA GuiMoves ==
  ASSUME QueueTypes, GuiReads
  PROVE  /\ Head(toGui.bytes) \in GuiMsg /\ toGui.bytes # <<>>
         /\ toGui' \in [bytes : Seq(GuiMsg), edge : BOOLEAN]
         /\ ToSet(toGui.bytes) = {Head(toGui.bytes)} \cup ToSet(toGui'.bytes)
<1>1. toGui.bytes \in Seq(GuiMsg) /\ toGui.bytes # <<>>
  BY DEF QueueTypes, GuiReads
<1>2. /\ Head(toGui.bytes) \in GuiMsg /\ Tail(toGui.bytes) \in Seq(GuiMsg)
      /\ ToSet(toGui.bytes) = {Head(toGui.bytes)} \cup ToSet(Tail(toGui.bytes))
  BY <1>1, HeadTaken
<1>3. toGui' = [bytes |-> Tail(toGui.bytes), edge |-> FALSE]
  BY DEF GuiReads
<1>. QED BY <1>1, <1>2, <1>3

\* What the server can make of what it reads.
Reading(m, a, refusal) ==
  \/ /\ refusal /\ account' = a /\ answers' = Append(answers, Msg("Reject", None))
     /\ ToSet(answers') = ToSet(answers) \cup {Msg("Reject", None)} /\ book' = book
  \/ /\ ~refusal /\ m.kind = "Logon" /\ account' = [a EXCEPT !.login = TRUE, !.seq = m.num + 1]
     /\ answers' = Append(answers, Msg("Logon", None))
     /\ ToSet(answers') = ToSet(answers) \cup {Msg("Logon", None)} /\ book' = book
  \/ /\ ~refusal /\ m.kind = "Order" /\ m.order \in Orders /\ account' = a
     /\ \E k \in {"Ack", "Refusal"} :
          /\ answers' = Append(answers, Msg(k, m.order))
          /\ ToSet(answers') = ToSet(answers) \cup {Msg(k, m.order)}
          /\ book' = [book EXCEPT ![m.order] = k]
  \/ /\ ~refusal /\ m.kind \in {"HeartBeat", "Echo"} /\ account' = [a EXCEPT !.test = FALSE]
     /\ answers' = Append(answers, Msg("HeartBeat", None))
     /\ ToSet(answers') = ToSet(answers) \cup {Msg("HeartBeat", None)} /\ book' = book
  \/ /\ ~refusal /\ m.kind = "Reject" /\ account' = a /\ answers' = answers /\ book' = book
Moved == [account EXCEPT !.seq = IF account.login THEN @ + 1 ELSE @]
Refusing ==
  \/ Len(toServer) > 1 \/ ServerRefuses(Moved, toServer[1])
  \/ toServer[1].kind = "Logon" /\ Moved.login
  \/ toServer[1].kind = "HeartBeat" /\ Moved.test

\* The server reads all there is.
LEMMA ReadMoves ==
  ASSUME LinkTypes, ServerReads
  PROVE  /\ toServer # <<>> /\ toServer[1] \in BackMsg /\ toServer' = <<>>
         /\ Len(toServer) \in Nat /\ Len(toServer) >= 1
         /\ Len(toServer) = 1 => ToSet(toServer) = {toServer[1]}
         /\ toServer[1] \in ToSet(toServer)
         /\ answers' \in Seq(ServerMsg)
         /\ Reading(toServer[1], Moved, Refusing)
<1>1. toServer \in Seq(BackMsg) /\ toServer # <<>> /\ toServer' = <<>> /\ QueueTypes
  BY DEF LinkTypes, QueueTypes, ServerReads
<1>2. /\ Head(toServer) = toServer[1] /\ Head(toServer) \in BackMsg
      /\ ToSet(toServer) = {Head(toServer)} \cup ToSet(Tail(toServer)) /\ Len(toServer) >= 1
  BY <1>1, HeadTaken
<1>3. Len(toServer) \in Nat /\ (Len(toServer) = 1 => ToSet(toServer) = {toServer[1]})
  BY <1>1, Contents
<1> DEFINE m == toServer[1]
<1>4. m.kind = "Order" => m.order \in Orders
  BY <1>2 DEF BackMsg
<1>5. \/ Refusing /\ account' = Moved /\ Reply("Reject", None) /\ UNCHANGED book
      \/ /\ ~Refusing
         /\ \/ /\ m.kind = "Logon" /\ Reply("Logon", None)
               /\ account' = [Moved EXCEPT !.login = TRUE, !.seq = m.num + 1]
               /\ UNCHANGED book
            \/ /\ m.kind = "Order" /\ account' = Moved
               /\ \E k \in {"Ack", "Refusal"} :
                    Reply(k, m.order) /\ book' = [book EXCEPT ![m.order] = k]
            \/ /\ m.kind \in {"HeartBeat", "Echo"} /\ Reply("HeartBeat", None)
               /\ account' = [Moved EXCEPT !.test = FALSE]
               /\ UNCHANGED book
            \/ m.kind = "Reject" /\ account' = Moved /\ UNCHANGED <<answers, book>>
  BY DEF ServerReads, Refusing, Moved
<1> HIDE DEF m
<1>6. \A kind \in {"Reject", "Logon", "HeartBeat"} : Reply(kind, None) =>
        /\ answers' = Append(answers, Msg(kind, None)) /\ answers' \in Seq(ServerMsg)
        /\ ToSet(answers') = ToSet(answers) \cup {Msg(kind, None)}
  BY <1>1, ReplyMoves, MsgTypes
<1>7. m.order \in Orders => \A kind \in {"Ack", "Refusal"} : Reply(kind, m.order) =>
        /\ answers' = Append(answers, Msg(kind, m.order)) /\ answers' \in Seq(ServerMsg)
        /\ ToSet(answers') = ToSet(answers) \cup {Msg(kind, m.order)}
  BY <1>1, ReplyMoves, MsgTypes
<1>8. answers \in Seq(ServerMsg)
  BY <1>1 DEF QueueTypes
<1>9. Reading(m, Moved, Refusing) /\ answers' \in Seq(ServerMsg)
  <2>1. CASE Refusing /\ account' = Moved /\ Reply("Reject", None) /\ UNCHANGED book
    BY <2>1, <1>6 DEF Reading
  <2>2. CASE /\ ~Refusing /\ m.kind = "Logon" /\ Reply("Logon", None)
             /\ account' = [Moved EXCEPT !.login = TRUE, !.seq = m.num + 1] /\ UNCHANGED book
    BY <2>2, <1>6 DEF Reading
  <2>3. CASE /\ ~Refusing /\ m.kind = "Order" /\ account' = Moved
             /\ \E k \in {"Ack", "Refusal"} :
                  Reply(k, m.order) /\ book' = [book EXCEPT ![m.order] = k]
    BY <2>3, <1>4, <1>7 DEF Reading, m
  <2>4. CASE /\ ~Refusing /\ m.kind \in {"HeartBeat", "Echo"} /\ Reply("HeartBeat", None)
             /\ account' = [Moved EXCEPT !.test = FALSE] /\ UNCHANGED book
    BY <2>4, <1>6 DEF Reading
  <2>5. CASE ~Refusing /\ m.kind = "Reject" /\ account' = Moved /\ UNCHANGED <<answers, book>>
    BY <2>5, <1>8 DEF Reading
  <2>. QED BY <1>5, <2>1, <2>2, <2>3, <2>4, <2>5
<1>. QED BY <1>1, <1>2, <1>3, <1>9 DEF m

-----------------------------------------------------------------------------
(* Types *)

\* The first state has its types.
LEMMA TypesInit == Init => LinkTypes
<1> SUFFICES ASSUME Init PROVE LinkTypes
  OBVIOUS
<1>1. Msg("Logon", None) \in BackMsg /\ <<Msg("Logon", None)>> \in Seq(BackMsg)
  BY MsgTypes
<1>2. <<>> \in Seq(BackMsg) /\ <<>> \in Seq(ServerMsg) /\ <<>> \in Seq(GuiMsg)
  OBVIOUS
<1>3. unit \in [Units -> Seq(ServerMsg)] /\ \A u \in Units : unit[u] = <<>>
  BY <1>2 DEF Init
<1>4. QueueTypes
  BY <1>1, <1>2, <1>3 DEF Init, QueueTypes, Idle
<1>5. HandlerTypes
  <2>1. unit["auth"] = <<>> /\ unit["heartbeat"] = <<>> /\ unit["execution"] = <<>>
    BY <1>3 DEF Units
  <2>. QED BY <2>1, Contents DEF HandlerTypes
<1>6. StateTypes
  <2>1. MaxNum \in Nat /\ MaxNum >= 1 /\ 0 \in 0..(MaxNum + 1) /\ 1 \in 0..(MaxNum + 1)
    BY NumbersAssumption
  <2>2. /\ user \in [seq : 0..(MaxNum + 1), login : BOOLEAN]
        /\ account \in [login : BOOLEAN, seq : 0..(MaxNum + 1), test : BOOLEAN, open : BOOLEAN]
    BY <2>1 DEF Init
  <2>3. sender.pc = "idle"
    BY DEF Init, Idle
  <2>4. /\ core \in {"run", "thrown", "gone"}
        /\ book \in [Orders -> {"none", "Ack", "Refusal", "Fill"}]
        /\ gui \in [in : BOOLEAN, rows : [Orders -> {"none", "sent", "listed", "filled"}]]
        /\ crossed \in BOOLEAN /\ strayed \in BOOLEAN /\ refused \in BOOLEAN
    BY DEF Init
  <2>. QED BY <2>2, <2>3, <2>4 DEF StateTypes
<1>. QED BY <1>4, <1>5, <1>6 DEF LinkTypes

\* The steps that FixBuilder, TcpOutput, HeartBeat and the GUI take keep the types.
LEMMA TypesOut ==
  ASSUME LinkTypes,
         Build \/ OutNumber \/ OutCount \/ OutSend \/ Beat \/ \E o \in Orders : Submit(o)
  PROVE  LinkTypes'
<1> USE DEF LinkTypes
<1>0. MaxNum \in Nat /\ FirstNum \in Nat /\ FirstNum < MaxNum /\ QueueTypes /\ StateTypes
  BY NumbersAssumption
<1>1. CASE Build
  <2>1. UNCHANGED <<sender, unit, core, beats, account, answers, book, asks, wires, guiVars, historyVars>>
    BY <1>1 DEF Build, fixServerVars
  <2>2. user' = IF Head(builder).kind = "Logon" THEN [user EXCEPT !.seq = FirstNum] ELSE user
    BY <1>1 DEF Build
  <2>3. builder' \in Seq(BackMsg) /\ output' \in Seq(BackMsg)
    BY <1>1, BuildMoves
  <2>4. QueueTypes'
    BY <2>1, <2>3 DEF QueueTypes, wires, guiVars
  <2>5. HandlerTypes'
    BY <2>1 DEF HandlerTypes
  <2>6. StateTypes'
    BY <1>0, <2>1, <2>2 DEF StateTypes, guiVars, historyVars
  <2>. QED BY <2>4, <2>5, <2>6
<1>2. CASE OutNumber
  <2>1. UNCHANGED <<builder, unit, core, beats, account, answers, book, asks, wires, guiVars,
                    strayed, refused>>
    BY <1>2 DEF OutNumber, fixServerVars
  <2>2. user' = [user EXCEPT !.seq = NextNumber] /\ crossed' \in BOOLEAN
    BY <1>2 DEF OutNumber, StateTypes
  <2>3. /\ output' \in Seq(BackMsg) /\ NextNumber \in 0..(MaxNum - 1)
        /\ Numbered(Head(output), NextNumber) \in BackMsg
        /\ sender' = [pc |-> "count", msg |-> Numbered(Head(output), NextNumber)]
    BY <1>2, NumberMoves
  <2> HIDE DEF NextNumber, Numbered
  <2>4. QueueTypes'
    BY <2>1, <2>3 DEF QueueTypes, wires, guiVars
  <2>5. HandlerTypes'
    BY <2>1 DEF HandlerTypes
  <2>6. StateTypes'
    BY <1>0, <2>1, <2>2, <2>3 DEF StateTypes, guiVars
  <2>. QED BY <2>4, <2>5, <2>6
<1>3. CASE OutCount
  <2>1. UNCHANGED <<builder, output, unit, core, beats, account, answers, book, asks, wires, guiVars,
                    crossed, refused>>
    BY <1>3 DEF OutCount, fixServerVars
  <2>2. /\ sender.pc = "count" /\ sender' = [sender EXCEPT !.pc = "send"]
        /\ strayed' \in BOOLEAN
    BY <1>3 DEF OutCount, StateTypes
  <2>3. PICK seq \in {user.seq, sender.msg.num} : user' = [user EXCEPT !.seq = seq + 1]
    BY <1>3 DEF OutCount
  <2>4. sender.msg \in BackMsg
    BY <2>2 DEF QueueTypes
  <2>5. user.seq \in 0..MaxNum /\ sender.msg.num \in 0..MaxNum
    BY <1>0, <2>2, <2>4 DEF StateTypes, BackMsg
  <2>6. seq + 1 \in 0..(MaxNum + 1)
    BY <1>0, <2>3, <2>5
  <2>7. QueueTypes'
    BY <2>1, <2>2 DEF QueueTypes, wires, guiVars
  <2>8. HandlerTypes'
    BY <2>1 DEF HandlerTypes
  <2>9. sender'.pc = "send"
    BY <2>2 DEF QueueTypes
  <2>10. StateTypes'
    BY <2>1, <2>2, <2>3, <2>6, <2>9 DEF StateTypes, guiVars
  <2>. QED BY <2>7, <2>8, <2>10
<1>4. CASE OutSend
  <2>1. UNCHANGED <<user, builder, output, unit, beats, account, answers, book, asks, toBack, guiVars,
                    historyVars>>
    BY <1>4 DEF OutSend, fixServerVars
  <2>2. sender' = Idle /\ toServer' \in Seq(BackMsg) /\ core' \in {core, "gone"}
    BY <1>4, SendMoves
  <2>3. QueueTypes'
    BY <2>1, <2>2 DEF QueueTypes, guiVars, Idle
  <2>4. HandlerTypes'
    BY <2>1 DEF HandlerTypes
  <2>5. StateTypes'
    BY <2>1, <2>2 DEF StateTypes, guiVars, historyVars, Idle
  <2>. QED BY <2>3, <2>4, <2>5
<1>5. CASE Beat
  <2>1. UNCHANGED <<user, builder, sender, unit, core, account, answers, book, asks, wires, guiVars,
                    historyVars>>
    BY <1>5 DEF Beat, fixServerVars
  <2>2. output' \in Seq(BackMsg)
    BY <1>5, BeatMoves
  <2>3. QueueTypes'
    BY <2>1, <2>2 DEF QueueTypes, wires, guiVars
  <2>4. HandlerTypes' /\ StateTypes'
    BY <2>1 DEF HandlerTypes, StateTypes, guiVars, historyVars
  <2>. QED BY <2>3, <2>4
<1>6. ASSUME NEW o \in Orders, Submit(o) PROVE LinkTypes'
  <2>1. /\ UNCHANGED <<user, output, sender, unit, core, beats, account, answers, book, asks, wires,
                       toGui, historyVars>>
        /\ gui' = [gui EXCEPT !.rows[o] = "sent"]
    BY <1>6 DEF Submit, fixServerVars
  <2>2. builder' \in Seq(BackMsg)
    BY <1>6, SubmitMoves
  <2>3. QueueTypes'
    BY <2>1, <2>2 DEF QueueTypes, wires
  <2>4. HandlerTypes'
    BY <2>1 DEF HandlerTypes
  <2>5. StateTypes'
    BY <2>1 DEF StateTypes, historyVars
  <2>. QED BY <2>3, <2>4, <2>5
<1>. QED BY <1>1, <1>2, <1>3, <1>4, <1>5, <1>6

\* The units that read keep the types.
LEMMA TypesIn ==
  ASSUME LinkTypes,
         Receive \/ ValidateHeader \/ Route \/ HandleLogon \/ HandleHeartBeat \/ Execute
           \/ CoreReturns \/ GuiReads
  PROVE  LinkTypes'
<1> USE DEF LinkTypes
<1>0. MaxNum \in Nat /\ FirstNum \in Nat /\ FirstNum < MaxNum /\ QueueTypes /\ StateTypes
  BY NumbersAssumption
<1>u. Units = {"header", "router", "auth", "heartbeat", "execution"}
  BY DEF Units
<1>1. CASE Receive
  <2>1. /\ UNCHANGED <<builder, sender, core, beats, account, answers, book, asks, toServer, guiVars,
                       refused>>
        /\ toBack' = <<>> /\ user' = Counted /\ user.seq < MaxNum
    BY <1>1 DEF Receive, fixServerVars
  <2>2. crossed' \in BOOLEAN
    BY <1>1 DEF Receive, StateTypes
  <2>3. /\ unit' \in [Units -> Seq(ServerMsg)] /\ output' \in Seq(BackMsg)
        /\ \A u \in Units \ {"header"} : unit'[u] = unit[u]
        /\ strayed' \in {strayed, TRUE}
    BY <1>1, ReceiveMoves
  <2>4. QueueTypes'
    BY <2>1, <2>3 DEF QueueTypes, guiVars
  <2>5. HandlerTypes'
    BY <2>3, <1>u DEF HandlerTypes
  <2>6. user' \in [seq : 0..MaxNum, login : BOOLEAN]
    BY <1>0, <2>1 DEF StateTypes, Counted
  <2>7. user' \in [seq : 0..(MaxNum + 1), login : BOOLEAN] /\ user'.seq <= MaxNum
    BY <1>0, <2>6
  <2>8. strayed' \in BOOLEAN
    BY <2>3 DEF StateTypes
  <2>9. StateTypes'
    BY <2>1, <2>2, <2>7, <2>8 DEF StateTypes, guiVars
  <2>. QED BY <2>4, <2>5, <2>9
<1>2. CASE ValidateHeader
  <2>1. UNCHANGED <<user, builder, sender, core, beats, account, answers, book, asks, wires, guiVars,
                    crossed, strayed>>
    BY <1>2 DEF ValidateHeader, fixServerVars
  <2>2. /\ unit' \in [Units -> Seq(ServerMsg)] /\ output' \in Seq(BackMsg)
        /\ \A u \in Units \ {"header", "router"} : unit'[u] = unit[u]
        /\ refused' \in {refused, TRUE}
    BY <1>2, ValidateMoves
  <2>3. QueueTypes'
    BY <2>1, <2>2 DEF QueueTypes, wires, guiVars
  <2>4. HandlerTypes'
    BY <2>2, <1>u DEF HandlerTypes
  <2>5. StateTypes'
    BY <2>1, <2>2 DEF StateTypes, guiVars
  <2>. QED BY <2>3, <2>4, <2>5
<1>3. CASE Route
  <2>1. UNCHANGED <<user, builder, output, sender, core, beats, account, answers, book, asks, wires,
                    guiVars, historyVars>>
    BY <1>3 DEF Route, fixServerVars
  <2> DEFINE m == Head(unit["router"])
  <2>2. /\ m \in ServerMsg /\ unit' \in [Units -> Seq(ServerMsg)]
        /\ \A u \in Handlers : \/ unit'[u] = unit[u]
                               \/ /\ m.kind # "Reject" /\ Handler[m.kind] = u
                                  /\ ToSet(unit'[u]) = ToSet(unit[u]) \cup {m}
    BY <1>3, RouteMoves
  <2>3. m.kind \in ServerKinds
    BY <2>2 DEF ServerMsg
  <2> HIDE DEF m
  <2>4. QueueTypes'
    BY <2>1, <2>2 DEF QueueTypes, wires, guiVars
  <2>5. /\ m.kind # "Reject" /\ Handler[m.kind] = "auth" => m.kind = "Logon"
        /\ m.kind # "Reject" /\ Handler[m.kind] = "heartbeat" => m.kind \in {"TestRequest", "HeartBeat"}
        /\ m.kind # "Reject" /\ Handler[m.kind] = "execution" => m.kind \in {"Ack", "Fill", "Refusal"}
    BY <2>3, HandlerIs DEF ServerKinds
  <2>6. HandlerTypes'
    <3>1. \A x \in ToSet(unit'["auth"]) : x.kind = "Logon"
      BY <2>2, <2>5 DEF HandlerTypes, Handlers
    <3>2. \A x \in ToSet(unit'["heartbeat"]) : x.kind \in {"TestRequest", "HeartBeat"}
      BY <2>2, <2>5 DEF HandlerTypes, Handlers
    <3>3. \A x \in ToSet(unit'["execution"]) : x.kind \in {"Ack", "Fill", "Refusal"}
      BY <2>2, <2>5 DEF HandlerTypes, Handlers
    <3>. QED BY <3>1, <3>2, <3>3 DEF HandlerTypes
  <2>7. StateTypes'
    BY <2>1 DEF StateTypes, guiVars, historyVars
  <2>. QED BY <2>4, <2>6, <2>7
<1>4. CASE HandleLogon
  <2>1. UNCHANGED <<builder, output, sender, core, beats, account, answers, book, asks, wires, gui,
                    historyVars>>
    BY <1>4 DEF HandleLogon, fixServerVars
  <2>2. /\ Head(unit["auth"]) \in ServerMsg /\ unit' \in [Units -> Seq(ServerMsg)]
        /\ ToSet(unit'["auth"]) \subseteq ToSet(unit["auth"])
        /\ \A v \in Units \ {"auth"} : unit'[v] = unit[v]
    BY <1>4, <1>u, DoneMoves DEF HandleLogon
  <2>3. toGui' \in [bytes : Seq(GuiMsg), edge : BOOLEAN]
    BY <1>4, MsgTypes, ToGuiMoves DEF HandleLogon
  <2>4. user' = LoggedOn(Head(unit["auth"]).num)
    BY <1>4 DEF HandleLogon
  <2>5. user' \in [seq : 0..MaxNum, login : BOOLEAN]
    BY <1>0, <2>2, <2>4 DEF LoggedOn, ServerMsg
  <2>6. QueueTypes'
    BY <2>1, <2>2, <2>3 DEF QueueTypes, wires
  <2>7. HandlerTypes'
    BY <2>2, <1>u DEF HandlerTypes
  <2>8. StateTypes'
    BY <1>0, <2>1, <2>5 DEF StateTypes, historyVars
  <2>. QED BY <2>6, <2>7, <2>8
<1>5. CASE HandleHeartBeat
  <2>1. UNCHANGED <<user, builder, sender, core, beats, account, answers, book, asks, wires, guiVars,
                    historyVars>>
    BY <1>5 DEF HandleHeartBeat, fixServerVars
  <2>2. /\ unit' \in [Units -> Seq(ServerMsg)]
        /\ ToSet(unit'["heartbeat"]) \subseteq ToSet(unit["heartbeat"])
        /\ \A v \in Units \ {"heartbeat"} : unit'[v] = unit[v]
    BY <1>5, <1>u, DoneMoves DEF HandleHeartBeat
  <2>3. output' \in Seq(BackMsg)
    BY <1>5, EchoMoves
  <2>4. QueueTypes'
    BY <2>1, <2>2, <2>3 DEF QueueTypes, wires, guiVars
  <2>5. HandlerTypes'
    BY <2>2, <1>u DEF HandlerTypes
  <2>6. StateTypes'
    BY <2>1 DEF StateTypes, guiVars, historyVars
  <2>. QED BY <2>4, <2>5, <2>6
<1>6. CASE Execute
  <2>1. UNCHANGED <<user, builder, output, sender, beats, account, answers, book, asks, wires, gui,
                    historyVars>>
    BY <1>6 DEF Execute, fixServerVars
  <2> DEFINE m == Head(unit["execution"])
  <2>2. /\ m \in ServerMsg /\ unit' \in [Units -> Seq(ServerMsg)]
        /\ ToSet(unit["execution"]) = {m} \cup ToSet(unit'["execution"])
        /\ \A v \in Units \ {"execution"} : unit'[v] = unit[v]
    BY <1>6, <1>u, DoneMoves DEF Execute
  <2>3. Report(m)
    BY <1>6 DEF Execute
  <2>4. m.kind = "Ack" => Msg("ExecNew", m.order) \in GuiMsg
    BY <2>2, MsgTypes DEF ServerMsg
  <2> HIDE DEF m
  <2>5. toGui' \in [bytes : Seq(GuiMsg), edge : BOOLEAN] /\ core' \in {core, "thrown"}
    <3>1. CASE m.kind = "Ack" /\ ToGui("ExecNew", m.order) /\ UNCHANGED core
      BY <3>1, <1>0, <2>4, ToGuiMoves
    <3>2. CASE m.kind = "Fill" /\ core' = "thrown" /\ UNCHANGED toGui
      BY <3>2 DEF QueueTypes
    <3>3. CASE m.kind = "Refusal" /\ UNCHANGED <<core, toGui>>
      BY <3>3 DEF QueueTypes
    <3>. QED BY <2>3, <3>1, <3>2, <3>3 DEF Report
  <2>6. QueueTypes'
    BY <2>1, <2>2, <2>5 DEF QueueTypes, wires
  <2>7. HandlerTypes'
    BY <2>2, <1>u DEF HandlerTypes
  <2>8. StateTypes'
    BY <2>1, <2>5 DEF StateTypes, historyVars
  <2>. QED BY <2>6, <2>7, <2>8
<1>7. CASE CoreReturns
  BY <1>7 DEF CoreReturns, QueueTypes, HandlerTypes, StateTypes, fixServerVars, wires, guiVars, historyVars
<1>8. CASE GuiReads
  <2>1. UNCHANGED <<backVars, fixServerVars, wires, historyVars>>
    BY <1>8 DEF GuiReads
  <2> DEFINE m == Head(toGui.bytes)
  <2>2. m \in GuiMsg /\ toGui' \in [bytes : Seq(GuiMsg), edge : BOOLEAN]
    BY <1>8, GuiMoves
  <2>3. gui' = CASE m.kind = "Logon" -> [gui EXCEPT !.in = TRUE]
                 [] m.kind = "ExecNew" -> [gui EXCEPT !.rows[m.order] = "listed"]
                 [] m.kind = "ExecEvent" ->
                      [gui EXCEPT !.rows[m.order] = IF @ = "listed" THEN "filled" ELSE @]
    BY <1>8 DEF GuiReads
  <2> HIDE DEF m
  <2>4. gui' \in {[gui EXCEPT !.in = TRUE], [gui EXCEPT !.rows[m.order] = "listed"]}
    BY <2>2, <2>3 DEF GuiMsg
  <2>5. gui' \in [in : BOOLEAN, rows : [Orders -> {"none", "sent", "listed", "filled"}]]
    <3>1. gui \in [in : BOOLEAN, rows : [Orders -> {"none", "sent", "listed", "filled"}]]
      BY DEF StateTypes
    <3>2. CASE gui' = [gui EXCEPT !.in = TRUE]
      BY <3>1, <3>2
    <3>3. CASE gui' = [gui EXCEPT !.rows[m.order] = "listed"]
      BY <3>1, <3>3
    <3>. QED BY <2>4, <3>2, <3>3
  <2>6. QueueTypes' /\ HandlerTypes' /\ StateTypes'
    BY <2>1, <2>2, <2>5 DEF QueueTypes, HandlerTypes, StateTypes, backVars, fixServerVars, wires, historyVars
  <2>. QED BY <2>6
<1>. QED BY <1>1, <1>2, <1>3, <1>4, <1>5, <1>6, <1>7, <1>8

\* The server keeps the types.
LEMMA TypesServer ==
  ASSUME LinkTypes,
         ServerReads \/ ServerSends \/ ServerLosesBack \/ ServerAsks \/ ServerRemoves
           \/ \E o \in Orders : ServerFills(o)
  PROVE  LinkTypes'
<1> USE DEF LinkTypes
<1>0. MaxNum \in Nat /\ FirstNum \in Nat /\ FirstNum < MaxNum /\ QueueTypes /\ StateTypes
  BY NumbersAssumption
<1> DEFINE Accounts == [login : BOOLEAN, seq : 0..(MaxNum + 1), test : BOOLEAN, open : BOOLEAN]
<1>1. CASE ServerReads
  <2>1. /\ UNCHANGED <<backVars, asks, toBack, guiVars, crossed>> /\ account.seq < MaxNum
        /\ strayed' \in BOOLEAN /\ refused' \in BOOLEAN
    BY <1>1 DEF ServerReads, StateTypes
  <2> DEFINE m == toServer[1]
  <2>2. /\ m \in BackMsg /\ toServer' = <<>> /\ answers' \in Seq(ServerMsg)
        /\ Reading(m, Moved, Refusing)
    BY <1>1, ReadMoves
  <2>3. Moved \in Accounts
    <3>1. account.seq + 1 \in 0..(MaxNum + 1)
      BY <1>0, <2>1 DEF StateTypes
    <3>. QED BY <1>0, <3>1 DEF StateTypes, Moved
  <2>4. m.num + 1 \in 0..(MaxNum + 1)
    BY <1>0, <2>2 DEF BackMsg
  <2> HIDE DEF m
  <2>5. account' \in Accounts
    <3>1. account' \in {Moved, [Moved EXCEPT !.test = FALSE],
                         [Moved EXCEPT !.login = TRUE, !.seq = m.num + 1]}
      BY <2>2 DEF Reading
    <3> HIDE DEF Moved
    <3>2. CASE account' = Moved
      BY <2>3, <3>2
    <3>3. CASE account' = [Moved EXCEPT !.test = FALSE]
      BY <2>3, <3>3
    <3>4. CASE account' = [Moved EXCEPT !.login = TRUE, !.seq = m.num + 1]
      BY <2>3, <2>4, <3>4
    <3>. QED BY <3>1, <3>2, <3>3, <3>4
  <2>6. book' \in [Orders -> {"none", "Ack", "Refusal", "Fill"}]
    BY <1>0, <2>2 DEF Reading, StateTypes
  <2>7. QueueTypes' /\ HandlerTypes' /\ StateTypes'
    BY <1>0, <2>1, <2>2, <2>5, <2>6 DEF QueueTypes, HandlerTypes, StateTypes, backVars, guiVars
  <2>. QED BY <2>7
<1>2. CASE ServerSends
  <2>1. UNCHANGED <<backVars, book, asks, toServer, guiVars, strayed, refused>> /\ crossed' \in BOOLEAN
    BY <1>2 DEF ServerSends, StateTypes
  <2>2. PICK num \in 0..(MaxNum - 1) :
          /\ answers' \in Seq(ServerMsg) /\ toBack' \in Seq(ServerMsg)
          /\ account' = [account EXCEPT !.seq = num + 1]
    BY <1>2, AnswerMoves
  <2>3. account' \in Accounts
    <3>1. num + 1 \in 0..(MaxNum + 1)
      BY <1>0
    <3>. QED BY <1>0, <2>2, <3>1 DEF StateTypes
  <2>4. QueueTypes' /\ HandlerTypes' /\ StateTypes'
    BY <1>0, <2>1, <2>2, <2>3 DEF QueueTypes, HandlerTypes, StateTypes, backVars, guiVars
  <2>. QED BY <2>4
<1>3. CASE ServerLosesBack \/ ServerRemoves
  <2>1. /\ UNCHANGED <<backVars, answers, book, asks, wires, guiVars, historyVars>>
        /\ account' = [account EXCEPT !.open = FALSE]
    BY <1>3 DEF ServerLosesBack, ServerRemoves
  <2>2. account' \in Accounts
    BY <1>0, <2>1 DEF StateTypes
  <2>3. QueueTypes' /\ HandlerTypes' /\ StateTypes'
    BY <2>1, <2>2 DEF QueueTypes, HandlerTypes, StateTypes, backVars, wires, guiVars, historyVars
  <2>. QED BY <2>3
<1>4. CASE ServerAsks
  <2>1. /\ UNCHANGED <<backVars, book, wires, guiVars, historyVars>>
        /\ account' = [account EXCEPT !.test = TRUE] /\ Reply("TestRequest", None)
    BY <1>4 DEF ServerAsks
  <2>2. answers' \in Seq(ServerMsg)
    BY <1>0, <2>1, MsgTypes, ReplyMoves
  <2>3. account' \in Accounts
    BY <1>0, <2>1 DEF StateTypes
  <2>4. QueueTypes' /\ HandlerTypes' /\ StateTypes'
    BY <2>1, <2>2, <2>3 DEF QueueTypes, HandlerTypes, StateTypes, backVars, wires, guiVars, historyVars
  <2>. QED BY <2>4
<1>5. ASSUME NEW o \in Orders, ServerFills(o) PROVE LinkTypes'
  <2>1. /\ UNCHANGED <<backVars, account, asks, wires, guiVars, historyVars>>
        /\ book' = [book EXCEPT ![o] = "Fill"] /\ Reply("Fill", o)
    BY <1>5 DEF ServerFills
  <2>2. answers' \in Seq(ServerMsg)
    BY <1>0, <2>1, MsgTypes, ReplyMoves
  <2>3. book' \in [Orders -> {"none", "Ack", "Refusal", "Fill"}]
    BY <1>0, <2>1 DEF StateTypes
  <2>4. QueueTypes' /\ HandlerTypes' /\ StateTypes'
    BY <2>1, <2>2, <2>3 DEF QueueTypes, HandlerTypes, StateTypes, backVars, wires, guiVars, historyVars
  <2>. QED BY <2>4
<1>. QED BY <1>1, <1>2, <1>3, <1>4, <1>5

\* A step is of the back, of the GUI, or of the server.
LEMMA NextIs ==
  ASSUME Next
  PROVE  \/ Build \/ OutNumber \/ OutCount \/ OutSend \/ Beat \/ \E o \in Orders : Submit(o)
         \/ Receive \/ ValidateHeader \/ Route \/ HandleLogon \/ HandleHeartBeat \/ Execute
         \/ CoreReturns \/ GuiReads
         \/ ServerReads \/ ServerSends \/ ServerLosesBack \/ ServerAsks \/ ServerRemoves
         \/ \E o \in Orders : ServerFills(o)
  BY DEF Next, BackSteps, ServerSteps

\* Every step keeps the types.
LEMMA TypesStep == LinkTypes /\ [Next]_vars => LinkTypes'
<1>1. ASSUME LinkTypes, Next PROVE LinkTypes'
  BY <1>1, NextIs, TypesOut, TypesIn, TypesServer
<1>2. ASSUME LinkTypes, UNCHANGED vars PROVE LinkTypes'
  BY <1>2 DEF LinkTypes, QueueTypes, HandlerTypes, StateTypes, vars, backVars, fixServerVars, wires,
     guiVars, historyVars
<1>. QED BY <1>1, <1>2

\* The queues of the units hold what their unit handles: nothing of another kind
\* is ever in them, and every counter stays within its bound.
THEOREM TypeCorrect == Spec => []TypeOK
<1>1. LinkTypes => TypeOK
  <2> SUFFICES ASSUME LinkTypes PROVE TypeOK
    OBVIOUS
  <2>1. ASSUME NEW u \in Handlers, NEW m \in ToSet(unit[u])
        PROVE  m.kind \in DOMAIN Handler /\ Handler[m.kind] = u
    BY <2>1, HandlerIs DEF LinkTypes, HandlerTypes, Handlers, ServerKinds
  <2>2. DOMAIN unit = Units /\ sender.pc \in {"idle", "count", "send"}
    BY DEF LinkTypes, QueueTypes
  <2>. QED BY <2>1, <2>2 DEF LinkTypes, StateTypes, TypeOK, Handlers
<1>. QED BY <1>1, TypesInit, TypesStep, PTL DEF Spec

-----------------------------------------------------------------------------
(* The login *)

\* Before the back is logged in there is one message, the Logon and then its
\* answer, in one of ten places; the place tells the counters of both ends.
TheLogon(num) == <<Numbered(Msg("Logon", None), num)>>
Sends(pc) == [pc |-> pc, msg |-> Numbered(Msg("Logon", None), FirstNum + 1)]
At(p) ==
  /\ builder = IF p = 1 THEN TheLogon(0) ELSE <<>>
  /\ output = IF p = 2 THEN TheLogon(0) ELSE <<>>
  /\ sender = IF p = 3 THEN Sends("count") ELSE IF p = 4 THEN Sends("send") ELSE Idle
  /\ toServer = IF p = 5 THEN TheLogon(FirstNum + 1) ELSE <<>>
  /\ answers = IF p = 6 THEN TheLogon(0) ELSE <<>>
  /\ toBack = IF p = 7 THEN TheLogon(FirstNum + 2) ELSE <<>>
  /\ unit["header"] = IF p = 8 THEN TheLogon(FirstNum + 2) ELSE <<>>
  /\ unit["router"] = IF p = 9 THEN TheLogon(FirstNum + 2) ELSE <<>>
  /\ unit["auth"] = IF p = 10 THEN TheLogon(FirstNum + 2) ELSE <<>>
  /\ unit["heartbeat"] = <<>> /\ unit["execution"] = <<>>
Counts(p) ==
  /\ p = 2 => user.seq = FirstNum
  /\ p = 3 => user.seq = FirstNum + 1
  /\ p \in {4, 5} => user.seq = FirstNum + 2
  /\ p = 6 => account.seq = FirstNum + 2
  /\ p >= 7 => account.seq = FirstNum + 3
  /\ account.login <=> p >= 6

\* Nothing else has happened.
Outset ==
  /\ core = "run" /\ account.open /\ ~account.test
  /\ ~gui.in /\ toGui.bytes = <<>> /\ \A o \in Orders : book[o] = "none" /\ gui.rows[o] = "none"
  /\ ~crossed /\ ~strayed /\ ~refused

\* After it there is no other Logon, at either end.
NoLogon(q) == \A m \in ToSet(q) : m.kind # "Logon"
LoggedIn ==
  /\ account.login /\ unit["auth"] = <<>>
  /\ \A m \in ToSet(builder) : m.kind = "Order"
  /\ NoLogon(unit["header"]) /\ NoLogon(unit["router"]) /\ NoLogon(toBack) /\ NoLogon(answers)

\* The back has just been logged in: nothing is under way, and both ends have
\* counted the same messages.
Fresh ==
  /\ builder = <<>> /\ output = <<>> /\ sender = Idle /\ toServer = <<>> /\ answers = <<>>
  /\ toBack = <<>> /\ \A u \in Units : unit[u] = <<>>
  /\ user.seq = account.seq /\ account.open /\ ~account.test
  /\ ~crossed /\ ~strayed /\ ~refused

LogonInv == IF user.login THEN LoggedIn ELSE Outset /\ \E p \in 1..10 : At(p) /\ Counts(p)

\* The Logon is a queue of one message.
LEMMA TheLogonIs ==
  ASSUME NEW num
  PROVE  /\ TheLogon(num) # <<>> /\ Head(TheLogon(num)) = Numbered(Msg("Logon", None), num)
         /\ Tail(TheLogon(num)) = <<>> /\ Len(TheLogon(num)) = 1
         /\ TheLogon(num)[1] = Numbered(Msg("Logon", None), num)
         /\ Append(<<>>, Numbered(Msg("Logon", None), num)) = TheLogon(num)
         /\ Numbered(Msg("Logon", None), num).kind = "Logon"
         /\ Numbered(Msg("Logon", None), num).num = num
         /\ \A n : Numbered(Numbered(Msg("Logon", None), n), num) = Numbered(Msg("Logon", None), num)
         /\ Msg("Logon", None) = Numbered(Msg("Logon", None), 0)
<1>1. /\ Numbered(Msg("Logon", None), num).kind = "Logon"
      /\ Numbered(Msg("Logon", None), num).num = num
      /\ \A n : Numbered(Numbered(Msg("Logon", None), n), num) = Numbered(Msg("Logon", None), num)
      /\ Msg("Logon", None) = Numbered(Msg("Logon", None), 0)
  <2>1. \A n : Numbered(Msg("Logon", None), n) = [kind |-> "Logon", order |-> None, num |-> n]
    BY DEF Numbered, Msg
  <2>2. \A n : Numbered([kind |-> "Logon", order |-> None, num |-> n], num)
                 = [kind |-> "Logon", order |-> None, num |-> num]
    BY DEF Numbered
  <2>3. Msg("Logon", None) = [kind |-> "Logon", order |-> None, num |-> 0]
    BY DEF Msg
  <2>. QED BY <2>1, <2>2, <2>3
<1> DEFINE m == Numbered(Msg("Logon", None), num)
<1>2. TheLogon(num) = <<m>>
  BY DEF TheLogon
<1> HIDE DEF m
<1>3. <<m>> # <<>> /\ Head(<<m>>) = m /\ Tail(<<m>>) = <<>> /\ Len(<<m>>) = 1 /\ <<m>>[1] = m
      /\ Append(<<>>, m) = <<m>>
  OBVIOUS
<1>. QED BY <1>1, <1>2, <1>3 DEF m

\* Idle sends nothing.
LEMMA SenderIs ==
  /\ Idle.pc = "idle" /\ Sends("count").pc = "count" /\ Sends("send").pc = "send"
  /\ [Sends("count") EXCEPT !.pc = "send"] = Sends("send")
  /\ Sends("send").msg = Numbered(Msg("Logon", None), FirstNum + 1)
  /\ Sends("count").msg = Numbered(Msg("Logon", None), FirstNum + 1)
  BY DEF Idle, Sends

\* The GUI has just sent its Logon.
LEMMA LogonInit == Init => LogonInv
<1> SUFFICES ASSUME Init PROVE LogonInv
  OBVIOUS
<1>1. /\ unit["header"] = <<>> /\ unit["router"] = <<>> /\ unit["auth"] = <<>>
      /\ unit["heartbeat"] = <<>> /\ unit["execution"] = <<>>
  BY DEF Init, Units
<1>2. builder = TheLogon(0)
  BY TheLogonIs DEF Init, TheLogon
<1>3. At(1)
  BY <1>1, <1>2 DEF Init, At
<1>4. Counts(1)
  BY DEF Init, Counts
<1>5. Outset /\ ~user.login
  BY DEF Init, Outset
<1>. QED BY <1>3, <1>4, <1>5 DEF LogonInv

\* Each of the ten places is left for the next one, and nothing else happens.
LEMMA LogonFirst ==
  ASSUME LinkTypes, LinkTypes', ~user.login, Outset, NEW p \in 1..10, At(p), Counts(p), Next
  PROVE  LogonInv' /\ (user'.login => Fresh')
<1>0. /\ MaxNum \in Nat /\ FirstNum \in Nat /\ FirstNum < MaxNum
      /\ QueueTypes /\ HandlerTypes /\ StateTypes
  BY NumbersAssumption DEF LinkTypes
<1>u. Units = {"header", "router", "auth", "heartbeat", "execution"}
  BY DEF Units
<1>t. \A num : TheLogon(num) # <<>> /\ Len(TheLogon(num)) = 1
  BY TheLogonIs
<1>s. Idle.pc = "idle" /\ Sends("count").pc = "count" /\ Sends("send").pc = "send"
  BY SenderIs
<1>q. ~Quiet
  <2> SUFFICES ASSUME Quiet PROVE FALSE
    OBVIOUS
  <2>1. unit["header"] = <<>> /\ unit["router"] = <<>> /\ unit["auth"] = <<>>
    BY <1>0, <1>u DEF Quiet, QueueTypes
  <2>2. /\ builder = <<>> /\ output = <<>> /\ sender.pc = "idle" /\ answers = <<>>
        /\ toServer = <<>> /\ toBack = <<>>
    BY DEF Quiet
  <2>3. p \notin {1, 2, 5, 6, 7}
    BY <1>t, <2>2 DEF At
  <2>4. p \notin {8, 9, 10}
    BY <1>t, <2>1 DEF At
  <2>5. p \notin {3, 4}
    BY <1>s, <2>2 DEF At
  <2>. QED BY <2>3, <2>4, <2>5
<1>1. CASE Build
  <2>1. p = 1
    BY <1>1 DEF At, Build
  <2>2. /\ UNCHANGED <<sender, unit, core, beats, account, answers, book, asks, wires, guiVars, historyVars>>
        /\ builder' = Tail(builder) /\ output' = Append(output, Head(builder))
        /\ user' = IF Head(builder).kind = "Logon" THEN [user EXCEPT !.seq = FirstNum] ELSE user
    BY <1>1 DEF Build, fixServerVars
  <2>3. Head(builder).kind = "Logon" /\ builder' = <<>> /\ output' = TheLogon(0)
    BY <2>1, <2>2, TheLogonIs DEF At
  <2>4. user'.seq = FirstNum /\ ~user'.login
    BY <1>0, <2>2, <2>3 DEF StateTypes
  <2>5. At(2)' /\ Counts(2)'
    BY <2>1, <2>2, <2>3, <2>4 DEF At, Counts, wires
  <2>6. Outset'
    BY <2>2 DEF Outset, guiVars, historyVars
  <2>. QED BY <2>4, <2>5, <2>6 DEF LogonInv
<1>2. CASE OutNumber
  <2>1. p = 2
    BY <1>2 DEF At, OutNumber
  <2>2. /\ UNCHANGED <<builder, unit, core, beats, account, answers, book, asks, wires, guiVars,
                       strayed, refused>>
        /\ output' = Tail(output) /\ user' = [user EXCEPT !.seq = NextNumber]
        /\ sender' = [pc |-> "count", msg |-> Numbered(Head(output), NextNumber)]
        /\ crossed' = (crossed \/ toBack # <<>> \/ unit["header"] # <<>>)
    BY <1>2 DEF OutNumber, fixServerVars
  <2>3. NextNumber = FirstNum + 1
    BY <2>1 DEF NextNumber, Counts
  <2>4. output' = <<>> /\ sender' = Sends("count") /\ ~crossed'
    <3>1. output = TheLogon(0) /\ toBack = <<>> /\ unit["header"] = <<>>
      BY <2>1 DEF At
    <3>2. Head(output) = Numbered(Msg("Logon", None), 0) /\ Tail(output) = <<>>
      BY <3>1, TheLogonIs
    <3>3. Numbered(Head(output), FirstNum + 1) = Numbered(Msg("Logon", None), FirstNum + 1)
      BY <3>2, TheLogonIs
    <3>. QED BY <2>2, <2>3, <3>1, <3>2, <3>3 DEF Sends, Outset
  <2>5. user'.seq = FirstNum + 1 /\ ~user'.login
    BY <1>0, <2>2, <2>3 DEF StateTypes
  <2>6. At(3)' /\ Counts(3)'
    BY <2>1, <2>2, <2>4, <2>5 DEF At, Counts, wires
  <2>7. Outset'
    BY <2>2, <2>4 DEF Outset, guiVars
  <2>. QED BY <2>5, <2>6, <2>7 DEF LogonInv
<1>3. CASE OutCount
  <2>1. p = 3
    BY <1>3, <1>s DEF At, OutCount
  <2>2. /\ UNCHANGED <<builder, output, unit, core, beats, account, answers, book, asks, wires, guiVars,
                       crossed, refused>>
        /\ strayed' = (strayed \/ user.seq # sender.msg.num)
        /\ sender' = [sender EXCEPT !.pc = "send"]
    BY <1>3 DEF OutCount, fixServerVars
  <2>3. PICK seq \in {user.seq, sender.msg.num} : user' = [user EXCEPT !.seq = seq + 1]
    BY <1>3 DEF OutCount
  <2>4. user.seq = FirstNum + 1 /\ sender.msg.num = FirstNum + 1 /\ sender' = Sends("send")
    BY <2>1, <2>2, SenderIs, TheLogonIs DEF At, Counts
  <2>5. user'.seq = FirstNum + 2 /\ ~user'.login /\ ~strayed'
    BY <1>0, <2>2, <2>3, <2>4 DEF StateTypes, Outset
  <2>6. At(4)' /\ Counts(4)'
    BY <2>1, <2>2, <2>4, <2>5 DEF At, Counts, wires
  <2>7. Outset'
    BY <2>2, <2>5 DEF Outset, guiVars
  <2>. QED BY <2>5, <2>6, <2>7 DEF LogonInv
<1>4. CASE OutSend
  <2>1. p = 4
    BY <1>4, <1>s DEF At, OutSend
  <2>2. /\ UNCHANGED <<user, builder, output, unit, beats, account, answers, book, asks, toBack, guiVars,
                       historyVars>>
        /\ sender' = Idle
    BY <1>4 DEF OutSend, fixServerVars
  <2>3. core' = core /\ toServer' = Append(toServer, sender.msg)
    BY <1>4, <1>0, SendMoves DEF Outset
  <2>4. toServer' = TheLogon(FirstNum + 1)
    BY <2>1, <2>3, SenderIs, TheLogonIs DEF At
  <2>5. At(5)' /\ Counts(5)'
    BY <2>1, <2>2, <2>4 DEF At, Counts
  <2>6. Outset' /\ ~user'.login
    BY <2>2, <2>3 DEF Outset, guiVars, historyVars
  <2>. QED BY <2>5, <2>6 DEF LogonInv
<1>5. CASE ServerReads
  <2>1. p = 5
    BY <1>5 DEF At, ServerReads
  <2>2. /\ UNCHANGED <<backVars, asks, toBack, guiVars, crossed>> /\ toServer' = <<>>
        /\ strayed' = (strayed \/ Len(toServer) > 1)
        /\ refused' = (refused \/ (Len(toServer) = 1 /\ ServerRefuses(Moved, toServer[1])))
    BY <1>5 DEF ServerReads, Moved
  <2>3. /\ Len(toServer) = 1 /\ toServer[1].kind = "Logon" /\ toServer[1].num = FirstNum + 1
        /\ ~account.login
    BY <2>1, TheLogonIs DEF At, Counts
  <2>4. ~Moved.login /\ ~Moved.test /\ Moved.open
    BY <1>0, <2>3 DEF Moved, StateTypes, Outset
  <2>5. ~Refusing /\ ~strayed' /\ ~refused'
    <3>1. ~(Len(toServer) > 1)
      BY <2>3
    <3>2. ~ServerRefuses(Moved, toServer[1])
      BY <2>3, <2>4 DEF ServerRefuses
    <3>3. ~Refusing
      BY <2>3, <2>4, <3>1, <3>2 DEF Refusing
    <3>. QED BY <2>2, <3>1, <3>2, <3>3 DEF Outset
  <2>6. Reading(toServer[1], Moved, Refusing)
    BY <1>5, ReadMoves
  <2>7. /\ account' = [Moved EXCEPT !.login = TRUE, !.seq = FirstNum + 1 + 1]
        /\ answers' = Append(answers, Msg("Logon", None)) /\ book' = book
    BY <2>3, <2>5, <2>6 DEF Reading
  <2>8. answers' = TheLogon(0)
    BY <2>1, <2>7, TheLogonIs DEF At
  <2>9. account'.login /\ account'.seq = FirstNum + 2 /\ account'.open /\ ~account'.test
    <3>1. Moved \in [login : BOOLEAN, seq : Nat, test : BOOLEAN, open : BOOLEAN]
      BY <1>0 DEF Moved, StateTypes
    <3>. QED BY <1>0, <2>4, <2>7, <3>1
  <2>10. At(6)' /\ Counts(6)'
    BY <2>1, <2>2, <2>8, <2>9 DEF At, Counts, backVars
  <2>11. Outset' /\ ~user'.login
    BY <2>2, <2>5, <2>7, <2>9 DEF Outset, backVars, guiVars
  <2>. QED BY <2>10, <2>11 DEF LogonInv
<1>6. CASE ServerSends
  <2>1. p = 6
    BY <1>6 DEF At, ServerSends
  <2>2. /\ UNCHANGED <<backVars, book, asks, toServer, guiVars, strayed, refused>>
        /\ crossed' = (crossed \/ toServer # <<>> \/ sender.pc # "idle")
    BY <1>6 DEF ServerSends
  <2>3. account.login /\ account.seq = FirstNum + 2
    BY <2>1 DEF Counts
  <2>4. /\ answers' = Tail(answers) /\ toBack' = Append(toBack, Numbered(Head(answers), FirstNum + 2))
        /\ account' = [account EXCEPT !.seq = FirstNum + 2 + 1]
    BY <1>6, <2>3, AnswerMoves
  <2>5. answers' = <<>> /\ toBack' = TheLogon(FirstNum + 2) /\ ~crossed'
    <3>1. answers = TheLogon(0) /\ toBack = <<>> /\ toServer = <<>> /\ sender = Idle
      BY <2>1 DEF At
    <3>2. Head(answers) = Numbered(Msg("Logon", None), 0) /\ Tail(answers) = <<>>
      BY <3>1, TheLogonIs
    <3>3. Numbered(Head(answers), FirstNum + 2) = Numbered(Msg("Logon", None), FirstNum + 2)
      BY <3>2, TheLogonIs
    <3>4. toBack' = TheLogon(FirstNum + 2)
      BY <2>4, <3>1, <3>3, TheLogonIs
    <3>. QED BY <2>2, <2>4, <3>1, <3>2, <3>4, <1>s DEF Outset
  <2>6. account'.login /\ account'.seq = FirstNum + 3 /\ account'.open /\ ~account'.test
    BY <1>0, <2>3, <2>4 DEF StateTypes, Outset
  <2>7. At(7)' /\ Counts(7)'
    BY <2>1, <2>2, <2>5, <2>6 DEF At, Counts, backVars
  <2>8. Outset' /\ ~user'.login
    BY <2>2, <2>5, <2>6 DEF Outset, backVars, guiVars
  <2>. QED BY <2>7, <2>8 DEF LogonInv
<1>7. CASE Receive
  <2>1. p = 7
    BY <1>7 DEF At, Receive
  <2>2. /\ UNCHANGED <<builder, sender, core, beats, account, answers, book, asks, toServer, guiVars,
                       refused>>
        /\ toBack' = <<>> /\ user' = user
        /\ crossed' = (crossed \/ unit["header"] # <<>>)
    BY <1>7 DEF Receive, fixServerVars, Counted
  <2>3. Len(toBack) = 1 /\ toBack[1] = Numbered(Msg("Logon", None), FirstNum + 2)
    BY <2>1, TheLogonIs DEF At
  <2>4. /\ unit'["header"] = Append(unit["header"], toBack[1]) /\ output' = output /\ strayed' = strayed
        /\ \A u \in Units \ {"header"} : unit'[u] = unit[u]
    BY <1>0, <1>7, <2>3, ReceiveMoves
  <2>5. unit'["header"] = TheLogon(FirstNum + 2) /\ ~crossed'
    <3>1. unit["header"] = <<>>
      BY <2>1 DEF At
    <3>2. unit'["header"] = TheLogon(FirstNum + 2)
      BY <2>3, <2>4, <3>1, TheLogonIs
    <3>. QED BY <2>2, <3>1, <3>2 DEF Outset
  <2>6. At(8)' /\ Counts(8)'
    <3>1. /\ unit'["router"] = unit["router"] /\ unit'["auth"] = unit["auth"]
          /\ unit'["heartbeat"] = unit["heartbeat"] /\ unit'["execution"] = unit["execution"]
      BY <2>4, <1>u
    <3>2. /\ builder = <<>> /\ output = <<>> /\ sender = Idle /\ toServer = <<>> /\ answers = <<>>
          /\ unit["router"] = <<>> /\ unit["auth"] = <<>>
          /\ unit["heartbeat"] = <<>> /\ unit["execution"] = <<>>
      BY <2>1 DEF At
    <3>3. /\ builder' = <<>> /\ output' = <<>> /\ sender' = Idle /\ toServer' = <<>> /\ answers' = <<>>
          /\ toBack' = <<>> /\ unit'["header"] = TheLogon(FirstNum + 2)
          /\ unit'["router"] = <<>> /\ unit'["auth"] = <<>>
          /\ unit'["heartbeat"] = <<>> /\ unit'["execution"] = <<>>
      BY <2>2, <2>4, <2>5, <3>1, <3>2
    <3>4. At(8)'
      BY <3>3 DEF At
    <3>5. Counts(8)'
      BY <2>1, <2>2 DEF Counts
    <3>. QED BY <3>4, <3>5
  <2>7. Outset' /\ ~user'.login
    BY <2>2, <2>4, <2>5 DEF Outset, guiVars
  <2>. QED BY <2>6, <2>7 DEF LogonInv
<1>8. CASE ValidateHeader
  <2>1. p = 8
    BY <1>8 DEF At, ValidateHeader
  <2>2. UNCHANGED <<user, builder, sender, core, beats, account, answers, book, asks, wires, guiVars,
                    crossed, strayed>>
    BY <1>8 DEF ValidateHeader, fixServerVars
  <2>3. /\ Head(unit["header"]) = Numbered(Msg("Logon", None), FirstNum + 2)
        /\ Tail(unit["header"]) = <<>>
        /\ ~RefusedByNumber(Head(unit["header"]))
    BY <2>1, TheLogonIs DEF At, RefusedByNumber
  <2>4. /\ unit' = [unit EXCEPT !["header"] = Tail(@), !["router"] = Append(@, Head(unit["header"]))]
        /\ output' = output /\ refused' = refused
    BY <1>8, <2>3 DEF ValidateHeader
  <2>5. /\ unit'["header"] = <<>> /\ unit'["router"] = TheLogon(FirstNum + 2)
        /\ \A u \in Handlers : unit'[u] = unit[u]
    BY <1>0, <1>u, <2>1, <2>3, <2>4, TheLogonIs DEF At, QueueTypes, Handlers
  <2>6. At(9)' /\ Counts(9)'
    BY <2>1, <2>2, <2>4, <2>5 DEF At, Counts, wires, Handlers
  <2>7. Outset' /\ ~user'.login
    BY <2>2, <2>4 DEF Outset, guiVars
  <2>. QED BY <2>6, <2>7 DEF LogonInv
<1>9. CASE Route
  <2>1. p = 9
    BY <1>9 DEF At, Route
  <2>2. UNCHANGED <<user, builder, output, sender, core, beats, account, answers, book, asks, wires,
                    guiVars, historyVars>>
    BY <1>9 DEF Route, fixServerVars
  <2>3. /\ Head(unit["router"]) = Numbered(Msg("Logon", None), FirstNum + 2)
        /\ Tail(unit["router"]) = <<>> /\ Head(unit["router"]).kind = "Logon"
        /\ Handler["Logon"] = "auth"
    BY <2>1, TheLogonIs, HandlerIs DEF At
  <2>4. /\ unit'["router"] = Tail(unit["router"]) /\ unit'["header"] = unit["header"]
        /\ unit'["auth"] = Append(unit["auth"], Head(unit["router"]))
        /\ unit'["heartbeat"] = unit["heartbeat"] /\ unit'["execution"] = unit["execution"]
    BY <1>0, <1>9, <2>3, RouteMoves DEF Handlers
  <2>5. unit'["router"] = <<>> /\ unit'["auth"] = TheLogon(FirstNum + 2)
    BY <2>1, <2>3, <2>4, TheLogonIs DEF At
  <2>6. At(10)' /\ Counts(10)'
    <3>1. /\ builder = <<>> /\ output = <<>> /\ sender = Idle /\ toServer = <<>> /\ answers = <<>>
          /\ toBack = <<>> /\ unit["header"] = <<>>
          /\ unit["heartbeat"] = <<>> /\ unit["execution"] = <<>>
      BY <2>1 DEF At
    <3>2. /\ builder' = <<>> /\ output' = <<>> /\ sender' = Idle /\ toServer' = <<>> /\ answers' = <<>>
          /\ toBack' = <<>> /\ unit'["header"] = <<>>
          /\ unit'["router"] = <<>> /\ unit'["auth"] = TheLogon(FirstNum + 2)
          /\ unit'["heartbeat"] = <<>> /\ unit'["execution"] = <<>>
      BY <2>2, <2>4, <2>5, <3>1 DEF wires
    <3>3. At(10)'
      BY <3>2 DEF At
    <3>4. Counts(10)'
      BY <2>1, <2>2 DEF Counts
    <3>. QED BY <3>3, <3>4
  <2>7. Outset' /\ ~user'.login
    BY <2>2 DEF Outset, guiVars, historyVars
  <2>. QED BY <2>6, <2>7 DEF LogonInv
<1>10. CASE HandleLogon
  <2>1. p = 10
    BY <1>10 DEF At, HandleLogon
  <2>2. /\ UNCHANGED <<builder, output, sender, core, beats, account, answers, book, asks, wires, gui,
                       historyVars>>
        /\ user' = LoggedOn(Head(unit["auth"]).num) /\ Done("auth")
    BY <1>10 DEF HandleLogon, fixServerVars
  <2>3. Tail(unit["auth"]) = <<>>
    BY <2>1, TheLogonIs DEF At
  <2>4. /\ unit'["auth"] = Tail(unit["auth"])
        /\ unit'["header"] = unit["header"] /\ unit'["router"] = unit["router"]
    BY <1>0, <1>10, <1>u, <2>2, DoneMoves DEF HandleLogon
  <2>5. user'.login
    BY <2>2 DEF LoggedOn
  <2>6. LoggedIn'
    BY <2>1, <2>2, <2>3, <2>4, Contents DEF At, Counts, LoggedIn, NoLogon, wires
  <2>7. Fresh'
    <3>1. /\ builder = <<>> /\ output = <<>> /\ sender = Idle /\ toServer = <<>> /\ answers = <<>>
          /\ toBack = <<>> /\ unit["header"] = <<>> /\ unit["router"] = <<>>
          /\ unit["heartbeat"] = <<>> /\ unit["execution"] = <<>>
          /\ Head(unit["auth"]) = Numbered(Msg("Logon", None), FirstNum + 2)
      BY <2>1, TheLogonIs DEF At
    <3>2. user'.seq = FirstNum + 3 /\ account.seq = FirstNum + 3
      BY <1>0, <2>1, <2>2, <3>1, TheLogonIs DEF LoggedOn, Counts
    <3>3. \A u \in Units : unit'[u] = <<>>
      <4>1. \A v \in Units \ {"auth"} : unit'[v] = unit[v]
        BY <1>0, <1>10, <1>u, <2>2, DoneMoves DEF HandleLogon
      <4>. QED BY <1>u, <2>3, <2>4, <3>1, <4>1
    <3>. QED BY <2>2, <3>1, <3>2, <3>3 DEF Fresh, Outset, wires, historyVars
  <2>. QED BY <2>5, <2>6, <2>7 DEF LogonInv
<1>11. ~Beat /\ ~CoreReturns
  BY DEF Beat, CoreReturns, Outset
<1>12. ~HandleHeartBeat /\ ~Execute /\ ~GuiReads
  BY DEF HandleHeartBeat, Execute, GuiReads, At, Outset
<1>13. ~ServerAsks /\ ~ServerRemoves /\ ~ServerLosesBack
  BY <1>q DEF ServerAsks, ServerRemoves, ServerLosesBack, Alive, Outset
<1>14. \A o \in Orders : ~Submit(o) /\ ~ServerFills(o)
  BY DEF Submit, ServerFills, Outset
<1>. QED BY <1>1, <1>2, <1>3, <1>4, <1>5, <1>6, <1>7, <1>8, <1>9, <1>10, <1>11, <1>12, <1>13, <1>14,
        NextIs

\* A back that is logged in stays so, and no Logon is made at either end.
LEMMA LogonAfter ==
  ASSUME LinkTypes, user.login, LoggedIn, Next
  PROVE  user'.login /\ LoggedIn'
<1>0. QueueTypes /\ HandlerTypes /\ StateTypes
  BY DEF LinkTypes
<1>u. Units = {"header", "router", "auth", "heartbeat", "execution"}
  BY DEF Units
<1>1. CASE Build
  <2>1. /\ UNCHANGED <<unit, account, answers, toBack>>
        /\ user' = IF Head(builder).kind = "Logon" THEN [user EXCEPT !.seq = FirstNum] ELSE user
    BY <1>1 DEF Build, fixServerVars, wires
  <2>2. ToSet(builder') \subseteq ToSet(builder)
    BY <1>0, <1>1, BuildMoves
  <2>3. user'.login
    BY <1>0, <2>1 DEF StateTypes
  <2>. QED BY <2>1, <2>2, <2>3 DEF LoggedIn, NoLogon
<1>2. CASE OutNumber \/ OutCount
  <2>1. UNCHANGED <<builder, unit, account, answers, toBack>>
    BY <1>2 DEF OutNumber, OutCount, fixServerVars, wires
  <2>2. user'.login
    <3>1. CASE OutNumber
      BY <3>1, <1>0 DEF OutNumber, StateTypes
    <3>2. CASE OutCount
      <4>1. PICK seq \in {user.seq, sender.msg.num} : user' = [user EXCEPT !.seq = seq + 1]
        BY <3>2 DEF OutCount
      <4>. QED BY <4>1, <1>0 DEF StateTypes
    <3>. QED BY <1>2, <3>1, <3>2
  <2>. QED BY <2>1, <2>2 DEF LoggedIn, NoLogon
<1>3. CASE OutSend \/ Beat \/ CoreReturns \/ GuiReads
  <2>1. UNCHANGED <<user, builder, unit, account, answers, toBack>>
    BY <1>3 DEF OutSend, Beat, CoreReturns, GuiReads, fixServerVars, wires, backVars
  <2>. QED BY <2>1 DEF LoggedIn, NoLogon
<1>4. CASE Receive
  <2>1. UNCHANGED <<builder, account, answers>> /\ toBack' = <<>> /\ user' = Counted
    BY <1>4 DEF Receive, fixServerVars
  <2>2. /\ ToSet(unit'["header"]) \subseteq ToSet(unit["header"]) \cup ToSet(toBack)
        /\ unit'["auth"] = unit["auth"] /\ unit'["router"] = unit["router"]
    BY <1>0, <1>4, <1>u, ReceiveMoves
  <2>3. user'.login
    BY <1>0, <2>1 DEF StateTypes, Counted
  <2>. QED BY <2>1, <2>2, <2>3, Contents DEF LoggedIn, NoLogon
<1>5. CASE ValidateHeader
  <2>1. UNCHANGED <<user, builder, account, answers, toBack>>
    BY <1>5 DEF ValidateHeader, fixServerVars, wires
  <2>2. /\ ToSet(unit'["header"]) \subseteq ToSet(unit["header"])
        /\ ToSet(unit'["router"]) \subseteq ToSet(unit["router"]) \cup ToSet(unit["header"])
        /\ unit'["auth"] = unit["auth"]
    BY <1>0, <1>5, <1>u, ValidateMoves
  <2>. QED BY <2>1, <2>2 DEF LoggedIn, NoLogon
<1>6. CASE Route
  <2>1. UNCHANGED <<user, builder, account, answers, toBack>>
    BY <1>6 DEF Route, fixServerVars, wires
  <2> DEFINE m == Head(unit["router"])
  <2>2. /\ m \in ServerMsg /\ m \in ToSet(unit["router"])
        /\ ToSet(unit'["router"]) \subseteq ToSet(unit["router"])
        /\ unit'["header"] = unit["header"]
        /\ (m.kind # "Reject" /\ Handler[m.kind] = "auth") \/ unit'["auth"] = unit["auth"]
    BY <1>0, <1>6, RouteMoves DEF Handlers
  <2>3. m.kind \in ServerKinds /\ m.kind # "Logon"
    BY <2>2 DEF ServerMsg, LoggedIn, NoLogon
  <2> HIDE DEF m
  <2>4. ~(m.kind # "Reject" /\ Handler[m.kind] = "auth")
    BY <2>3, HandlerIs DEF ServerKinds
  <2>. QED BY <2>1, <2>2, <2>4 DEF LoggedIn, NoLogon
<1>7. ~HandleLogon
  BY DEF HandleLogon, LoggedIn
<1>8. CASE HandleHeartBeat
  <2>1. UNCHANGED <<user, builder, account, answers, toBack>> /\ Done("heartbeat")
        /\ unit["heartbeat"] # <<>>
    BY <1>8 DEF HandleHeartBeat, fixServerVars, wires
  <2>2. \A v \in {"header", "router", "auth"} : unit'[v] = unit[v]
    BY <1>0, <1>u, <2>1, DoneMoves
  <2>. QED BY <2>1, <2>2 DEF LoggedIn, NoLogon
<1>9. CASE Execute
  <2>1. UNCHANGED <<user, builder, account, answers, toBack>> /\ Done("execution")
        /\ unit["execution"] # <<>>
    BY <1>9 DEF Execute, fixServerVars, wires
  <2>2. \A v \in {"header", "router", "auth"} : unit'[v] = unit[v]
    BY <1>0, <1>u, <2>1, DoneMoves
  <2>. QED BY <2>1, <2>2 DEF LoggedIn, NoLogon
<1>10. ASSUME NEW o \in Orders, Submit(o) PROVE user'.login /\ LoggedIn'
  <2>1. UNCHANGED <<user, unit, account, answers, toBack>>
    BY <1>10 DEF Submit, fixServerVars, wires
  <2>2. ToSet(builder') = ToSet(builder) \cup {Msg("Order", o)} /\ Msg("Order", o).kind = "Order"
    BY <1>0, <1>10, SubmitMoves, MsgIs
  <2>. QED BY <2>1, <2>2 DEF LoggedIn, NoLogon
<1>11. CASE ServerReads
  <2>1. UNCHANGED <<user, builder, unit, toBack>>
    BY <1>11 DEF ServerReads, backVars
  <2> DEFINE m == toServer[1]
  <2>2. Reading(m, Moved, Refusing)
    BY <1>11, ReadMoves
  <2>3. Moved \in [login : BOOLEAN, seq : Int, test : BOOLEAN, open : BOOLEAN] /\ Moved.login
    BY <1>0 DEF Moved, StateTypes, LoggedIn
  <2>4. Refusing \/ m.kind # "Logon"
    BY <2>3 DEF Refusing
  <2> HIDE DEF m, Refusing, Moved
  <2>5. \A k, x : Msg(k, x).kind = k
    BY MsgIs
  <2>6. account'.login
    BY <2>2, <2>3, <2>4 DEF Reading
  <2>7. NoLogon(answers)'
    <3>1. \E k \in {"Reject", "Ack", "Refusal", "HeartBeat"} : \E x :
            ToSet(answers') \subseteq ToSet(answers) \cup {Msg(k, x)}
      BY <2>2, <2>4 DEF Reading
    <3>. QED BY <3>1, <2>5 DEF LoggedIn, NoLogon
  <2>. QED BY <2>1, <2>6, <2>7 DEF LoggedIn, NoLogon
<1>12. CASE ServerSends
  <2>1. UNCHANGED <<user, builder, unit>>
    BY <1>12 DEF ServerSends, backVars
  <2>2. PICK num :
          /\ Head(answers) \in ServerMsg
          /\ ToSet(answers) = {Head(answers)} \cup ToSet(answers')
          /\ ToSet(toBack') = ToSet(toBack) \cup {Numbered(Head(answers), num)}
          /\ account' = [account EXCEPT !.seq = num + 1]
    BY <1>12, AnswerMoves
  <2>3. account'.login
    BY <1>0, <2>2 DEF StateTypes, LoggedIn
  <2>4. Numbered(Head(answers), num).kind = Head(answers).kind
    BY <2>2, MsgIs
  <2>5. NoLogon(answers)' /\ NoLogon(toBack)'
    BY <2>2, <2>4 DEF LoggedIn, NoLogon
  <2>. QED BY <2>1, <2>3, <2>5 DEF LoggedIn, NoLogon
<1>13. CASE ServerLosesBack \/ ServerRemoves
  <2>1. UNCHANGED <<user, builder, unit, answers, toBack>> /\ account' = [account EXCEPT !.open = FALSE]
    BY <1>13 DEF ServerLosesBack, ServerRemoves, backVars, wires
  <2>. QED BY <1>0, <2>1 DEF StateTypes, LoggedIn, NoLogon
<1>14. CASE ServerAsks
  <2>1. /\ UNCHANGED <<user, builder, unit, toBack>> /\ account' = [account EXCEPT !.test = TRUE]
        /\ Reply("TestRequest", None)
    BY <1>14 DEF ServerAsks, backVars, wires
  <2>2. /\ ToSet(answers') = ToSet(answers) \cup {Msg("TestRequest", None)}
        /\ Msg("TestRequest", None).kind = "TestRequest"
    BY <1>0, <2>1, MsgTypes, MsgIs, ReplyMoves
  <2>. QED BY <1>0, <2>1, <2>2 DEF StateTypes, LoggedIn, NoLogon
<1>15. ASSUME NEW o \in Orders, ServerFills(o) PROVE user'.login /\ LoggedIn'
  <2>1. UNCHANGED <<user, builder, unit, account, toBack>> /\ Reply("Fill", o)
    BY <1>15 DEF ServerFills, backVars, wires
  <2>2. ToSet(answers') = ToSet(answers) \cup {Msg("Fill", o)} /\ Msg("Fill", o).kind = "Fill"
    BY <1>0, <2>1, MsgTypes, MsgIs, ReplyMoves
  <2>. QED BY <1>0, <2>1, <2>2 DEF StateTypes, LoggedIn, NoLogon
<1>. QED BY <1>1, <1>2, <1>3, <1>4, <1>5, <1>6, <1>7, <1>8, <1>9, <1>10, <1>11, <1>12, <1>13, <1>14,
        <1>15, NextIs

\* Every step keeps the account of the login.
LEMMA LogonStep ==
  ASSUME LinkTypes, LinkTypes', LogonInv, [Next]_vars
  PROVE  LogonInv' /\ (user'.login => user.login \/ Fresh')
<1>1. ASSUME Next, ~user.login PROVE LogonInv' /\ (user'.login => Fresh')
  <2>1. PICK p \in 1..10 : At(p) /\ Counts(p)
    BY <1>1 DEF LogonInv
  <2>2. Outset
    BY <1>1 DEF LogonInv
  <2>. QED BY <1>1, <2>1, <2>2, LogonFirst
<1>2. ASSUME Next, user.login PROVE LogonInv'
  <2>1. user'.login /\ LoggedIn'
    BY <1>2, LogonAfter DEF LogonInv
  <2>. QED BY <2>1 DEF LogonInv
<1>3. ASSUME UNCHANGED vars PROVE LogonInv' /\ user' = user
  <2>1. /\ UNCHANGED <<user, builder, output, sender, unit, core, account, answers, book, toServer,
                       toBack, toGui, gui, crossed, strayed, refused>>
    BY <1>3 DEF vars, backVars, fixServerVars, wires, guiVars, historyVars
  <2>2. (Outset <=> Outset') /\ (LoggedIn <=> LoggedIn') /\ \A p : At(p) /\ Counts(p) => At(p)' /\ Counts(p)'
    BY <2>1 DEF Outset, LoggedIn, At, Counts, NoLogon
  <2>. QED BY <2>1, <2>2 DEF LogonInv
<1>. QED BY <1>1, <1>2, <1>3

-----------------------------------------------------------------------------
(* The counters *)

\* What one end has counted and the other has not is on its way.
InSend == IF sender.pc = "send" THEN 1 ELSE 0
BalanceInv ==
  user.login /\ account.open /\ ~strayed =>
    user.seq + Len(toBack) = account.seq + Len(toServer) + InSend

\* The two ends take turns, unless messages have crossed.
BackSends == sender.pc # "idle" \/ toServer # <<>>
ServerSent == toBack # <<>> \/ unit["header"] # <<>>
TurnInv == ~crossed => ~(BackSends /\ ServerSent)

\* What is on its way carries the numbers that the other end will expect.
NumberInv ==
  user.login /\ ~crossed /\ ~strayed =>
    /\ Len(unit["header"]) <= 1
    /\ \A k \in 1..Len(unit["header"]) : unit["header"][k].num = user.seq - 1
    /\ \A k \in 1..Len(toBack) : toBack[k].num = user.seq + k - 1
    /\ \A k \in 1..Len(toServer) : toServer[k].num = account.seq + k - 1
    /\ account.open /\ sender.pc # "idle" => sender.msg.num = account.seq + Len(toServer)

CountInv == BalanceInv /\ TurnInv /\ NumberInv /\ RefusedIfCrossed

\* Before the login, and when it is done, there is nothing to count.
LEMMA CountFirst ==
  ASSUME LinkTypes, LogonInv, ~user.login \/ Fresh
  PROVE  CountInv
<1>u. Units = {"header", "router", "auth", "heartbeat", "execution"}
  BY DEF Units
<1>1. CASE ~user.login
  <2>1. PICK p \in 1..10 : At(p)
    BY <1>1 DEF LogonInv
  <2>2. ~refused
    BY <1>1 DEF LogonInv, Outset
  <2>3. TurnInv
    <3>1. p \notin {3, 4, 5} => ~BackSends
      BY <2>1, SenderIs DEF At, BackSends
    <3>2. p \in {3, 4, 5} => ~ServerSent
      BY <2>1 DEF At, ServerSent
    <3>. QED BY <3>1, <3>2 DEF TurnInv
  <2>. QED BY <1>1, <2>2, <2>3 DEF CountInv, BalanceInv, NumberInv, RefusedIfCrossed
<1>2. CASE Fresh
  <2>1. /\ Len(toBack) = 0 /\ Len(toServer) = 0 /\ Len(unit["header"]) = 0 /\ sender.pc = "idle"
        /\ toBack = <<>> /\ toServer = <<>> /\ unit["header"] = <<>>
        /\ user.seq = account.seq /\ ~refused
    BY <1>2, <1>u, Contents, SenderIs DEF Fresh
  <2>2. user.seq \in Int
    BY DEF LinkTypes, StateTypes
  <2>. QED BY <2>1, <2>2 DEF CountInv, BalanceInv, InSend, TurnInv, NumberInv, RefusedIfCrossed, BackSends, ServerSent
<1>. QED BY <1>1, <1>2

\* A step that neither counts, nor sends, nor checks a number.
CountsKept ==
  /\ UNCHANGED <<user, toBack, toServer, sender, crossed, strayed, refused>>
  /\ unit'["header"] = unit["header"] /\ account'.seq = account.seq
  /\ account'.open => account.open

\* Such a step disturbs nothing.
LEMMA KeptCounts == CountInv /\ CountsKept => CountInv'
<1> SUFFICES ASSUME CountInv, CountsKept PROVE CountInv'
  OBVIOUS
<1>1. BalanceInv'
  BY DEF CountInv, CountsKept, BalanceInv, InSend
<1>2. TurnInv'
  BY DEF CountInv, CountsKept, TurnInv, BackSends, ServerSent
<1>3. NumberInv'
  BY DEF CountInv, CountsKept, NumberInv
<1>4. RefusedIfCrossed'
  BY DEF CountInv, CountsKept, RefusedIfCrossed
<1>. QED BY <1>1, <1>2, <1>3, <1>4 DEF CountInv

\* Which steps these are.
LEMMA KeptSteps ==
  ASSUME LinkTypes, user.login, LoggedIn, Next,
         ~OutNumber, ~OutCount, ~OutSend, ~Receive, ~ValidateHeader, ~ServerReads, ~ServerSends
  PROVE  CountsKept
<1>0. QueueTypes /\ HandlerTypes /\ StateTypes
  BY DEF LinkTypes
<1>u. Units = {"header", "router", "auth", "heartbeat", "execution"}
  BY DEF Units
<1>1. CASE Build
  <2>1. Head(builder) \in ToSet(builder)
    BY <1>0, <1>1, BuildMoves
  <2>2. Head(builder).kind = "Order"
    BY <2>1 DEF LoggedIn
  <2>. QED BY <1>1, <2>2 DEF Build, CountsKept, fixServerVars, wires, historyVars
<1>2. CASE Beat \/ CoreReturns \/ GuiReads
  BY <1>2 DEF Beat, CoreReturns, GuiReads, CountsKept, backVars, fixServerVars, wires, historyVars
<1>3. CASE Route
  <2>1. unit'["header"] = unit["header"]
    BY <1>0, <1>3, RouteMoves
  <2>. QED BY <1>3, <2>1 DEF Route, CountsKept, fixServerVars, wires, historyVars
<1>4. ~HandleLogon
  BY DEF HandleLogon, LoggedIn
<1>5. CASE HandleHeartBeat
  <2>1. unit'["header"] = unit["header"]
    BY <1>0, <1>5, <1>u, DoneMoves DEF HandleHeartBeat
  <2>. QED BY <1>5, <2>1 DEF HandleHeartBeat, CountsKept, fixServerVars, wires, historyVars
<1>6. CASE Execute
  <2>1. unit'["header"] = unit["header"]
    BY <1>0, <1>6, <1>u, DoneMoves DEF Execute
  <2>. QED BY <1>6, <2>1 DEF Execute, CountsKept, fixServerVars, wires, historyVars
<1>7. ASSUME NEW o \in Orders, Submit(o) \/ ServerFills(o) PROVE CountsKept
  BY <1>7 DEF Submit, ServerFills, CountsKept, backVars, fixServerVars, wires, historyVars
<1>8. CASE ServerLosesBack \/ ServerRemoves
  BY <1>0, <1>8 DEF ServerLosesBack, ServerRemoves, StateTypes, CountsKept, backVars, wires, historyVars
<1>9. CASE ServerAsks
  BY <1>0, <1>9 DEF ServerAsks, StateTypes, CountsKept, backVars, wires, historyVars
<1>. QED BY <1>1, <1>2, <1>3, <1>4, <1>5, <1>6, <1>7, <1>8, <1>9, NextIs

\* The steps of TcpOutput keep the account of the numbers.
LEMMA CountOut ==
  ASSUME LinkTypes, user.login, CountInv, OutNumber \/ OutCount \/ OutSend
  PROVE  CountInv'
<1>0. QueueTypes /\ StateTypes
  BY DEF LinkTypes
<1>b. crossed \in BOOLEAN /\ strayed \in BOOLEAN /\ refused \in BOOLEAN
  BY <1>0 DEF StateTypes
<1>i. /\ user.seq \in Int /\ account.seq \in Int /\ InSend \in Int
      /\ Len(toBack) \in Nat /\ Len(toServer) \in Nat /\ Len(unit["header"]) \in Nat
      /\ toBack = <<>> <=> Len(toBack) = 0
      /\ unit["header"] = <<>> <=> Len(unit["header"]) = 0
  <2>1. /\ toBack \in Seq(ServerMsg) /\ toServer \in Seq(BackMsg) /\ unit["header"] \in Seq(ServerMsg)
        /\ user.seq \in Int /\ account.seq \in Int
    BY <1>0 DEF QueueTypes, StateTypes, Units
  <2>2. InSend \in Int
    BY DEF InSend
  <2>. QED BY <2>1, <2>2, Contents
<1> USE DEF CountInv
<1>1. CASE OutNumber
  <2>1. /\ UNCHANGED <<unit, account, toServer, toBack, strayed, refused>>
        /\ crossed' = (crossed \/ toBack # <<>> \/ unit["header"] # <<>>)
        /\ user' = [user EXCEPT !.seq = NextNumber] /\ NextNumber = user.seq
    BY <1>1 DEF OutNumber, fixServerVars, wires, NextNumber
  <2>2. user' = user
    BY <1>0, <2>1 DEF StateTypes
  <2>3. Head(output) \in BackMsg /\ sender.pc = "idle"
        /\ sender' = [pc |-> "count", msg |-> Numbered(Head(output), NextNumber)]
    BY <1>1, NumberMoves
  <2>4. sender'.pc = "count" /\ sender'.msg.num = user.seq
    BY <2>1, <2>3, MsgIs
  <2>5. BalanceInv'
    BY <2>1, <2>2, <2>3, <2>4 DEF BalanceInv, InSend
  <2>6. TurnInv'
    BY <2>1 DEF TurnInv, ServerSent
  <2>7. NumberInv'
    <3> SUFFICES ASSUME ~crossed', ~strayed'
                 PROVE  /\ Len(unit["header"]) <= 1
                        /\ \A k \in 1..Len(unit["header"]) : unit["header"][k].num = user.seq - 1
                        /\ \A k \in 1..Len(toBack) : toBack[k].num = user.seq + k - 1
                        /\ \A k \in 1..Len(toServer) : toServer[k].num = account.seq + k - 1
                        /\ account.open => user.seq = account.seq + Len(toServer)
      BY <2>1, <2>2, <2>4 DEF NumberInv
    <3>1. toBack = <<>> /\ unit["header"] = <<>> /\ ~crossed /\ ~strayed
      BY <2>1
    <3>2. account.open => user.seq = account.seq + Len(toServer)
      BY <1>b, <1>i, <2>3, <3>1, Contents DEF BalanceInv, InSend
    <3>. QED BY <1>b, <1>i, <3>1, <3>2 DEF NumberInv
  <2>8. RefusedIfCrossed'
    BY <1>b, <2>1 DEF RefusedIfCrossed
  <2>. QED BY <2>5, <2>6, <2>7, <2>8
<1>2. CASE OutCount
  <2>1. /\ UNCHANGED <<unit, account, toServer, toBack, crossed, refused>>
        /\ strayed' = (strayed \/ user.seq # sender.msg.num)
        /\ sender' = [sender EXCEPT !.pc = "send"] /\ sender.pc = "count"
    BY <1>2 DEF OutCount, fixServerVars, wires
  <2>2. PICK seq \in {user.seq, sender.msg.num} : user' = [user EXCEPT !.seq = seq + 1]
    BY <1>2 DEF OutCount
  <2>3. sender'.pc = "send" /\ sender'.msg = sender.msg
    BY <1>0, <2>1 DEF QueueTypes
  <2>4. user'.login = user.login /\ (~strayed' => user'.seq = user.seq + 1)
    BY <1>0, <2>1, <2>2 DEF StateTypes
  <2>5. BalanceInv'
    <3>1. InSend' = 1 /\ InSend = 0
      BY <2>1, <2>3 DEF InSend
    <3> SUFFICES ASSUME account.open, ~strayed'
                 PROVE  user'.seq + Len(toBack) = account.seq + Len(toServer) + 1
      BY <2>1, <3>1 DEF BalanceInv
    <3>2. ~strayed /\ user'.seq = user.seq + 1
      BY <1>b, <2>1, <2>4
    <3>3. user.seq + Len(toBack) = account.seq + Len(toServer) + InSend
      BY <3>2 DEF BalanceInv
    <3>. QED BY <1>i, <3>1, <3>2, <3>3
  <2>6. TurnInv'
    BY <2>1 DEF TurnInv, ServerSent, BackSends
  <2>7. NumberInv'
    <3> SUFFICES ASSUME ~crossed', ~strayed'
                 PROVE  /\ Len(unit["header"]) <= 1
                        /\ \A k \in 1..Len(unit["header"]) : unit["header"][k].num = user'.seq - 1
                        /\ \A k \in 1..Len(toBack) : toBack[k].num = user'.seq + k - 1
                        /\ \A k \in 1..Len(toServer) : toServer[k].num = account.seq + k - 1
                        /\ account.open => sender.msg.num = account.seq + Len(toServer)
      BY <2>1, <2>3 DEF NumberInv
    <3>1. ~crossed /\ ~strayed
      BY <2>1
    <3>2. toBack = <<>> /\ unit["header"] = <<>>
      BY <2>1, <3>1 DEF TurnInv, BackSends, ServerSent
    <3>. QED BY <1>b, <1>i, <2>1, <3>1, <3>2 DEF NumberInv
  <2>8. RefusedIfCrossed'
    BY <1>b, <2>1 DEF RefusedIfCrossed
  <2>. QED BY <2>5, <2>6, <2>7, <2>8
<1>3. CASE OutSend
  <2>1. UNCHANGED <<user, unit, account, toBack, crossed, strayed, refused>>
    BY <1>3 DEF OutSend, fixServerVars, historyVars
  <2>2. /\ sender.pc = "send" /\ sender.msg \in BackMsg /\ sender'.pc = "idle"
        /\ \/ /\ account.open /\ toServer' = Append(toServer, sender.msg)
              /\ Len(toServer') = Len(toServer) + 1
           \/ ~account.open /\ toServer' = toServer
    BY <1>0, <1>3, SendMoves, SenderIs
  <2>3. BalanceInv'
    <3> SUFFICES ASSUME account.open, ~strayed
                 PROVE  user.seq + Len(toBack) = account.seq + Len(toServer') + 0
      <4>1. InSend' = 0
        BY <2>2 DEF InSend
      <4>. QED BY <2>1, <2>2, <4>1 DEF BalanceInv
    <3>1. user.seq + Len(toBack) = account.seq + Len(toServer) + InSend
      BY DEF BalanceInv
    <3>2. InSend = 1
      BY <2>2 DEF InSend
    <3>3. Len(toServer') = Len(toServer) + 1
      BY <2>2
    <3>. QED BY <1>i, <3>1, <3>2, <3>3
  <2>4. TurnInv'
    BY <2>1, <2>2 DEF TurnInv, ServerSent, BackSends
  <2>5. NumberInv'
    <3> SUFFICES ASSUME ~crossed, ~strayed
                 PROVE  \A k \in 1..Len(toServer') : toServer'[k].num = account.seq + k - 1
      BY <2>1, <2>2 DEF NumberInv
    <3>1. /\ \A k \in 1..Len(toServer) : toServer[k].num = account.seq + k - 1
          /\ account.open => sender.msg.num = account.seq + Len(toServer)
      BY <2>2 DEF NumberInv
    <3>2. CASE account.open
      <4>1. toServer \in Seq(BackMsg) /\ toServer' = Append(toServer, sender.msg)
        BY <1>0, <2>2, <3>2 DEF QueueTypes
      <4>2. /\ \A k \in 1..Len(toServer) : toServer'[k] = toServer[k]
            /\ toServer'[Len(toServer) + 1] = sender.msg /\ Len(toServer') = Len(toServer) + 1
        BY <2>2, <4>1, AppendProperties
      <4> SUFFICES ASSUME NEW k \in 1..(Len(toServer) + 1)
                   PROVE  toServer'[k].num = account.seq + k - 1
        BY <4>2
      <4>3. CASE k \in 1..Len(toServer)
        BY <3>1, <4>2, <4>3
      <4>4. CASE k = Len(toServer) + 1
        BY <1>b, <1>i, <3>1, <3>2, <4>2, <4>4
      <4>. QED BY <1>b, <1>i, <4>3, <4>4
    <3>3. CASE ~account.open
      BY <2>2, <3>1, <3>3
    <3>. QED BY <3>2, <3>3
  <2>6. RefusedIfCrossed'
    BY <1>b, <2>1 DEF RefusedIfCrossed
  <2>. QED BY <2>3, <2>4, <2>5, <2>6
<1>. QED BY <1>1, <1>2, <1>3

\* The steps of TcpInput and HeaderValidation keep the account of the numbers.
LEMMA CountIn ==
  ASSUME LinkTypes, user.login, CountInv, Receive \/ ValidateHeader
  PROVE  CountInv'
<1>0. QueueTypes /\ StateTypes
  BY DEF LinkTypes
<1>b. crossed \in BOOLEAN /\ strayed \in BOOLEAN /\ refused \in BOOLEAN
  BY <1>0 DEF StateTypes
<1>i. /\ user.seq \in Int /\ account.seq \in Int /\ InSend \in Int
      /\ Len(toBack) \in Nat /\ Len(toServer) \in Nat /\ Len(unit["header"]) \in Nat
      /\ unit["header"] \in Seq(ServerMsg)
      /\ toBack = <<>> <=> Len(toBack) = 0
      /\ unit["header"] = <<>> <=> Len(unit["header"]) = 0
  <2>1. /\ toBack \in Seq(ServerMsg) /\ toServer \in Seq(BackMsg) /\ unit["header"] \in Seq(ServerMsg)
        /\ user.seq \in Int /\ account.seq \in Int
    BY <1>0 DEF QueueTypes, StateTypes, Units
  <2>2. InSend \in Int
    BY DEF InSend
  <2>. QED BY <2>1, <2>2, Contents
<1> USE DEF CountInv
<1>1. CASE Receive
  <2>1. /\ UNCHANGED <<account, toServer, sender, refused>> /\ toBack # <<>> /\ toBack' = <<>>
        /\ user' = [user EXCEPT !.seq = @ + 1]
        /\ crossed' = (crossed \/ unit["header"] # <<>>)
    BY <1>1 DEF Receive, fixServerVars, Counted
  <2>2. user'.login /\ user'.seq = user.seq + 1 /\ Len(toBack') = 0
    BY <1>0, <2>1, Contents DEF StateTypes
  <2>3. /\ Len(toBack) = 1 => /\ toBack[1] \in ServerMsg /\ strayed' = strayed
                              /\ unit'["header"] = Append(unit["header"], toBack[1])
        /\ Len(toBack) # 1 => strayed' = TRUE
    BY <1>0, <1>1, ReceiveMoves
  <2>a. ~strayed' => ~strayed /\ Len(toBack) = 1
    <3> SUFFICES ASSUME ~strayed' PROVE ~strayed /\ Len(toBack) = 1
      OBVIOUS
    <3>1. Len(toBack) = 1
      BY <2>3
    <3>. QED BY <2>3, <3>1
  <2>c. ~crossed' => ~crossed /\ unit["header"] = <<>>
    BY <1>b, <2>1
  <2>4. BalanceInv'
    <3> SUFFICES ASSUME account.open, ~strayed'
                 PROVE  user.seq + 1 + 0 = account.seq + Len(toServer) + InSend
      <4>1. InSend' = InSend
        BY <2>1 DEF InSend
      <4>. QED BY <2>1, <2>2, <4>1 DEF BalanceInv
    <3>1. ~strayed /\ Len(toBack) = 1
      BY <2>a
    <3>2. user.seq + Len(toBack) = account.seq + Len(toServer) + InSend
      BY <3>1 DEF BalanceInv
    <3>. QED BY <1>i, <3>1, <3>2
  <2>5. TurnInv'
    BY <2>1 DEF TurnInv, BackSends, ServerSent
  <2>6. NumberInv'
    <3> SUFFICES ASSUME ~crossed', ~strayed'
                 PROVE  /\ Len(unit'["header"]) <= 1
                        /\ \A k \in 1..Len(unit'["header"]) : unit'["header"][k].num = user'.seq - 1
      <4>1. ~crossed' /\ ~strayed' => ~crossed /\ ~strayed
        BY <2>a, <2>c
      <4>. QED BY <1>b, <2>1, <2>2, <4>1 DEF NumberInv
    <3>1. ~crossed /\ ~strayed /\ unit["header"] = <<>> /\ Len(toBack) = 1
      BY <2>a, <2>c
    <3>2. toBack[1].num = user.seq
      BY <1>b, <1>i, <3>1 DEF NumberInv
    <3>3. unit'["header"] = <<toBack[1]>>
      BY <2>3, <3>1, Alone
    <3>4. Len(unit'["header"]) = 1 /\ unit'["header"][1] = toBack[1]
      BY <2>3, <3>1, <3>3, Alone
    <3>. QED BY <1>b, <1>i, <2>2, <3>2, <3>4
  <2>7. RefusedIfCrossed'
    BY <1>b, <2>1, <2>3 DEF RefusedIfCrossed
  <2>. QED BY <2>4, <2>5, <2>6, <2>7
<1>2. CASE ValidateHeader
  <2>1. UNCHANGED <<user, account, toServer, toBack, sender, crossed, strayed>> /\ unit["header"] # <<>>
    BY <1>2 DEF ValidateHeader, fixServerVars, wires
  <2>2. /\ Head(unit["header"]) = unit["header"][1]
        /\ Len(unit'["header"]) = Len(unit["header"]) - 1
        /\ ~RefusedByNumber(Head(unit["header"])) => refused' = refused
    BY <1>0, <1>2, ValidateMoves
  <2>3. BalanceInv' /\ TurnInv'
    BY <2>1 DEF BalanceInv, InSend, TurnInv, BackSends, ServerSent
  <2>4. NumberInv'
    <3> SUFFICES ASSUME ~crossed, ~strayed
                 PROVE  Len(unit'["header"]) = 0
      BY <1>b, <2>1 DEF NumberInv
    <3>1. Len(unit["header"]) <= 1
      BY DEF NumberInv
    <3>2. Len(unit["header"]) # 0
      BY <1>i, <2>1
    <3>3. \A n \in Nat : n <= 1 /\ n # 0 => n = 1
      OBVIOUS
    <3>4. Len(unit["header"]) = 1
      BY <1>i, <3>1, <3>2, <3>3, Zenon
    <3>. QED BY <2>2, <3>4
  <2>5. RefusedIfCrossed'
    <3> SUFFICES ASSUME ~crossed, ~strayed PROVE refused' = refused
      BY <1>b, <2>1 DEF RefusedIfCrossed
    <3>1. Len(unit["header"]) >= 1
      BY <1>b, <1>i, <2>1
    <3>2. unit["header"][1].num = user.seq - 1
      BY <1>b, <1>i, <3>1 DEF NumberInv
    <3>. QED BY <2>2, <3>2 DEF RefusedByNumber
  <2>. QED BY <2>3, <2>4, <2>5
<1>. QED BY <1>1, <1>2

\* The steps of the server keep the account of the numbers.
LEMMA CountServer ==
  ASSUME LinkTypes, user.login, LoggedIn, CountInv, ServerReads \/ ServerSends
  PROVE  CountInv'
<1>0. QueueTypes /\ StateTypes
  BY DEF LinkTypes
<1>b. crossed \in BOOLEAN /\ strayed \in BOOLEAN /\ refused \in BOOLEAN
  BY <1>0 DEF StateTypes
<1>i. /\ user.seq \in Int /\ account.seq \in Int /\ InSend \in Int
      /\ Len(toBack) \in Nat /\ Len(toServer) \in Nat
      /\ toBack \in Seq(ServerMsg)
      /\ toServer = <<>> <=> Len(toServer) = 0
  <2>1. /\ toBack \in Seq(ServerMsg) /\ toServer \in Seq(BackMsg)
        /\ user.seq \in Int /\ account.seq \in Int
    BY <1>0 DEF QueueTypes, StateTypes, Units
  <2>2. InSend \in Int
    BY DEF InSend
  <2>. QED BY <2>1, <2>2, Contents
<1> USE DEF CountInv
<1>1. CASE ServerReads
  <2>1. /\ UNCHANGED <<user, unit, sender, toBack, crossed>> /\ toServer' = <<>>
        /\ strayed' = (strayed \/ Len(toServer) > 1)
        /\ refused' = (refused \/ (Len(toServer) = 1 /\ ServerRefuses(Moved, toServer[1])))
        /\ account.open
    BY <1>1 DEF ServerReads, backVars, Moved
  <2>2. Reading(toServer[1], Moved, Refusing) /\ toServer # <<>>
    BY <1>1, ReadMoves
  <2>3. /\ Moved \in [login : BOOLEAN, seq : Int, test : BOOLEAN, open : BOOLEAN]
        /\ Moved.login /\ Moved.open /\ Moved.seq = account.seq + 1
    BY <1>0, <2>1 DEF Moved, StateTypes, LoggedIn
  <2>4. Refusing \/ toServer[1].kind # "Logon"
    BY <2>3 DEF Refusing
  <2>5. account'.seq = account.seq + 1 /\ account'.open
    <3> HIDE DEF Moved, Refusing
    <3>1. account' \in {Moved, [Moved EXCEPT !.test = FALSE]}
      BY <2>2, <2>4 DEF Reading
    <3>. QED BY <2>3, <3>1
  <2>6. Len(toServer') = 0 /\ Len(toServer) >= 1
    BY <1>b, <1>i, <2>1, <2>2, Contents
  <2>a. ~strayed' => ~strayed /\ Len(toServer) = 1
    <3> SUFFICES ASSUME ~strayed' PROVE ~strayed /\ Len(toServer) = 1
      OBVIOUS
    <3>1. ~strayed /\ ~(Len(toServer) > 1)
      BY <2>1
    <3>. QED BY <1>i, <2>6, <3>1
  <2>7. BalanceInv'
    <3> SUFFICES ASSUME ~strayed'
                 PROVE  user.seq + Len(toBack)
                          = account.seq + 1 + 0 + InSend
      <4>1. InSend' = InSend
        BY <2>1 DEF InSend
      <4>. QED BY <2>1, <2>5, <2>6, <4>1 DEF BalanceInv
    <3>1. ~strayed /\ Len(toServer) = 1
      BY <2>a
    <3>2. user.seq + Len(toBack) = account.seq + Len(toServer) + InSend
      BY <2>1, <3>1 DEF BalanceInv
    <3>. QED BY <1>i, <3>1, <3>2
  <2>8. TurnInv'
    BY <2>1 DEF TurnInv, BackSends, ServerSent
  <2>9. NumberInv'
    <3> SUFFICES ASSUME ~crossed, ~strayed', sender.pc # "idle"
                 PROVE  sender.msg.num = account.seq + 1
      BY <1>b, <1>i, <2>1, <2>5, <2>6 DEF NumberInv
    <3>1. sender.msg.num = account.seq + Len(toServer)
      BY <2>1, <2>a DEF NumberInv
    <3>. QED BY <2>a, <3>1
  <2>10. RefusedIfCrossed'
    <3> SUFFICES ASSUME ~crossed, ~strayed', Len(toServer) = 1 PROVE ~ServerRefuses(Moved, toServer[1])
      BY <1>b, <2>1 DEF RefusedIfCrossed
    <3>1. toServer[1].num = account.seq
      BY <1>i, <2>a DEF NumberInv
    <3>. QED BY <1>b, <1>i, <2>3, <3>1 DEF ServerRefuses
  <2>. QED BY <2>7, <2>8, <2>9, <2>10
<1>2. CASE ServerSends
  <2>1. /\ UNCHANGED <<user, unit, sender, toServer, strayed, refused>> /\ account.open
        /\ crossed' = (crossed \/ toServer # <<>> \/ sender.pc # "idle")
    BY <1>2 DEF ServerSends, backVars
  <2> DEFINE m == Numbered(Head(answers), account.seq)
  <2>2. /\ Head(answers) \in ServerMsg /\ toBack' = Append(toBack, m)
        /\ m \in ServerMsg
        /\ Len(toBack') = Len(toBack) + 1 /\ account' = [account EXCEPT !.seq = account.seq + 1]
    BY <1>2, AnswerMoves DEF LoggedIn
  <2>3. m.num = account.seq
    BY <2>2, MsgIs
  <2> HIDE DEF m
  <2>4. account'.seq = account.seq + 1 /\ account'.open
    BY <1>0, <2>1, <2>2 DEF StateTypes
  <2>5. BalanceInv'
    <3> SUFFICES ASSUME ~strayed
                 PROVE  user.seq + (Len(toBack) + 1)
                          = account.seq + 1 + Len(toServer) + InSend
      <4>1. InSend' = InSend
        BY <2>1 DEF InSend
      <4>. QED BY <2>1, <2>2, <2>4, <4>1 DEF BalanceInv
    <3>1. user.seq + Len(toBack) = account.seq + Len(toServer) + InSend
      BY <2>1 DEF BalanceInv
    <3>2. /\ user.seq \in Int /\ account.seq \in Int /\ InSend \in Int
          /\ Len(toBack) \in Int /\ Len(toServer) \in Int
      BY <1>i
    <3>. QED BY <3>1, <3>2
  <2>6. TurnInv'
    BY <2>1 DEF TurnInv, BackSends
  <2>7. NumberInv'
    <3> SUFFICES ASSUME ~crossed', ~strayed
                 PROVE  /\ \A k \in 1..Len(toServer) : toServer[k].num = account'.seq + k - 1
                        /\ \A k \in 1..Len(toBack') : toBack'[k].num = user.seq + k - 1
      BY <2>1 DEF NumberInv
    <3>1. toServer = <<>> /\ sender.pc = "idle" /\ ~crossed
      BY <2>1
    <3>2. user.seq + Len(toBack) = account.seq
      BY <1>b, <1>i, <2>1, <3>1, Contents DEF BalanceInv, InSend
    <3>3. /\ \A k \in 1..Len(toBack) : toBack'[k] = toBack[k]
          /\ toBack'[Len(toBack) + 1] = m
      BY <1>b, <1>i, <2>2, AppendProperties
    <3>4. \A k \in 1..Len(toBack) : toBack[k].num = user.seq + k - 1
      BY <3>1 DEF NumberInv
    <3>5. ASSUME NEW k \in 1..(Len(toBack) + 1) PROVE toBack'[k].num = user.seq + k - 1
      <4>1. CASE k \in 1..Len(toBack)
        BY <3>3, <3>4, <4>1
      <4>2. CASE k = Len(toBack) + 1
        BY <1>b, <1>i, <2>3, <3>2, <3>3, <4>2
      <4>. QED BY <1>b, <1>i, <4>1, <4>2
    <3>. QED BY <1>b, <1>i, <2>2, <3>1, <3>5
  <2>8. RefusedIfCrossed'
    BY <1>b, <2>1 DEF RefusedIfCrossed
  <2>. QED BY <2>5, <2>6, <2>7, <2>8
<1>. QED BY <1>1, <1>2

\* Every step keeps the account of the numbers.
LEMMA CountStep ==
  ASSUME LinkTypes, LinkTypes', LogonInv, LogonInv', CountInv, [Next]_vars
  PROVE  CountInv'
<1>1. CASE user.login /\ Next
  <2>1. LoggedIn
    BY <1>1 DEF LogonInv
  <2>2. CASE OutNumber \/ OutCount \/ OutSend
    BY <1>1, <2>2, CountOut
  <2>3. CASE Receive \/ ValidateHeader
    BY <1>1, <2>3, CountIn
  <2>4. CASE ServerReads \/ ServerSends
    BY <1>1, <2>1, <2>4, CountServer
  <2>. QED BY <1>1, <2>1, <2>2, <2>3, <2>4, KeptSteps, KeptCounts
<1>2. CASE ~user.login /\ Next
  <2>1. ~user'.login \/ Fresh'
    BY <1>2, LogonStep
  <2>2. (LinkTypes /\ LogonInv /\ (~user.login \/ Fresh) => CountInv)'
    BY CountFirst, PTL
  <2>. QED BY <2>1, <2>2
<1>3. CASE UNCHANGED vars
  BY <1>3, KeptCounts DEF CountsKept, vars, backVars, fixServerVars, wires, historyVars
<1>. QED BY <1>1, <1>2, <1>3

\* Types, the login and the counters hold together.
Counting == LinkTypes /\ LogonInv /\ CountInv

\* The account starts right, and every step keeps it.
LEMMA CountingAlways == (Init => Counting) /\ (Counting /\ [Next]_vars => Counting')
<1>1. Init => Counting
  <2> SUFFICES ASSUME Init PROVE Counting
    OBVIOUS
  <2>1. ~user.login
    BY DEF Init
  <2>. QED BY <2>1, TypesInit, LogonInit, CountFirst DEF Counting
<1>2. Counting /\ [Next]_vars => Counting'
  BY TypesStep, LogonStep, CountStep DEF Counting
<1>. QED BY <1>1, <1>2

\* One counter for both directions: whenever nothing is under way, the two ends
\* have the same number, whatever crossed and whatever was refused, as long as no
\* two messages were read as one and no count was lost between two threads.
THEOREM CountersInStep == Spec => []CountersAgree
<1>1. Counting => CountersAgree
  <2> SUFFICES ASSUME Counting, account.open, Quiet, user.login, ~strayed
               PROVE  user.seq = account.seq
    BY DEF CountersAgree
  <2>1. Len(toBack) = 0 /\ Len(toServer) = 0 /\ sender.pc = "idle"
    BY Contents DEF Quiet
  <2>2. user.seq \in Int /\ account.seq \in Int
    BY DEF Counting, LinkTypes, StateTypes
  <2>. QED BY <2>1, <2>2 DEF Counting, CountInv, BalanceInv, InSend
<1>. QED BY <1>1, CountingAlways, PTL DEF Spec

\* A number is refused only once messages have crossed: as long as the two ends
\* take turns, each message carries the number that the other end expects.
THEOREM RefusedNeedsACrossing == Spec => []RefusedIfCrossed
<1>1. Counting => RefusedIfCrossed
  BY DEF Counting, CountInv
<1>. QED BY <1>1, CountingAlways, PTL DEF Spec

-----------------------------------------------------------------------------
(* The TestRequest *)

\* A client that is asked for a heartbeat is not at rest: the request, or the
\* echo of it, is somewhere, unless a message was refused or lost.
Holds(q, kind) == \E m \in ToSet(q) : m.kind = kind
Underway ==
  \/ Holds(answers, "TestRequest") \/ Holds(toBack, "TestRequest")
  \/ Holds(unit["header"], "TestRequest") \/ Holds(unit["router"], "TestRequest")
  \/ Holds(unit["heartbeat"], "TestRequest")
  \/ Holds(output, "Echo") \/ (sender.pc # "idle" /\ sender.msg.kind = "Echo")
  \/ Holds(toServer, "Echo")
TestInv == account.test /\ account.open /\ Alive /\ ~refused /\ ~strayed => Underway
RemovalInv == TestInv /\ RemovedIfRefused

\* A step that keeps what is under way, or excuses its loss.
Excused == ~account.open \/ ~Alive \/ refused \/ strayed \/ ~account.test
StepsOn == /\ Underway => Underway' \/ Excused'
           /\ account'.test => account.test
           /\ account'.open <=> account.open
           /\ Alive' => Alive
           /\ core' = "run" => core = "run"
           /\ refused => refused'
           /\ strayed => strayed'

\* Such a step keeps the account of the request.
LEMMA StepsOnKeeps == RemovalInv /\ StepsOn => RemovalInv'
<1> SUFFICES ASSUME RemovalInv, StepsOn PROVE RemovalInv'
  OBVIOUS
<1>1. TestInv'
  BY DEF RemovalInv, StepsOn, TestInv, Excused
<1>2. RemovedIfRefused'
  BY DEF RemovalInv, StepsOn, RemovedIfRefused
<1>. QED BY <1>1, <1>2 DEF RemovalInv

\* The steps of the back carry the request to HeartBeat, and the echo away.
LEMMA TestBack ==
  ASSUME LinkTypes,
         Build \/ OutNumber \/ OutCount \/ OutSend \/ Beat \/ Receive \/ ValidateHeader \/ Route
           \/ HandleLogon \/ HandleHeartBeat \/ Execute \/ CoreReturns
  PROVE  StepsOn
<1>0. QueueTypes /\ HandlerTypes /\ StateTypes
  BY DEF LinkTypes
<1>u. Units = {"header", "router", "auth", "heartbeat", "execution"}
  BY DEF Units
<1>f. /\ UNCHANGED account
      /\ Build \/ OutNumber \/ OutCount \/ Beat \/ Receive \/ ValidateHeader \/ Route
           \/ HandleLogon \/ HandleHeartBeat => core' = core
  BY DEF Build, OutNumber, OutCount, OutSend, Beat, Receive, ValidateHeader, Route,
         HandleLogon, HandleHeartBeat, Execute, CoreReturns, fixServerVars
<1>1. CASE Build
  <2>1. UNCHANGED <<sender, unit, answers, wires, historyVars>>
    BY <1>1 DEF Build, fixServerVars
  <2>2. ToSet(output) \subseteq ToSet(output')
    BY <1>0, <1>1, BuildMoves
  <2>3. Underway => Underway'
    BY <2>1, <2>2 DEF Underway, Holds, wires
  <2>. QED BY <1>1, <1>f, <2>1, <2>3 DEF StepsOn, Alive, historyVars
<1>2. CASE OutNumber
  <2>1. UNCHANGED <<unit, answers, wires, strayed, refused>>
    BY <1>2 DEF OutNumber, fixServerVars
  <2> DEFINE m == Head(output)
  <2>2. /\ m \in BackMsg /\ ToSet(output) = {m} \cup ToSet(output')
        /\ sender' = [pc |-> "count", msg |-> Numbered(m, NextNumber)] /\ sender.pc = "idle"
    BY <1>2, NumberMoves
  <2>3. sender'.pc = "count" /\ sender'.msg.kind = m.kind
    BY <2>2, MsgIs
  <2> HIDE DEF m
  <2>4. Holds(output, "Echo") => Holds(output, "Echo")' \/ sender'.msg.kind = "Echo"
    BY <2>2, <2>3 DEF Holds
  <2>5. Underway => Underway'
    <3>1. /\ Holds(answers, "TestRequest") => Holds(answers, "TestRequest")'
          /\ Holds(toBack, "TestRequest") => Holds(toBack, "TestRequest")'
          /\ Holds(unit["header"], "TestRequest") => Holds(unit["header"], "TestRequest")'
          /\ Holds(unit["router"], "TestRequest") => Holds(unit["router"], "TestRequest")'
          /\ Holds(unit["heartbeat"], "TestRequest") => Holds(unit["heartbeat"], "TestRequest")'
          /\ Holds(toServer, "Echo") => Holds(toServer, "Echo")'
      BY <2>1 DEF Holds, wires
    <3>2. sender'.pc # "idle" /\ sender.pc = "idle"
      BY <2>2, <2>3
    <3>. QED BY <2>4, <3>1, <3>2 DEF Underway
  <2>. QED BY <1>2, <1>f, <2>1, <2>5 DEF StepsOn, Alive
<1>3. CASE OutCount
  <2>1. UNCHANGED <<output, unit, answers, wires, refused>>
        /\ strayed' = (strayed \/ user.seq # sender.msg.num)
        /\ sender' = [sender EXCEPT !.pc = "send"]
    BY <1>3 DEF OutCount, fixServerVars
  <2>2. sender'.pc = "send" /\ sender'.msg = sender.msg
    BY <1>0, <2>1 DEF QueueTypes
  <2>3. Underway => Underway'
    BY <2>1, <2>2 DEF Underway, wires
  <2>. QED BY <1>3, <1>f, <2>1, <2>3 DEF StepsOn, Alive
<1>4. CASE OutSend
  <2>1. UNCHANGED <<output, unit, answers, toBack, historyVars>>
    BY <1>4 DEF OutSend, fixServerVars
  <2>2. /\ sender.pc = "send" /\ sender' = Idle /\ core' \in {core, "gone"}
        /\ \/ account.open /\ ToSet(toServer') = ToSet(toServer) \cup {sender.msg}
           \/ ~account.open
    BY <1>0, <1>4, SendMoves
  <2>3. Underway => Underway' \/ ~account'.open
    BY <1>f, <2>1, <2>2 DEF Underway, Holds
  <2>. QED BY <1>f, <2>1, <2>2, <2>3 DEF StepsOn, Alive, Excused, historyVars
<1>5. CASE Beat
  <2>1. UNCHANGED <<sender, unit, answers, wires, historyVars>>
    BY <1>5 DEF Beat, fixServerVars
  <2>2. ToSet(output) \subseteq ToSet(output')
    BY <1>0, <1>5, BeatMoves
  <2>3. Underway => Underway'
    BY <2>1, <2>2 DEF Underway, Holds, wires
  <2>. QED BY <1>5, <1>f, <2>1, <2>3 DEF StepsOn, Alive, historyVars
<1>6. CASE Receive
  <2>1. UNCHANGED <<sender, answers, toServer, refused>>
    BY <1>6 DEF Receive, fixServerVars
  <2>2. /\ \A u \in Units \ {"header"} : unit'[u] = unit[u]
        /\ Len(toBack) = 1 =>
             /\ ToSet(unit'["header"]) = ToSet(unit["header"]) \cup ToSet(toBack)
             /\ output' = output /\ strayed' = strayed
        /\ Len(toBack) # 1 => strayed' = TRUE
    BY <1>0, <1>6, ReceiveMoves
  <2>3. unit'["router"] = unit["router"] /\ unit'["heartbeat"] = unit["heartbeat"]
    BY <2>2, <1>u
  <2>4. CASE Len(toBack) = 1
    <3>1. Underway => Underway'
      BY <2>1, <2>2, <2>3, <2>4 DEF Underway, Holds
    <3>. QED BY <1>6, <1>f, <2>1, <2>2, <2>4, <3>1 DEF StepsOn, Alive
  <2>5. CASE Len(toBack) # 1
    <3>1. Excused' /\ strayed'
      BY <2>2, <2>5 DEF Excused
    <3>. QED BY <1>6, <1>f, <2>1, <3>1 DEF StepsOn, Alive
  <2>. QED BY <2>4, <2>5
<1>7. CASE ValidateHeader
  <2>1. UNCHANGED <<sender, answers, wires, strayed>>
    BY <1>7 DEF ValidateHeader, fixServerVars
  <2> DEFINE m == Head(unit["header"])
  <2>2. /\ ToSet(unit["header"]) = {m} \cup ToSet(unit'["header"])
        /\ \A u \in Units \ {"header", "router"} : unit'[u] = unit[u]
        /\ RefusedByNumber(m) => refused' = TRUE
        /\ ~RefusedByNumber(m) => /\ ToSet(unit'["router"]) = ToSet(unit["router"]) \cup {m}
                                  /\ output' = output /\ refused' = refused
    BY <1>0, <1>7, ValidateMoves
  <2>3. unit'["heartbeat"] = unit["heartbeat"]
    BY <2>2, <1>u
  <2> HIDE DEF m
  <2>4. CASE RefusedByNumber(m)
    <3>1. Excused' /\ refused'
      BY <2>2, <2>4 DEF Excused
    <3>. QED BY <1>7, <1>f, <2>1, <3>1 DEF StepsOn, Alive
  <2>5. CASE ~RefusedByNumber(m)
    <3>1. Underway => Underway'
      BY <2>1, <2>2, <2>3, <2>5 DEF Underway, Holds, wires
    <3>. QED BY <1>7, <1>f, <2>1, <2>2, <2>5, <3>1 DEF StepsOn, Alive
  <2>. QED BY <2>4, <2>5
<1>8. CASE Route
  <2>1. UNCHANGED <<sender, output, answers, wires, historyVars>>
    BY <1>8 DEF Route, fixServerVars
  <2> DEFINE m == Head(unit["router"])
  <2>2. /\ ToSet(unit["router"]) = {m} \cup ToSet(unit'["router"])
        /\ unit'["header"] = unit["header"]
        /\ IF m.kind # "Reject" /\ Handler[m.kind] = "heartbeat"
           THEN ToSet(unit'["heartbeat"]) = ToSet(unit["heartbeat"]) \cup {m}
           ELSE unit'["heartbeat"] = unit["heartbeat"]
    BY <1>0, <1>8, RouteMoves DEF Handlers
  <2> HIDE DEF m
  <2>3. m.kind = "TestRequest" => ToSet(unit'["heartbeat"]) = ToSet(unit["heartbeat"]) \cup {m}
    BY <2>2, HandlerIs
  <2>4. ToSet(unit["heartbeat"]) \subseteq ToSet(unit'["heartbeat"])
    BY <2>2
  <2>5. Underway => Underway'
    BY <2>1, <2>2, <2>3, <2>4 DEF Underway, Holds, wires
  <2>. QED BY <1>8, <1>f, <2>1, <2>5 DEF StepsOn, Alive, historyVars
<1>9. CASE HandleLogon
  <2>1. UNCHANGED <<sender, output, answers, wires, historyVars>> /\ unit["auth"] # <<>> /\ Done("auth")
    BY <1>9 DEF HandleLogon, fixServerVars
  <2>2. \A v \in {"header", "router", "heartbeat"} : unit'[v] = unit[v]
    BY <1>0, <1>u, <2>1, DoneMoves
  <2>3. Underway => Underway'
    BY <2>1, <2>2 DEF Underway, wires
  <2>. QED BY <1>9, <1>f, <2>1, <2>3 DEF StepsOn, Alive, historyVars
<1>10. CASE HandleHeartBeat
  <2>1. /\ UNCHANGED <<sender, answers, wires, historyVars>>
        /\ unit["heartbeat"] # <<>> /\ Done("heartbeat")
    BY <1>10 DEF HandleHeartBeat, fixServerVars
  <2> DEFINE m == Head(unit["heartbeat"])
  <2>2. /\ \A v \in {"header", "router"} : unit'[v] = unit[v]
        /\ ToSet(unit["heartbeat"]) = {m} \cup ToSet(unit'["heartbeat"])
    BY <1>0, <1>u, <2>1, DoneMoves
  <2>3. ToSet(output') = ToSet(output) \cup (IF m.kind = "TestRequest" THEN {Echo} ELSE {})
    BY <1>0, <1>10, EchoMoves
  <2>4. Echo.kind = "Echo"
    BY DEF Echo, Msg
  <2> HIDE DEF m
  <2>5. Holds(unit["heartbeat"], "TestRequest") =>
          Holds(unit["heartbeat"], "TestRequest")' \/ Holds(output, "Echo")'
    BY <2>2, <2>3, <2>4 DEF Holds
  <2>6. Holds(output, "Echo") => Holds(output, "Echo")'
    BY <2>3 DEF Holds
  <2>7. Underway => Underway'
    <3>1. /\ Holds(answers, "TestRequest") => Holds(answers, "TestRequest")'
          /\ Holds(toBack, "TestRequest") => Holds(toBack, "TestRequest")'
          /\ Holds(unit["header"], "TestRequest") => Holds(unit["header"], "TestRequest")'
          /\ Holds(unit["router"], "TestRequest") => Holds(unit["router"], "TestRequest")'
          /\ Holds(toServer, "Echo") => Holds(toServer, "Echo")'
      BY <2>1, <2>2 DEF Holds, wires
    <3>. QED BY <2>1, <2>5, <2>6, <3>1 DEF Underway
  <2>. QED BY <1>10, <1>f, <2>1, <2>7 DEF StepsOn, Alive, historyVars
<1>11. CASE Execute
  <2>1. /\ UNCHANGED <<sender, output, answers, wires, historyVars>> /\ core = "run"
        /\ unit["execution"] # <<>> /\ Done("execution")
    BY <1>11 DEF Execute, fixServerVars
  <2>2. \A v \in {"header", "router", "heartbeat"} : unit'[v] = unit[v]
    BY <1>0, <1>u, <2>1, DoneMoves
  <2>3. Underway => Underway'
    BY <2>1, <2>2 DEF Underway, wires
  <2>. QED BY <1>f, <2>1, <2>3 DEF StepsOn, Alive, historyVars
<1>12. CASE CoreReturns
  <2>1. /\ UNCHANGED <<sender, output, unit, answers, wires, historyVars>>
        /\ core = "thrown" /\ core' = "gone"
    BY <1>12 DEF CoreReturns, fixServerVars
  <2>2. Underway => Underway'
    BY <2>1 DEF Underway, wires
  <2>. QED BY <1>f, <2>1, <2>2 DEF StepsOn, Alive, historyVars
<1>. QED BY <1>1, <1>2, <1>3, <1>4, <1>5, <1>6, <1>7, <1>8, <1>9, <1>10, <1>11, <1>12

\* The server sends the request, takes the echo for an answer, and removes only
\* a client that has neither in hand.
LEMMA TestServer ==
  ASSUME LinkTypes, RemovalInv,
         ServerReads \/ ServerSends \/ ServerLosesBack \/ ServerAsks \/ ServerRemoves
  PROVE  RemovalInv'
<1>0. QueueTypes /\ HandlerTypes /\ StateTypes
  BY DEF LinkTypes
<1>u. Units = {"header", "router", "auth", "heartbeat", "execution"}
  BY DEF Units
<1>1. CASE ServerReads
  <2>1. /\ UNCHANGED <<output, sender, unit, core, toBack>> /\ toServer' = <<>> /\ account.open
        /\ strayed' = (strayed \/ Len(toServer) > 1)
        /\ refused' = (refused \/ (Len(toServer) = 1 /\ ServerRefuses(Moved, toServer[1])))
    BY <1>1 DEF ServerReads, backVars, Moved
  <2> DEFINE m == toServer[1]
  <2>2. /\ Reading(m, Moved, Refusing) /\ Len(toServer) \in Nat /\ Len(toServer) >= 1
        /\ Len(toServer) = 1 => ToSet(toServer) = {m}
    BY <1>1, ReadMoves
  <2>3. /\ Moved \in [login : BOOLEAN, seq : Int, test : BOOLEAN, open : BOOLEAN]
        /\ Moved.test = account.test /\ Moved.open = account.open
    BY <1>0 DEF Moved, StateTypes
  <2>4. account'.open /\ (account'.test => account.test)
    <3> HIDE DEF Moved, Refusing, m
    <3>1. \E n : account' \in {Moved, [Moved EXCEPT !.test = FALSE],
                               [Moved EXCEPT !.login = TRUE, !.seq = n]}
      BY <2>2 DEF Reading
    <3>. QED BY <2>1, <2>3, <3>1
  <2>5. ToSet(answers) \subseteq ToSet(answers')
    <3> HIDE DEF Moved, Refusing, m
    <3>. QED BY <2>2 DEF Reading
  <2>6. Underway => Underway' \/ Excused'
    <3>1. CASE Len(toServer) > 1
      BY <2>1, <3>1 DEF Excused
    <3>2. CASE Len(toServer) = 1 /\ ServerRefuses(Moved, m)
      BY <2>1, <3>2 DEF Excused
    <3>3. CASE Len(toServer) = 1 /\ ~ServerRefuses(Moved, m) /\ m.kind # "Echo"
      <4>1. ~Holds(toServer, "Echo")
        BY <2>2, <3>3 DEF Holds
      <4>. QED BY <2>1, <2>5, <4>1 DEF Underway, Holds
    <3>4. CASE Len(toServer) = 1 /\ ~ServerRefuses(Moved, m) /\ m.kind = "Echo"
      <4>1. ~Refusing
        BY <3>4 DEF Refusing
      <4>2. account' = [Moved EXCEPT !.test = FALSE]
        BY <2>2, <3>4, <4>1 DEF Reading
      <4>3. ~account'.test
        BY <2>3, <4>2
      <4>. QED BY <4>3 DEF Excused
    <3>5. Len(toServer) = 1 \/ Len(toServer) > 1
      BY <2>2
    <3>. QED BY <3>1, <3>2, <3>3, <3>4, <3>5
  <2>. QED BY <2>1, <2>4, <2>6, StepsOnKeeps DEF StepsOn, Alive
<1>2. CASE ServerSends
  <2>1. UNCHANGED <<output, sender, unit, core, toServer, strayed, refused>>
    BY <1>2 DEF ServerSends, backVars
  <2>2. PICK num :
          /\ Head(answers) \in ServerMsg
          /\ ToSet(answers) = {Head(answers)} \cup ToSet(answers')
          /\ ToSet(toBack') = ToSet(toBack) \cup {Numbered(Head(answers), num)}
          /\ account' = [account EXCEPT !.seq = num + 1]
    BY <1>2, AnswerMoves
  <2>3. account'.open = account.open /\ account'.test = account.test
    BY <1>0, <2>2 DEF StateTypes
  <2>4. Numbered(Head(answers), num).kind = Head(answers).kind
    BY <2>2, MsgIs
  <2>5. Holds(answers, "TestRequest") =>
          Holds(answers, "TestRequest")' \/ Holds(toBack, "TestRequest")'
    BY <2>2, <2>4 DEF Holds
  <2>6. Holds(toBack, "TestRequest") => Holds(toBack, "TestRequest")'
    BY <2>2 DEF Holds
  <2>7. Underway => Underway'
    BY <2>1, <2>5, <2>6 DEF Underway
  <2>. QED BY <2>1, <2>3, <2>7, StepsOnKeeps DEF StepsOn, Alive
<1>3. CASE ServerLosesBack
  <2>1. UNCHANGED core /\ account' = [account EXCEPT !.open = FALSE] /\ core = "gone"
    BY <1>3 DEF ServerLosesBack, backVars, Alive
  <2>2. ~account'.open
    BY <1>0, <2>1 DEF StateTypes
  <2>. QED BY <2>1, <2>2 DEF RemovalInv, TestInv, RemovedIfRefused
<1>4. CASE ServerAsks
  <2>1. /\ UNCHANGED <<core, historyVars>> /\ account' = [account EXCEPT !.test = TRUE]
        /\ Reply("TestRequest", None) /\ account.open
    BY <1>4 DEF ServerAsks, backVars
  <2>2. /\ ToSet(answers') = ToSet(answers) \cup {Msg("TestRequest", None)}
        /\ Msg("TestRequest", None).kind = "TestRequest"
    BY <1>0, <2>1, MsgTypes, MsgIs, ReplyMoves
  <2>3. Underway'
    BY <2>2 DEF Underway, Holds
  <2>4. account'.open
    BY <1>0, <2>1 DEF StateTypes
  <2>. QED BY <2>3, <2>4 DEF RemovalInv, TestInv, RemovedIfRefused
<1>5. CASE ServerRemoves
  <2>1. /\ UNCHANGED <<core, historyVars>> /\ account' = [account EXCEPT !.open = FALSE]
        /\ account.open /\ account.test /\ Quiet
    BY <1>5 DEF ServerRemoves, backVars
  <2>2. ~account'.open
    BY <1>0, <2>1 DEF StateTypes
  <2>3. \A u \in Units : unit[u] = <<>>
    BY <1>0, <2>1 DEF Quiet, QueueTypes
  <2>4. ~Underway
    <3>1. /\ ToSet(answers) = {} /\ ToSet(toBack) = {} /\ ToSet(unit["header"]) = {}
          /\ ToSet(unit["router"]) = {} /\ ToSet(unit["heartbeat"]) = {}
          /\ ToSet(output) = {} /\ ToSet(toServer) = {} /\ sender.pc = "idle"
      BY <1>u, <2>1, <2>3, Contents DEF Quiet
    <3>. QED BY <3>1 DEF Underway, Holds
  <2>5. core = "run" => refused \/ strayed
    BY <2>1, <2>4 DEF RemovalInv, TestInv, Alive
  <2>. QED BY <2>1, <2>2, <2>5 DEF RemovalInv, TestInv, RemovedIfRefused, historyVars
<1>. QED BY <1>1, <1>2, <1>3, <1>4, <1>5

\* The request is accounted for at the start, and by every step.
LEMMA RemovalAlways ==
  /\ Init => RemovalInv
  /\ LinkTypes /\ RemovalInv /\ [Next]_vars => RemovalInv'
<1>1. Init => RemovalInv
  BY DEF Init, RemovalInv, TestInv, RemovedIfRefused
<1>2. ASSUME LinkTypes, RemovalInv, Next PROVE RemovalInv'
  <2>1. ASSUME GuiReads \/ \E o \in Orders : Submit(o) PROVE RemovalInv'
    <3>1. UNCHANGED <<account, answers, toBack, unit, output, sender, toServer, core, refused, strayed>>
      BY <2>1 DEF GuiReads, Submit, backVars, fixServerVars, wires, historyVars
    <3>. QED BY <1>2, <3>1, StepsOnKeeps DEF StepsOn, Underway, Alive
  <2>2. ASSUME NEW o \in Orders, ServerFills(o) PROVE RemovalInv'
    <3>1. UNCHANGED <<account, toBack, unit, output, sender, toServer, core, refused, strayed>>
          /\ Reply("Fill", o)
      BY <2>2 DEF ServerFills, backVars, wires, historyVars
    <3>2. ToSet(answers) \subseteq ToSet(answers')
      BY <1>2, <3>1, MsgTypes, ReplyMoves DEF LinkTypes
    <3>3. Underway => Underway'
      BY <3>1, <3>2 DEF Underway, Holds
    <3>. QED BY <1>2, <3>1, <3>3, StepsOnKeeps DEF StepsOn, Alive
  <2>. QED BY <1>2, <2>1, <2>2, TestBack, TestServer, StepsOnKeeps, NextIs
<1>3. ASSUME RemovalInv, UNCHANGED vars PROVE RemovalInv'
  <2>1. UNCHANGED <<account, answers, toBack, unit, output, sender, toServer, core, refused, strayed>>
    BY <1>3 DEF vars, backVars, fixServerVars, wires, historyVars
  <2>. QED BY <1>3, <2>1, StepsOnKeeps DEF StepsOn, Underway, Alive
<1>. QED BY <1>1, <1>2, <1>3

\* The server removes a running back only if a number was refused or a message
\* was lost: a back that reads what it is sent always answers a TestRequest.
THEOREM RemovedForAReason == Spec => []RemovedIfRefused
<1>1. Init => LinkTypes /\ RemovalInv
  BY TypesInit, RemovalAlways
<1>2. LinkTypes /\ RemovalInv /\ [Next]_vars => (LinkTypes /\ RemovalInv)'
  BY TypesStep, RemovalAlways
<1>3. RemovalInv => RemovedIfRefused
  BY DEF RemovalInv
<1>. QED BY <1>1, <1>2, <1>3, PTL DEF Spec

-----------------------------------------------------------------------------
(* The orders *)

IsOrder(m, o) == m.kind = "Order" /\ m.order = o
Has(q, o) == \E m \in ToSet(q) : IsOrder(m, o)
Once(q, o) == \A j, k \in 1..Len(q) : IsOrder(q[j], o) /\ IsOrder(q[k], o) => j = k
InHand(o) == sender.pc # "idle" /\ IsOrder(sender.msg, o)

\* An order is in one place at most on its way to the server, once; while it is
\* there, its market has not seen it and the GUI shows it as sent.
OneWay(o) ==
  /\ Once(builder, o) /\ Once(output, o)
  /\ Has(builder, o) => ~Has(output, o) /\ ~InHand(o) /\ ~Has(toServer, o)
  /\ Has(output, o) => ~InHand(o) /\ ~Has(toServer, o)
  /\ InHand(o) => ~Has(toServer, o)
  /\ Has(builder, o) \/ Has(output, o) \/ InHand(o) \/ Has(toServer, o) =>
       book[o] = "none" /\ gui.rows[o] = "sent"
  /\ gui.rows[o] = "none" => book[o] = "none"
OrderInv == \A o \in Orders : OneWay(o)

\* A report that an order is taken tells the truth, wherever it is.
Taken(o) == book[o] \in {"Ack", "Fill"}
Truthful(q) == \A m \in ToSet(q) : m.kind \in {"Ack", "Fill"} => Taken(m.order)
Shown == \A m \in ToSet(toGui.bytes) : m.kind = "ExecNew" => Taken(m.order)
PlacedInv ==
  /\ Truthful(answers) /\ Truthful(toBack) /\ Truthful(unit["header"])
  /\ Truthful(unit["router"]) /\ Truthful(unit["execution"])
  /\ Shown /\ ListedIsPlaced

\* A queue that has an order once has it once more with another message, and
\* once less without its head.
LEMMA OnceAppended ==
  ASSUME NEW S, NEW q \in Seq(S), NEW m \in S, NEW o
  PROVE  Once(q, o) /\ ~(IsOrder(m, o) /\ Has(q, o)) => Once(Append(q, m), o)
<1>1. /\ Append(q, m) \in Seq(S) /\ Len(Append(q, m)) = Len(q) + 1 /\ Len(q) \in Nat
      /\ \A k \in 1..Len(q) : Append(q, m)[k] = q[k]
      /\ Append(q, m)[Len(q) + 1] = m
  BY AppendProperties, LenProperties
<1>2. DOMAIN q = 1..Len(q)
  BY LenProperties
<1> SUFFICES ASSUME Once(q, o), ~(IsOrder(m, o) /\ Has(q, o)),
                    NEW j \in 1..(Len(q) + 1), NEW k \in 1..(Len(q) + 1),
                    IsOrder(Append(q, m)[j], o), IsOrder(Append(q, m)[k], o)
             PROVE  j = k
  BY <1>1 DEF Once
<1> DEFINE n == Len(q)
<1>3. \A i \in 1..n : IsOrder(q[i], o) => Has(q, o)
  BY <1>2 DEF Has, ToSet
<1> HIDE DEF n
<1>4. \A i \in 1..(n + 1) : i \in 1..n \/ i = n + 1
  BY <1>1 DEF n
<1>5. CASE j \in 1..n /\ k \in 1..n
  BY <1>1, <1>5 DEF Once, n
<1>6. CASE j = n + 1 /\ k = n + 1
  BY <1>6
<1>7. CASE j \in 1..n /\ k = n + 1
  <2>1. IsOrder(q[j], o) /\ IsOrder(m, o)
    BY <1>1, <1>7 DEF n
  <2>. QED BY <1>3, <1>7, <2>1
<1>8. CASE j = n + 1 /\ k \in 1..n
  <2>1. IsOrder(q[k], o) /\ IsOrder(m, o)
    BY <1>1, <1>8 DEF n
  <2>. QED BY <1>3, <1>8, <2>1
<1>. QED BY <1>4, <1>5, <1>6, <1>7, <1>8 DEF n

\* And after its head is taken, which is then nowhere else in it.
LEMMA OnceTaken ==
  ASSUME NEW S, NEW q \in Seq(S), q # <<>>, NEW o, Once(q, o)
  PROVE  Once(Tail(q), o) /\ ~(IsOrder(Head(q), o) /\ Has(Tail(q), o))
<1>1. /\ Head(q) \in S /\ Tail(q) \in Seq(S) /\ Len(Tail(q)) = Len(q) - 1
      /\ \A k \in 1..Len(Tail(q)) : Tail(q)[k] = q[k + 1]
  BY HeadTailProperties
<1>2. /\ Len(q) \in Nat /\ Len(q) >= 1 /\ Head(q) = q[1]
      /\ DOMAIN Tail(q) = 1..Len(Tail(q))
  BY <1>1, HeadTaken, LenProperties
<1>3. \A k \in 1..Len(Tail(q)) : k + 1 \in 1..Len(q) /\ k + 1 # 1 /\ k \in Int
  BY <1>1, <1>2
<1>4. Once(Tail(q), o)
  <2> SUFFICES ASSUME NEW j \in 1..Len(Tail(q)), NEW k \in 1..Len(Tail(q)),
                      IsOrder(Tail(q)[j], o), IsOrder(Tail(q)[k], o)
               PROVE  j = k
    BY DEF Once
  <2>1. IsOrder(q[j + 1], o) /\ IsOrder(q[k + 1], o)
    BY <1>1
  <2>2. j + 1 = k + 1
    BY <1>3, <2>1 DEF Once
  <2>. QED BY <1>3, <2>2
<1>5. ASSUME IsOrder(Head(q), o), Has(Tail(q), o) PROVE FALSE
  <2>1. PICK k \in 1..Len(Tail(q)) : IsOrder(Tail(q)[k], o)
    BY <1>2, <1>5 DEF Has, ToSet
  <2>2. IsOrder(q[k + 1], o) /\ IsOrder(q[1], o) /\ 1 \in 1..Len(q)
    BY <1>1, <1>2, <1>5, <2>1
  <2>3. k + 1 = 1
    BY <1>3, <2>2 DEF Once
  <2>. QED BY <1>3, <2>3
<1>. QED BY <1>4, <1>5

\* The first state has no order.
LEMMA OrdersInit == Init => OrderInv /\ PlacedInv
<1> SUFFICES ASSUME Init PROVE OrderInv /\ PlacedInv
  OBVIOUS
<1>1. /\ unit["header"] = <<>> /\ unit["router"] = <<>> /\ unit["execution"] = <<>>
      /\ toGui.bytes = <<>> /\ answers = <<>> /\ toBack = <<>> /\ toServer = <<>> /\ output = <<>>
      /\ sender.pc = "idle"
      /\ \A o \in Orders : book[o] = "none" /\ gui.rows[o] = "none"
  BY DEF Init, Units, Idle
<1>2. /\ builder = <<Msg("Logon", None)>> /\ Len(builder) = 1 /\ builder[1].kind = "Logon"
      /\ ToSet(builder) = {Msg("Logon", None)}
  <2>1. /\ builder = <<Msg("Logon", None)>> /\ Len(builder) = 1
        /\ <<Msg("Logon", None)>>[1] = Msg("Logon", None)
    BY DEF Init
  <2>2. builder[1].kind = "Logon"
    BY <2>1 DEF Msg
  <2>. QED BY <2>1, <2>2, MsgTypes, Alone, Contents
<1>3. ASSUME NEW o \in Orders PROVE OneWay(o)
  <2>1. /\ ~Has(builder, o) /\ Once(builder, o)
        /\ ~Has(output, o) /\ Once(output, o) /\ ~Has(toServer, o) /\ ~InHand(o)
    BY <1>1, <1>2, Contents, MsgIs DEF Has, Once, InHand, IsOrder
  <2>. QED BY <1>1, <2>1 DEF OneWay
<1>4. PlacedInv
  BY <1>1, Contents DEF PlacedInv, Truthful, Shown, ListedIsPlaced
<1>. QED BY <1>3, <1>4 DEF OrderInv

\* A step that moves no order and changes neither market nor screen.
OrdersKept ==
  /\ \A o \in Orders : /\ Once(builder, o) => Once(builder, o)'
                       /\ Once(output, o) => Once(output, o)'
                       /\ Has(builder, o)' => Has(builder, o)
                       /\ Has(output, o)' => Has(output, o)
                       /\ InHand(o)' => InHand(o)
                       /\ Has(toServer, o)' => Has(toServer, o)
  /\ UNCHANGED <<book, gui>>

\* Such a step disturbs no order.
LEMMA KeptOrders == OrderInv /\ OrdersKept => OrderInv'
<1> SUFFICES ASSUME OrderInv, OrdersKept, NEW o \in Orders PROVE OneWay(o)'
  BY DEF OrderInv
<1>1. OneWay(o)
  BY DEF OrderInv
<1>. QED BY <1>1 DEF OrdersKept, OneWay

\* TcpOutput is given a message that is no order.
LEMMA KeptWithout ==
  ASSUME QueueTypes, UNCHANGED <<builder, sender, toServer, book, gui>>,
         NEW m \in BackMsg, m.kind # "Order",
         output' = output \/ output' = Append(output, m)
  PROVE  OrdersKept
<1>1. output \in Seq(BackMsg)
  BY DEF QueueTypes
<1>2. ASSUME NEW o \in Orders
      PROVE  (Once(output, o) => Once(output, o)') /\ (Has(output, o)' => Has(output, o))
  <2>1. ~IsOrder(m, o)
    BY DEF IsOrder
  <2>2. CASE output' = output
    BY <2>2 DEF Once, Has
  <2>3. CASE output' = Append(output, m)
    <3>1. Once(output, o) => Once(output', o)
      BY <1>1, <2>1, <2>3, OnceAppended
    <3>2. ToSet(output') = ToSet(output) \cup {m}
      BY <1>1, <2>3, Appended
    <3>3. Has(output', o) => Has(output, o)
      BY <2>1, <3>2 DEF Has
    <3>. QED BY <3>1, <3>3 DEF Once, Has
  <2>. QED BY <2>2, <2>3
<1>3. \A o \in Orders : /\ Once(builder, o) => Once(builder, o)'
                        /\ Has(builder, o)' => Has(builder, o)
                        /\ InHand(o)' => InHand(o)
                        /\ Has(toServer, o)' => Has(toServer, o)
  BY DEF Once, Has, InHand
<1>. QED BY <1>2, <1>3 DEF OrdersKept

\* An order goes from the GUI to FixBuilder, and from there to the server.
LEMMA OrdersOut ==
  ASSUME LinkTypes, OrderInv,
         Build \/ OutNumber \/ OutCount \/ OutSend \/ \E o \in Orders : Submit(o)
  PROVE  OrderInv'
<1>0. QueueTypes /\ builder \in Seq(BackMsg) /\ output \in Seq(BackMsg) /\ toServer \in Seq(BackMsg)
  BY DEF LinkTypes, QueueTypes
<1>1. CASE Build
  <2>1. UNCHANGED <<sender, toServer, book, gui>>
    BY <1>1 DEF Build, fixServerVars, wires, guiVars
  <2> DEFINE m == Head(builder)
  <2>2. /\ m \in BackMsg /\ builder # <<>> /\ builder' = Tail(builder) /\ output' = Append(output, m)
        /\ ToSet(builder) = {m} \cup ToSet(builder')
        /\ ToSet(output') = ToSet(output) \cup {m}
    BY <1>0, <1>1, BuildMoves
  <2> HIDE DEF m
  <2> SUFFICES ASSUME NEW o \in Orders PROVE OneWay(o)'
    BY DEF OrderInv
  <2>3. OneWay(o)
    BY DEF OrderInv
  <2>4. Once(builder', o) /\ ~(IsOrder(m, o) /\ Has(builder', o))
    BY <1>0, <2>2, <2>3, OnceTaken DEF OneWay, m
  <2>5. /\ Has(builder, o) <=> IsOrder(m, o) \/ Has(builder', o)
        /\ Has(output', o) <=> Has(output, o) \/ IsOrder(m, o)
    BY <2>2 DEF Has
  <2>6. Once(output', o)
    <3>1. ~(IsOrder(m, o) /\ Has(output, o))
      BY <2>3, <2>5 DEF OneWay
    <3>. QED BY <1>0, <2>2, <2>3, <3>1, OnceAppended DEF OneWay
  <2>7. /\ InHand(o)' <=> InHand(o)
        /\ Has(toServer', o) <=> Has(toServer, o)
    BY <2>1 DEF InHand
  <2>. QED BY <2>1, <2>3, <2>4, <2>5, <2>6, <2>7 DEF OneWay
<1>2. CASE OutNumber
  <2>1. UNCHANGED <<builder, toServer, book, gui>>
    BY <1>2 DEF OutNumber, fixServerVars, wires, guiVars
  <2> DEFINE m == Head(output)
  <2>2. /\ m \in BackMsg /\ output # <<>> /\ output' = Tail(output)
        /\ ToSet(output) = {m} \cup ToSet(output')
        /\ sender' = [pc |-> "count", msg |-> Numbered(m, NextNumber)] /\ sender.pc = "idle"
    BY <1>2, NumberMoves
  <2>3. sender'.pc = "count" /\ \A o : IsOrder(sender'.msg, o) <=> IsOrder(m, o)
    BY <2>2, MsgIs DEF IsOrder
  <2> HIDE DEF m
  <2> SUFFICES ASSUME NEW o \in Orders PROVE OneWay(o)'
    BY DEF OrderInv
  <2>4. OneWay(o)
    BY DEF OrderInv
  <2>5. Once(output', o) /\ ~(IsOrder(m, o) /\ Has(output', o))
    BY <1>0, <2>2, <2>4, OnceTaken DEF OneWay, m
  <2>6. Has(output, o) <=> IsOrder(m, o) \/ Has(output', o)
    BY <2>2 DEF Has
  <2>7. ~InHand(o) /\ (InHand(o)' <=> IsOrder(m, o))
    BY <2>2, <2>3 DEF InHand
  <2>8. Has(builder', o) = Has(builder, o) /\ Has(toServer', o) = Has(toServer, o) /\ builder' = builder
    BY <2>1
  <2>. QED BY <2>1, <2>4, <2>5, <2>6, <2>7, <2>8 DEF OneWay
<1>3. CASE OutCount
  <2>1. UNCHANGED <<builder, output, toServer, book, gui>> /\ sender' = [sender EXCEPT !.pc = "send"]
        /\ sender.pc = "count"
    BY <1>3 DEF OutCount, fixServerVars, wires, guiVars
  <2>2. sender'.msg = sender.msg
    BY <1>0, <2>1 DEF QueueTypes
  <2>3. OrdersKept
    BY <2>1, <2>2 DEF OrdersKept, Once, Has, InHand
  <2>. QED BY <2>3, KeptOrders
<1>4. CASE OutSend
  <2>1. UNCHANGED <<builder, output, book, gui>>
    BY <1>4 DEF OutSend, fixServerVars, guiVars
  <2>2. /\ sender.pc = "send" /\ sender'.pc = "idle"
        /\ \/ ToSet(toServer') = ToSet(toServer) \cup {sender.msg}
           \/ toServer' = toServer
    BY <1>0, <1>4, SendMoves, SenderIs
  <2> SUFFICES ASSUME NEW o \in Orders PROVE OneWay(o)'
    BY DEF OrderInv
  <2>3. OneWay(o)
    BY DEF OrderInv
  <2>4. ~InHand(o)' /\ (Has(toServer', o) => Has(toServer, o) \/ InHand(o))
    BY <2>2 DEF InHand, Has
  <2>5. Has(builder', o) = Has(builder, o) /\ Has(output', o) = Has(output, o)
        /\ builder' = builder /\ output' = output
    BY <2>1
  <2>. QED BY <2>1, <2>3, <2>4, <2>5 DEF OneWay
<1>5. ASSUME NEW x \in Orders, Submit(x) PROVE OrderInv'
  <2>1. /\ UNCHANGED <<output, sender, toServer, book>> /\ gui.rows[x] = "none"
        /\ gui' = [gui EXCEPT !.rows[x] = "sent"]
    BY <1>5 DEF Submit, fixServerVars, wires
  <2> DEFINE m == Msg("Order", x)
  <2>2. /\ m \in BackMsg /\ builder' = Append(builder, m)
        /\ ToSet(builder') = ToSet(builder) \cup {m}
    BY <1>0, <1>5, SubmitMoves, MsgTypes
  <2>3. \A o : IsOrder(m, o) <=> o = x
    BY MsgIs DEF IsOrder
  <2> HIDE DEF m
  <2>4. gui'.rows[x] = "sent" /\ \A o \in Orders \ {x} : gui'.rows[o] = gui.rows[o]
    BY <2>1 DEF LinkTypes, StateTypes
  <2> SUFFICES ASSUME NEW o \in Orders PROVE OneWay(o)'
    BY DEF OrderInv
  <2>5. OneWay(o)
    BY DEF OrderInv
  <2>6. Has(builder', o) <=> Has(builder, o) \/ o = x
    BY <2>2, <2>3 DEF Has
  <2>7. o = x => ~Has(builder, o) /\ ~Has(output, o) /\ ~InHand(o) /\ ~Has(toServer, o)
    BY <2>1, <2>5 DEF OneWay
  <2>8. Once(builder', o)
    BY <1>0, <2>2, <2>3, <2>5, <2>7, OnceAppended DEF OneWay
  <2>9. (InHand(o)' <=> InHand(o)) /\ Has(output', o) = Has(output, o)
        /\ Has(toServer', o) = Has(toServer, o)
    BY <2>1 DEF InHand
  <2>. QED BY <2>1, <2>4, <2>5, <2>6, <2>7, <2>8, <2>9 DEF OneWay
<1>. QED BY <1>1, <1>2, <1>3, <1>4, <1>5

\* Nothing of what the back reads is an order.
LEMMA OrdersIn ==
  ASSUME LinkTypes, OrderInv,
         Beat \/ Receive \/ ValidateHeader \/ Route \/ HandleLogon \/ HandleHeartBeat \/ Execute
           \/ CoreReturns
  PROVE  OrderInv'
<1>0. QueueTypes
  BY DEF LinkTypes
<1>1. UNCHANGED <<builder, sender, toServer, book, gui>>
  BY DEF Beat, Receive, ValidateHeader, Route, HandleLogon, HandleHeartBeat, Execute, CoreReturns,
     fixServerVars, wires, guiVars
<1>2. \E m \in BackMsg : m.kind # "Order" /\ (output' = output \/ output' = Append(output, m))
  <2>1. /\ Msg("Reject", None) \in BackMsg /\ Msg("Reject", None).kind # "Order"
        /\ Msg("HeartBeat", None) \in BackMsg /\ Msg("HeartBeat", None).kind # "Order"
        /\ Echo \in BackMsg /\ Echo.kind # "Order"
    BY MsgTypes, MsgIs DEF Echo
  <2>2. CASE Route \/ HandleLogon \/ Execute \/ CoreReturns
    BY <2>1, <2>2 DEF Route, HandleLogon, Execute, CoreReturns
  <2>3. CASE Beat
    BY <2>1, <2>3 DEF Beat
  <2>4. CASE HandleHeartBeat
    BY <2>1, <2>4 DEF HandleHeartBeat
  <2>5. CASE Receive
    BY <1>0, <2>1, <2>5, ReceiveMoves
  <2>6. CASE ValidateHeader
    BY <1>0, <2>1, <2>6, ValidateMoves
  <2>. QED BY <2>2, <2>3, <2>4, <2>5, <2>6
<1>. QED BY <1>0, <1>1, <1>2, KeptWithout, KeptOrders

\* The market of an order, and the screen, change when the order has arrived.
LEMMA OrdersThere ==
  ASSUME LinkTypes, OrderInv, PlacedInv,
         \/ ServerReads \/ ServerSends \/ ServerLosesBack \/ ServerAsks \/ ServerRemoves \/ GuiReads
         \/ \E o \in Orders : ServerFills(o)
  PROVE  OrderInv'
<1>0. QueueTypes /\ StateTypes
  BY DEF LinkTypes
<1>1. CASE ServerReads
  <2>1. UNCHANGED <<builder, output, sender, gui>> /\ toServer' = <<>>
    BY <1>1 DEF ServerReads, backVars, guiVars
  <2>2. Reading(toServer[1], Moved, Refusing) /\ toServer[1] \in ToSet(toServer)
    BY <1>1, ReadMoves
  <2> SUFFICES ASSUME NEW o \in Orders PROVE OneWay(o)'
    BY DEF OrderInv
  <2>3. OneWay(o)
    BY DEF OrderInv
  <2>4. book'[o] = book[o] \/ Has(toServer, o)
    <3> DEFINE m == toServer[1]
    <3>1. book' = book \/ (m.kind = "Order" /\ \E k : book' = [book EXCEPT ![m.order] = k])
      BY <2>2 DEF Reading
    <3>2. CASE book' = book
      BY <3>2
    <3>3. CASE m.kind = "Order" /\ \E k : book' = [book EXCEPT ![m.order] = k]
      <4>1. PICK k : book' = [book EXCEPT ![m.order] = k]
        BY <3>3
      <4>2. CASE m.order = o
        BY <2>2, <3>3, <4>2 DEF Has, IsOrder
      <4>3. CASE m.order # o
        BY <1>0, <4>1, <4>3 DEF StateTypes
      <4>. QED BY <4>2, <4>3
    <3>. QED BY <3>1, <3>2, <3>3
  <2>5. ~Has(toServer', o)
    BY <2>1, Contents DEF Has
  <2>6. (InHand(o)' <=> InHand(o)) /\ Has(output', o) = Has(output, o) /\ builder' = builder
        /\ output' = output /\ gui' = gui /\ Has(builder', o) = Has(builder, o)
    BY <2>1 DEF InHand
  <2>. QED BY <2>3, <2>4, <2>5, <2>6 DEF OneWay
<1>2. CASE ServerSends \/ ServerLosesBack \/ ServerAsks \/ ServerRemoves
  <2>1. UNCHANGED <<builder, output, sender, toServer, book, gui>>
    BY <1>2 DEF ServerSends, ServerLosesBack, ServerAsks, ServerRemoves, backVars, wires, guiVars
  <2>2. OrdersKept
    BY <2>1 DEF OrdersKept, Once, Has, InHand
  <2>. QED BY <2>2, KeptOrders
<1>3. CASE GuiReads
  <2>1. UNCHANGED <<builder, output, sender, toServer, book>>
    BY <1>3 DEF GuiReads, backVars, fixServerVars, wires
  <2> DEFINE m == Head(toGui.bytes)
  <2>2. m \in GuiMsg /\ m \in ToSet(toGui.bytes)
    BY <1>0, <1>3, GuiMoves
  <2>3. \/ gui' = [gui EXCEPT !.in = TRUE]
        \/ m.kind = "ExecNew" /\ gui' = [gui EXCEPT !.rows[m.order] = "listed"]
    <3>1. gui' = CASE m.kind = "Logon" -> [gui EXCEPT !.in = TRUE]
                   [] m.kind = "ExecNew" -> [gui EXCEPT !.rows[m.order] = "listed"]
                   [] m.kind = "ExecEvent" ->
                        [gui EXCEPT !.rows[m.order] = IF @ = "listed" THEN "filled" ELSE @]
      BY <1>3 DEF GuiReads
    <3> HIDE DEF m
    <3>. QED BY <2>2, <3>1 DEF GuiMsg
  <2> SUFFICES ASSUME NEW o \in Orders PROVE OneWay(o)'
    BY DEF OrderInv
  <2>4. OneWay(o)
    BY DEF OrderInv
  <2>5. gui'.rows[o] = gui.rows[o] \/ (Taken(o) /\ gui'.rows[o] = "listed")
    <3>1. gui \in [in : BOOLEAN, rows : [Orders -> {"none", "sent", "listed", "filled"}]]
      BY <1>0 DEF StateTypes
    <3>2. CASE gui' = [gui EXCEPT !.in = TRUE]
      BY <3>1, <3>2
    <3>3. CASE m.kind = "ExecNew" /\ gui' = [gui EXCEPT !.rows[m.order] = "listed"]
      <4>1. Taken(m.order)
        BY <2>2, <3>3 DEF PlacedInv, Shown
      <4> HIDE DEF m
      <4>2. CASE m.order = o
        BY <3>1, <3>3, <4>1, <4>2
      <4>3. CASE m.order # o
        BY <3>1, <3>3, <4>3
      <4>. QED BY <4>2, <4>3
    <3>. QED BY <2>3, <3>2, <3>3
  <2>6. /\ InHand(o)' <=> InHand(o)
        /\ Has(output', o) = Has(output, o) /\ Has(toServer', o) = Has(toServer, o)
        /\ Has(builder', o) = Has(builder, o) /\ builder' = builder /\ output' = output /\ book' = book
    BY <2>1 DEF InHand
  <2>. QED BY <2>4, <2>5, <2>6 DEF OneWay, Taken
<1>4. ASSUME NEW x \in Orders, ServerFills(x) PROVE OrderInv'
  <2>1. UNCHANGED <<builder, output, sender, toServer, gui>> /\ book[x] = "Ack"
        /\ book' = [book EXCEPT ![x] = "Fill"]
    BY <1>4 DEF ServerFills, backVars, wires, guiVars
  <2> SUFFICES ASSUME NEW o \in Orders PROVE OneWay(o)'
    BY DEF OrderInv
  <2>2. OneWay(o)
    BY DEF OrderInv
  <2>3. book'[o] = book[o] \/ book[o] = "Ack"
    BY <1>0, <2>1 DEF StateTypes
  <2>4. /\ InHand(o)' <=> InHand(o)
        /\ Has(output', o) = Has(output, o) /\ Has(toServer', o) = Has(toServer, o)
        /\ Has(builder', o) = Has(builder, o) /\ builder' = builder /\ output' = output /\ gui' = gui
    BY <2>1 DEF InHand
  <2>. QED BY <2>2, <2>3, <2>4 DEF OneWay
<1>. QED BY <1>1, <1>2, <1>3, <1>4

\* What is taken stays taken, and no report is made up.
ReportsStay ==
  /\ \A o \in Orders : Taken(o) => Taken(o)'
  /\ \A q \in {"header", "router", "execution"} : Truthful(unit[q])'
  /\ Truthful(answers)' /\ Truthful(toBack)' /\ Shown'

\* The reports of queues that only lose messages stay true.
LEMMA TruthKept ==
  ASSUME \A o \in Orders : Taken(o) => Taken(o)'
  PROVE  /\ \A q \in Seq(ServerMsg) : Truthful(q) => Truthful(q)'
         /\ QueueTypes /\ PlacedInv =>
              /\ \A u \in {"header", "router", "execution"} : unit'[u] = unit[u] => Truthful(unit[u])'
              /\ answers' = answers => Truthful(answers)'
              /\ toBack' = toBack => Truthful(toBack)'
              /\ toGui' = toGui => Shown'
<1>1. ASSUME NEW q \in Seq(ServerMsg), Truthful(q)
      PROVE  \A m \in ToSet(q) : m.kind \in {"Ack", "Fill"} => Taken(m.order)'
  <2>1. ToSet(q) \subseteq ServerMsg
    BY Contents
  <2>. QED BY <1>1, <2>1 DEF Truthful, ServerMsg
<1>2. \A q \in Seq(ServerMsg) : Truthful(q) => Truthful(q)'
  BY <1>1 DEF Truthful
<1>3. ASSUME QueueTypes, PlacedInv
      PROVE  /\ \A u \in {"header", "router", "execution"} : unit'[u] = unit[u] => Truthful(unit[u])'
             /\ answers' = answers => Truthful(answers)'
             /\ toBack' = toBack => Truthful(toBack)'
             /\ toGui' = toGui => Shown'
  <2>1. /\ answers \in Seq(ServerMsg) /\ toBack \in Seq(ServerMsg) /\ unit["header"] \in Seq(ServerMsg)
        /\ unit["router"] \in Seq(ServerMsg) /\ unit["execution"] \in Seq(ServerMsg)
        /\ ToSet(toGui.bytes) \subseteq GuiMsg
    BY <1>3, Contents DEF QueueTypes, Units
  <2>2. answers' = answers => Truthful(answers)'
    BY <1>1, <1>3, <2>1 DEF PlacedInv, Truthful
  <2>3. toBack' = toBack => Truthful(toBack)'
    BY <1>1, <1>3, <2>1 DEF PlacedInv, Truthful
  <2>4. \A u \in {"header", "router", "execution"} : unit'[u] = unit[u] => Truthful(unit[u])'
    BY <1>1, <1>3, <2>1 DEF PlacedInv, Truthful
  <2>5. toGui' = toGui => Shown'
    BY <1>3, <2>1 DEF PlacedInv, Shown, GuiMsg
  <2>. QED BY <2>2, <2>3, <2>4, <2>5
<1>. QED BY <1>2, <1>3

\* The screen shows nothing else than before.
LEMMA ListKept ==
  ASSUME PlacedInv, ReportsStay, gui' = gui
  PROVE  PlacedInv'
<1>1. ListedIsPlaced'
  BY DEF PlacedInv, ReportsStay, ListedIsPlaced, Taken
<1>. QED BY <1>1 DEF PlacedInv, ReportsStay

\* The back passes on the reports it is sent, and makes none.
LEMMA PlacedBack ==
  ASSUME LinkTypes, PlacedInv,
         Build \/ OutNumber \/ OutCount \/ OutSend \/ Beat \/ Receive \/ ValidateHeader \/ Route
           \/ HandleLogon \/ HandleHeartBeat \/ Execute \/ CoreReturns
  PROVE  PlacedInv'
<1>0. QueueTypes /\ HandlerTypes /\ StateTypes
  BY DEF LinkTypes
<1>u. Units = {"header", "router", "auth", "heartbeat", "execution"}
  BY DEF Units
<1>f. /\ UNCHANGED <<answers, book, gui>>
      /\ \A o \in Orders : Taken(o) => Taken(o)'
  BY DEF Build, OutNumber, OutCount, OutSend, Beat, Receive, ValidateHeader, Route,
         HandleLogon, HandleHeartBeat, Execute, CoreReturns, fixServerVars, guiVars, Taken
<1>t. \A o : Taken(o)' <=> Taken(o)
  BY <1>f DEF Taken
<1>k. /\ \A u \in {"header", "router", "execution"} : unit'[u] = unit[u] => Truthful(unit[u])'
      /\ Truthful(answers)'
      /\ toBack' = toBack => Truthful(toBack)'
      /\ toGui' = toGui => Shown'
  BY <1>0, <1>f, TruthKept
<1>1. CASE Build \/ OutNumber \/ OutCount \/ OutSend \/ Beat \/ CoreReturns
  <2>1. UNCHANGED <<unit, toBack, toGui>>
    BY <1>1 DEF Build, OutNumber, OutCount, OutSend, Beat, CoreReturns, wires, guiVars
  <2>. QED BY <1>f, <1>k, <2>1, ListKept DEF ReportsStay
<1>2. CASE Receive
  <2>1. toGui' = toGui /\ toBack' = <<>>
    BY <1>2 DEF Receive, guiVars
  <2>2. /\ \A u \in Units \ {"header"} : unit'[u] = unit[u]
        /\ ToSet(unit'["header"]) \subseteq ToSet(unit["header"]) \cup ToSet(toBack)
    BY <1>0, <1>2, ReceiveMoves
  <2>3. Truthful(toBack)'
    BY <2>1, Contents DEF Truthful
  <2>4. Truthful(unit["header"])'
    BY <1>t, <2>2 DEF PlacedInv, Truthful
  <2>5. unit'["router"] = unit["router"] /\ unit'["execution"] = unit["execution"]
    BY <2>2, <1>u
  <2>. QED BY <1>f, <1>k, <2>1, <2>3, <2>4, <2>5, ListKept DEF ReportsStay
<1>3. CASE ValidateHeader
  <2>1. UNCHANGED <<toBack, toGui>>
    BY <1>3 DEF ValidateHeader, wires, guiVars
  <2>2. /\ ToSet(unit'["header"]) \subseteq ToSet(unit["header"])
        /\ ToSet(unit'["router"]) \subseteq ToSet(unit["router"]) \cup ToSet(unit["header"])
        /\ unit'["execution"] = unit["execution"]
    BY <1>0, <1>3, <1>u, ValidateMoves
  <2>3. Truthful(unit["header"])' /\ Truthful(unit["router"])'
    BY <1>t, <2>2 DEF PlacedInv, Truthful
  <2>. QED BY <1>f, <1>k, <2>1, <2>2, <2>3, ListKept DEF ReportsStay
<1>4. CASE Route
  <2>1. UNCHANGED <<toBack, toGui>>
    BY <1>4 DEF Route, wires, guiVars
  <2>2. /\ unit'["header"] = unit["header"]
        /\ ToSet(unit'["router"]) \subseteq ToSet(unit["router"])
        /\ ToSet(unit'["execution"]) \subseteq ToSet(unit["execution"]) \cup ToSet(unit["router"])
    BY <1>0, <1>4, RouteMoves DEF Handlers
  <2>3. Truthful(unit["router"])' /\ Truthful(unit["execution"])'
    BY <1>t, <2>2 DEF PlacedInv, Truthful
  <2>. QED BY <1>f, <1>k, <2>1, <2>2, <2>3, ListKept DEF ReportsStay
<1>5. CASE HandleLogon
  <2>1. toBack' = toBack /\ unit["auth"] # <<>> /\ Done("auth") /\ ToGui("Logon", None)
    BY <1>5 DEF HandleLogon, wires
  <2>2. \A v \in {"header", "router", "execution"} : unit'[v] = unit[v]
    BY <1>0, <1>u, <2>1, DoneMoves
  <2>3. ToSet(toGui'.bytes) = ToSet(toGui.bytes) \cup {Msg("Logon", None)}
    BY <1>0, <2>1, MsgTypes, ToGuiMoves
  <2>4. Shown'
    BY <1>t, <2>3, MsgIs DEF PlacedInv, Shown
  <2>. QED BY <1>f, <1>k, <2>1, <2>2, <2>4, ListKept DEF ReportsStay
<1>6. CASE HandleHeartBeat
  <2>1. UNCHANGED <<toBack, toGui>> /\ unit["heartbeat"] # <<>> /\ Done("heartbeat")
    BY <1>6 DEF HandleHeartBeat, wires, guiVars
  <2>2. \A v \in {"header", "router", "execution"} : unit'[v] = unit[v]
    BY <1>0, <1>u, <2>1, DoneMoves
  <2>. QED BY <1>f, <1>k, <2>1, <2>2, ListKept DEF ReportsStay
<1>7. CASE Execute
  <2>1. toBack' = toBack /\ unit["execution"] # <<>> /\ Done("execution")
    BY <1>7 DEF Execute, wires
  <2> DEFINE m == Head(unit["execution"])
  <2>2. /\ \A v \in {"header", "router"} : unit'[v] = unit[v]
        /\ m \in ServerMsg /\ ToSet(unit["execution"]) = {m} \cup ToSet(unit'["execution"])
    BY <1>0, <1>u, <2>1, DoneMoves
  <2>3. Truthful(unit["execution"])' /\ (m.kind \in {"Ack", "Fill"} => Taken(m.order))
    BY <1>t, <2>2 DEF PlacedInv, Truthful
  <2>4. Report(m)
    BY <1>7 DEF Execute
  <2> HIDE DEF m
  <2>5. Shown'
    <3>1. CASE m.kind = "Ack" /\ ToGui("ExecNew", m.order)
      <4>1. Msg("ExecNew", m.order) \in GuiMsg
        BY <2>2, <3>1, MsgTypes DEF ServerMsg
      <4>2. ToSet(toGui'.bytes) = ToSet(toGui.bytes) \cup {Msg("ExecNew", m.order)}
        BY <1>0, <3>1, <4>1, ToGuiMoves
      <4>3. Msg("ExecNew", m.order).order = m.order /\ Taken(m.order)
        BY <2>3, <3>1, MsgIs
      <4>. QED BY <1>t, <4>2, <4>3 DEF PlacedInv, Shown
    <3>2. CASE toGui' = toGui
      BY <1>k, <3>2
    <3>. QED BY <2>4, <3>1, <3>2 DEF Report
  <2>. QED BY <1>f, <1>k, <2>1, <2>2, <2>3, <2>5, ListKept DEF ReportsStay
<1>. QED BY <1>1, <1>2, <1>3, <1>4, <1>5, <1>6, <1>7

\* The server reports what its markets have done; the GUI lists what it is told.
LEMMA PlacedThere ==
  ASSUME LinkTypes, OrderInv, PlacedInv,
         \/ ServerReads \/ ServerSends \/ ServerLosesBack \/ ServerAsks \/ ServerRemoves \/ GuiReads
         \/ \E o \in Orders : Submit(o) \/ ServerFills(o)
  PROVE  PlacedInv'
<1>0. QueueTypes /\ HandlerTypes /\ StateTypes
  BY DEF LinkTypes
<1>1. CASE ServerReads
  <2>1. UNCHANGED <<unit, toBack, toGui, gui>>
    BY <1>1 DEF ServerReads, backVars, guiVars
  <2> DEFINE m == toServer[1]
  <2>2. Reading(m, Moved, Refusing) /\ m \in ToSet(toServer)
    BY <1>1, ReadMoves
  <2>3. m.kind = "Order" /\ m.order \in Orders => ~Taken(m.order)
    <3>1. ASSUME m.kind = "Order", m.order \in Orders PROVE ~Taken(m.order)
      <4>1. Has(toServer, m.order) /\ OneWay(m.order)
        BY <2>2, <3>1 DEF Has, IsOrder, OrderInv
      <4>. QED BY <4>1 DEF OneWay, Taken
    <3>. QED BY <3>1
  <2> HIDE DEF m, Moved, Refusing
  <2>4. \A o \in Orders : Taken(o) => Taken(o)'
    <3>1. book' = book \/ \E k : /\ m.kind = "Order" /\ m.order \in Orders
                                 /\ book' = [book EXCEPT ![m.order] = k]
      BY <2>2 DEF Reading
    <3>2. CASE book' = book
      BY <3>2 DEF Taken
    <3>3. CASE \E k : /\ m.kind = "Order" /\ m.order \in Orders
                      /\ book' = [book EXCEPT ![m.order] = k]
      BY <1>0, <2>3, <3>3 DEF StateTypes, Taken
    <3>. QED BY <3>1, <3>2, <3>3
  <2>5. /\ \A u \in {"header", "router", "execution"} : Truthful(unit[u])'
        /\ Truthful(toBack)' /\ Shown'
    BY <1>0, <2>1, <2>4, TruthKept
  <2>6. \A x \in ToSet(answers) : x.kind \in {"Ack", "Fill"} => Taken(x.order)'
    <3>1. answers \in Seq(ServerMsg) /\ ToSet(answers) \subseteq ServerMsg
      BY <1>0, Contents DEF QueueTypes
    <3>. QED BY <2>4, <3>1 DEF PlacedInv, Truthful, ServerMsg
  <2>7. Truthful(answers)'
    <3>1. \/ \E kind \in {"Reject", "Logon", "HeartBeat"} :
               ToSet(answers') \subseteq ToSet(answers) \cup {Msg(kind, None)}
          \/ \E k \in {"Ack", "Refusal"}, o \in Orders :
               /\ ToSet(answers') = ToSet(answers) \cup {Msg(k, o)}
               /\ book' = [book EXCEPT ![o] = k]
      BY <2>2 DEF Reading
    <3>2. CASE \E kind \in {"Reject", "Logon", "HeartBeat"} :
                 ToSet(answers') \subseteq ToSet(answers) \cup {Msg(kind, None)}
      BY <2>6, <3>2, MsgIs DEF Truthful
    <3>3. ASSUME NEW k \in {"Ack", "Refusal"}, NEW o \in Orders,
                 ToSet(answers') = ToSet(answers) \cup {Msg(k, o)},
                 book' = [book EXCEPT ![o] = k]
          PROVE  Truthful(answers)'
      <4>1. k = "Ack" => Taken(o)'
        BY <1>0, <3>3 DEF StateTypes, Taken
      <4>2. Msg(k, o).kind = k /\ Msg(k, o).order = o
        BY MsgIs
      <4>. QED BY <2>6, <3>3, <4>1, <4>2 DEF Truthful
    <3>. QED BY <3>1, <3>2, <3>3
  <2>. QED BY <2>1, <2>4, <2>5, <2>7, ListKept DEF ReportsStay
<1>2. CASE ServerSends
  <2>1. UNCHANGED <<unit, toGui, gui, book>>
    BY <1>2 DEF ServerSends, backVars, guiVars
  <2>2. PICK num :
          /\ Head(answers) \in ServerMsg
          /\ ToSet(answers) = {Head(answers)} \cup ToSet(answers')
          /\ ToSet(toBack') = ToSet(toBack) \cup {Numbered(Head(answers), num)}
    BY <1>2, AnswerMoves
  <2>3. \A o : Taken(o)' <=> Taken(o)
    BY <2>1 DEF Taken
  <2>4. /\ Numbered(Head(answers), num).kind = Head(answers).kind
        /\ Numbered(Head(answers), num).order = Head(answers).order
    BY <2>2, MsgIs
  <2>5. Truthful(answers)'
    BY <2>2, <2>3 DEF PlacedInv, Truthful
  <2>6. Truthful(toBack)'
    BY <2>2, <2>3, <2>4 DEF PlacedInv, Truthful
  <2>7. /\ \A u \in {"header", "router", "execution"} : Truthful(unit[u])'
        /\ Shown'
    BY <1>0, <2>1, <2>3, TruthKept
  <2>. QED BY <2>1, <2>3, <2>5, <2>6, <2>7, ListKept DEF ReportsStay
<1>3. CASE ServerLosesBack \/ ServerRemoves
  <2>1. UNCHANGED <<unit, toGui, gui, book, answers, toBack>>
    BY <1>3 DEF ServerLosesBack, ServerRemoves, backVars, wires, guiVars
  <2>2. \A o : Taken(o)' <=> Taken(o)
    BY <2>1 DEF Taken
  <2>. QED BY <1>0, <2>1, <2>2, TruthKept, ListKept DEF ReportsStay
<1>4. CASE ServerAsks
  <2>1. UNCHANGED <<unit, toGui, gui, book, toBack>> /\ Reply("TestRequest", None)
    BY <1>4 DEF ServerAsks, backVars, wires, guiVars
  <2>2. \A o : Taken(o)' <=> Taken(o)
    BY <2>1 DEF Taken
  <2>3. ToSet(answers') = ToSet(answers) \cup {Msg("TestRequest", None)}
    BY <1>0, <2>1, MsgTypes, ReplyMoves
  <2>4. Truthful(answers)'
    BY <2>2, <2>3, MsgIs DEF PlacedInv, Truthful
  <2>5. /\ \A u \in {"header", "router", "execution"} : Truthful(unit[u])'
        /\ Truthful(toBack)' /\ Shown'
    BY <1>0, <2>1, <2>2, TruthKept
  <2>. QED BY <2>1, <2>2, <2>4, <2>5, ListKept DEF ReportsStay
<1>5. CASE GuiReads
  <2>1. UNCHANGED <<unit, answers, toBack, book>>
    BY <1>5 DEF GuiReads, backVars, fixServerVars, wires
  <2> DEFINE m == Head(toGui.bytes)
  <2>2. /\ m \in GuiMsg /\ ToSet(toGui.bytes) = {m} \cup ToSet(toGui'.bytes)
    BY <1>0, <1>5, GuiMoves
  <2>3. \A o : Taken(o)' <=> Taken(o)
    BY <2>1 DEF Taken
  <2>4. gui' = CASE m.kind = "Logon" -> [gui EXCEPT !.in = TRUE]
                 [] m.kind = "ExecNew" -> [gui EXCEPT !.rows[m.order] = "listed"]
                 [] m.kind = "ExecEvent" ->
                      [gui EXCEPT !.rows[m.order] = IF @ = "listed" THEN "filled" ELSE @]
    BY <1>5 DEF GuiReads
  <2>5. m.kind = "ExecNew" => Taken(m.order)
    BY <2>2 DEF PlacedInv, Shown
  <2>6. Shown'
    BY <2>2, <2>3 DEF PlacedInv, Shown
  <2> HIDE DEF m
  <2>7. \/ gui' = [gui EXCEPT !.in = TRUE]
        \/ Taken(m.order) /\ gui' = [gui EXCEPT !.rows[m.order] = "listed"]
    BY <2>2, <2>4, <2>5 DEF GuiMsg
  <2>8. gui \in [in : BOOLEAN, rows : [Orders -> {"none", "sent", "listed", "filled"}]]
    BY <1>0 DEF StateTypes
  <2>9. ListedIsPlaced'
    <3> SUFFICES ASSUME NEW o \in Orders, gui'.rows[o] \in {"listed", "filled"} PROVE Taken(o)
      BY <2>3 DEF ListedIsPlaced, Taken
    <3>1. CASE gui' = [gui EXCEPT !.in = TRUE]
      BY <2>8, <3>1 DEF PlacedInv, ListedIsPlaced, Taken
    <3>2. CASE Taken(m.order) /\ gui' = [gui EXCEPT !.rows[m.order] = "listed"]
      <4>1. CASE m.order = o
        BY <3>2, <4>1
      <4>2. CASE m.order # o
        BY <2>8, <3>2, <4>2 DEF PlacedInv, ListedIsPlaced, Taken
      <4>. QED BY <4>1, <4>2
    <3>. QED BY <2>7, <3>1, <3>2
  <2>10. /\ \A u \in {"header", "router", "execution"} : Truthful(unit[u])'
         /\ Truthful(toBack)' /\ Truthful(answers)'
    BY <1>0, <2>1, <2>3, TruthKept
  <2>. QED BY <2>6, <2>9, <2>10 DEF PlacedInv
<1>6. ASSUME NEW x \in Orders, Submit(x) PROVE PlacedInv'
  <2>1. UNCHANGED <<unit, answers, toBack, toGui, book>> /\ gui' = [gui EXCEPT !.rows[x] = "sent"]
    BY <1>6 DEF Submit, fixServerVars, wires
  <2>2. \A o : Taken(o)' <=> Taken(o)
    BY <2>1 DEF Taken
  <2>3. ListedIsPlaced'
    <3> SUFFICES ASSUME NEW o \in Orders, gui'.rows[o] \in {"listed", "filled"} PROVE Taken(o)
      BY <2>2 DEF ListedIsPlaced, Taken
    <3>1. gui'.rows[o] = gui.rows[o]
      BY <1>0, <2>1 DEF StateTypes
    <3>. QED BY <3>1 DEF PlacedInv, ListedIsPlaced, Taken
  <2>4. /\ \A u \in {"header", "router", "execution"} : Truthful(unit[u])'
        /\ Truthful(toBack)' /\ Truthful(answers)' /\ Shown'
    BY <1>0, <2>1, <2>2, TruthKept
  <2>. QED BY <2>3, <2>4 DEF PlacedInv
<1>7. ASSUME NEW x \in Orders, ServerFills(x) PROVE PlacedInv'
  <2>1. UNCHANGED <<unit, toGui, gui, toBack>> /\ Reply("Fill", x)
        /\ book' = [book EXCEPT ![x] = "Fill"]
    BY <1>7 DEF ServerFills, backVars, wires, guiVars
  <2>2. Taken(x)' /\ \A o \in Orders : Taken(o) => Taken(o)'
    BY <1>0, <2>1 DEF StateTypes, Taken
  <2>3. ToSet(answers') = ToSet(answers) \cup {Msg("Fill", x)}
    BY <1>0, <2>1, MsgTypes, ReplyMoves
  <2>4. answers \in Seq(ServerMsg) /\ ToSet(answers) \subseteq ServerMsg
    BY <1>0, Contents DEF QueueTypes
  <2>5. Truthful(answers)'
    BY <2>2, <2>3, <2>4, MsgIs DEF PlacedInv, Truthful, ServerMsg
  <2>6. /\ \A u \in {"header", "router", "execution"} : Truthful(unit[u])'
        /\ Truthful(toBack)' /\ Shown'
    BY <1>0, <2>1, <2>2, TruthKept
  <2>. QED BY <2>1, <2>2, <2>5, <2>6, ListKept DEF ReportsStay
<1>. QED BY <1>1, <1>2, <1>3, <1>4, <1>5, <1>6, <1>7

\* The GUI lists an order only if the market has taken it, although the reports
\* come asynchronously and the GUI reads one message for each event: an order is
\* decided once, and every report under way tells what was decided.
THEOREM ListIsTrue == Spec => []ListedIsPlaced
<1> DEFINE Inv == LinkTypes /\ OrderInv /\ PlacedInv
<1>1. Init => Inv
  BY TypesInit, OrdersInit
<1>2. Inv /\ [Next]_vars => Inv'
  <2>1. ASSUME Inv, Next PROVE OrderInv' /\ PlacedInv'
    BY <2>1, OrdersOut, OrdersIn, OrdersThere, PlacedBack, PlacedThere, NextIs
  <2>2. ASSUME Inv, UNCHANGED vars PROVE OrderInv' /\ PlacedInv'
    <3>1. UNCHANGED <<builder, output, sender, toServer, unit, answers, toBack, toGui, gui, book>>
      BY <2>2 DEF vars, backVars, fixServerVars, wires, guiVars
    <3>2. OrdersKept
      BY <3>1 DEF OrdersKept, Once, Has, InHand
    <3>3. \A o : Taken(o)' <=> Taken(o)
      BY <3>1 DEF Taken
    <3>4. ReportsStay
      BY <2>2, <3>1, <3>3, TruthKept DEF ReportsStay, LinkTypes
    <3>. QED BY <2>2, <3>1, <3>2, <3>4, KeptOrders, ListKept
  <2>. QED BY <2>1, <2>2, TypesStep
<1>3. Inv => ListedIsPlaced
  BY DEF PlacedInv
<1>. QED BY <1>1, <1>2, <1>3, PTL DEF Spec
=============================================================================
