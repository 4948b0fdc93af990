--------------------------- MODULE BotRepliesProofs ---------------------------
(***************************************************************************)
(* Theorems about BotReplies, for any number of messages, processes,       *)
(* requests, stalls and faults, and any delays of the buffer.              *)
(***************************************************************************)
EXTENDS BotReplies, JobQueueProofs

(* TypeOK in two parts: what the consumers and the requests keep, and what *)
(* happens to an item once it has been emitted.                            *)
ActorOK ==
    /\ QueueTypeOK /\ QueueInv
    /\ human \in BOOLEAN /\ active \in BOOLEAN
    /\ pc \in [Actors -> {"idle", "touch", "reload", "store", "save", "emit", "ack",
                          "done"}]
    /\ item \in [Workers -> Items \cup {NoItem}]
    /\ \A w \in Workers : pc[w] = "idle" <=> item[w] = NoItem
    /\ op \in [Clients -> ClientOps \cup {"none"}]
    /\ copy \in [Actors -> BOOLEAN]
    /\ stored \in SUBSET Items
    /\ faults \in 0 .. MaxFaults

ReplyOK ==
    /\ stage \in [Items -> Stages]
    /\ home \in [Items -> Workers \cup {NoWorker}]
    /\ timer \in [Workers -> 0 .. BufferDelay]
    /\ age \in [Workers -> Nat]
    /\ batches \in SUBSET Batches
    /\ answers \in [Items -> Nat]
    /\ duty \in [Items -> {"human", "bot", "nobody", "mixed"}]

LEMMA TypeParts == TypeOK /\ QueueInv <=> ActorOK /\ ReplyOK
BY DEF TypeOK, ActorOK, ReplyOK

LEMMA FaultType ==
    ASSUME faults \in 0 .. MaxFaults, NEW k, Fault(k)
    PROVE  faults' \in 0 .. MaxFaults
BY ReplyAssumption DEF Fault

LEMMA ChargeType ==
    ASSUME ReplyOK, NEW h \in BOOLEAN, NEW a \in BOOLEAN, Charge(h, a)
    PROVE  /\ human' \in BOOLEAN /\ active' \in BOOLEAN
           /\ duty' \in [Items -> {"human", "bot", "nobody", "mixed"}]
BY DEF Charge, ReplyOK

-------------------------------------------------------------------------------
(* Type correctness of what the actors keep.                               *)

ActorTypes == ActorOK /\ ReplyOK

(* A step that moves a consumer that has an item to another of its places. *)
LEMMA ConsumerActorOK ==
    ASSUME ActorTypes, NEW w \in Workers, pc[w] # "idle",
           NEW p \in {"touch", "reload", "store", "save", "emit", "ack"},
           pc' = [pc EXCEPT ![w] = p], UNCHANGED <<queue, item, op>>,
           human' \in BOOLEAN, active' = active,
           copy' \in [Actors -> BOOLEAN], stored' \in SUBSET Items,
           faults' \in 0 .. MaxFaults
    PROVE  ActorOK'
BY DEF ActorTypes, ActorOK, QueueTypeOK, QueueInv, Actors

LEMMA WorkerActorOK ==
    ASSUME ActorTypes, NEW w \in Workers, WorkerStep(w)
    PROVE  ActorOK'
<1> USE DEF Goto
<1>1. /\ w \in Actors /\ copy[w] \in BOOLEAN /\ human \in BOOLEAN /\ active \in BOOLEAN
      /\ item[w] \in Items \cup {NoItem} /\ faults \in 0 .. MaxFaults
      /\ copy \in [Actors -> BOOLEAN] /\ stored \in SUBSET Items
  BY DEF ActorTypes, ActorOK, Actors
<1>2. ASSUME NEW m \in Jobs, FindConversation(w, m) PROVE ActorOK'
  <2>1. QueueTypeOK' /\ QueueInv'
    BY <1>2, TakeTypeInv DEF FindConversation, ActorTypes, ActorOK
  <2>2. queue[m].stalls \in 0 .. MaxStalls
    BY <1>2, QueueAssumption
       DEF FindConversation, Take, ActorTypes, ActorOK, QueueInv, QueueTypeOK, Entry
  <2>3. <<m, queue[m].stalls>> \in Items /\ <<m, queue[m].stalls>> # NoItem
    BY <2>2, ReplyAssumption DEF Items
  <2>4. /\ pc' = [pc EXCEPT ![w] = "touch"]
        /\ item' = [item EXCEPT ![w] = <<m, queue[m].stalls>>]
        /\ copy' = [copy EXCEPT ![w] = human]
        /\ UNCHANGED <<human, active, op, stored, faults>>
    BY <1>2 DEF FindConversation
  <2> QED BY <1>1, <2>1, <2>3, <2>4 DEF ActorTypes, ActorOK, Actors
<1>3. CASE TouchConversation(w)
  <2>1. pc[w] = "touch" /\ pc' = [pc EXCEPT ![w] = "reload"] /\ human' \in BOOLEAN
        /\ active' = active /\ UNCHANGED <<queue, item, op, copy, stored, faults>>
    BY <1>1, <1>3 DEF TouchConversation, SaveConversation, Charge
  <2> QED BY <1>1, <2>1, ConsumerActorOK
<1>4. CASE ReloadConversation(w)
  <2>1. pc[w] = "reload" /\ pc' = [pc EXCEPT ![w] = "store"]
        /\ copy' \in [Actors -> BOOLEAN]
        /\ UNCHANGED <<queue, human, active, item, op, stored, faults>>
    BY <1>1, <1>4 DEF ReloadConversation
  <2> QED BY <1>1, <2>1, ConsumerActorOK
<1>5. CASE StoreMessage(w)
  <2>1. pc[w] = "store" /\ UNCHANGED <<queue, human, active, item, op, copy>>
    BY <1>5 DEF StoreMessage
  <2>2. item[w] \in Items
    BY <2>1, <1>1 DEF ActorTypes, ActorOK
  <2>3. stored' \in SUBSET Items /\ faults' \in 0 .. MaxFaults
    BY <1>1, <1>5, <2>2, FaultType DEF StoreMessage
  <2>4. \E p \in {"save", "ack"} : pc' = [pc EXCEPT ![w] = p]
    BY <1>5 DEF StoreMessage
  <2> QED BY <1>1, <2>1, <2>3, <2>4, ConsumerActorOK
<1>6. CASE SaveLastMessage(w)
  <2>1. pc[w] = "save" /\ pc' = [pc EXCEPT ![w] = "emit"] /\ human' \in BOOLEAN
        /\ active' = active /\ UNCHANGED <<queue, item, op, copy, stored, faults>>
    BY <1>1, <1>6 DEF SaveLastMessage, SaveConversation, Charge
  <2> QED BY <1>1, <2>1, ConsumerActorOK
<1>7. CASE EmitReceived(w)
  <2>1. pc[w] = "emit" /\ pc' = [pc EXCEPT ![w] = "ack"]
        /\ UNCHANGED <<queue, human, active, item, op, copy, stored, faults>>
    BY <1>7 DEF EmitReceived
  <2> QED BY <1>1, <2>1, ConsumerActorOK
<1>8. CASE ProcessingThrows(w)
  <2>1. pc[w] # "idle" /\ pc' = [pc EXCEPT ![w] = "ack"]
        /\ UNCHANGED <<queue, human, active, item, op, copy, stored>>
    BY <1>8 DEF ProcessingThrows
  <2>2. faults' \in 0 .. MaxFaults
    BY <1>1, <1>8, FaultType DEF ProcessingThrows
  <2> QED BY <1>1, <2>1, <2>2, ConsumerActorOK
<1>9. CASE AckWebhook(w)
  <2>1. item[w] \in Items /\ item[w][1] \in Jobs
    BY <1>9, <1>1 DEF AckWebhook, ActorTypes, ActorOK, Items
  <2>2. QueueTypeOK' /\ QueueInv'
    BY <1>9, <2>1, EndTypeInv DEF AckWebhook, ActorTypes, ActorOK
  <2>3. /\ pc' = [pc EXCEPT ![w] = "idle"] /\ item' = [item EXCEPT ![w] = NoItem]
        /\ UNCHANGED <<human, active, op, copy, stored, faults>>
    BY <1>9 DEF AckWebhook
  <2> QED BY <1>1, <2>2, <2>3 DEF ActorTypes, ActorOK, Actors
<1> QED BY <1>2, <1>3, <1>4, <1>5, <1>6, <1>7, <1>8, <1>9 DEF WorkerStep

LEMMA ClientActorOK ==
    ASSUME ActorTypes, NEW c \in Clients, Request(c) \/ ClientStep(c)
    PROVE  ActorOK'
<1>1. c \in Actors /\ c \notin Workers
  BY ReplyAssumption DEF Actors
<1>2. QueueTypeOK' /\ QueueInv'
  BY DEF Request, ClientStep, WriteConversation, RequestThrows, ActorTypes, ActorOK,
         QueueTypeOK, QueueInv
<1>3. UNCHANGED <<item, stored, active>>
  BY DEF Request, ClientStep, WriteConversation, RequestThrows, SaveConversation, Charge
<1>4. human' \in BOOLEAN
  BY <1>1 DEF Request, ClientStep, WriteConversation, RequestThrows, SaveConversation,
              Charge, ActorTypes, ActorOK
<1>5. op' \in [Clients -> ClientOps \cup {"none"}] /\ copy' \in [Actors -> BOOLEAN]
  BY <1>1 DEF Request, ClientStep, WriteConversation, RequestThrows, ActorTypes, ActorOK
<1>6. faults' \in 0 .. MaxFaults
  BY FaultType DEF Request, ClientStep, WriteConversation, RequestThrows, ActorTypes, ActorOK
<1>7. \E p \in {"save", "done"} : pc' = [pc EXCEPT ![c] = p]
  BY DEF Request, ClientStep, WriteConversation, RequestThrows, Goto
<1> QED BY <1>1, <1>2, <1>3, <1>4, <1>5, <1>6, <1>7 DEF ActorTypes, ActorOK

(* The steps of the listeners, the buffers and the batches.                *)
ReplyStep ==
    \/ \E i \in Items : ListenerStep(i)
    \/ \E w \in Workers : FlushDue(w)
    \/ Tick
    \/ \E b \in batches : BatchStep(b)

LEMMA ReplyFrame ==
    ASSUME ReplyStep
    PROVE  UNCHANGED <<queueVars, botVars, home>>
BY DEF ReplyStep, ListenerStep, CheckTakeover, CheckBot, ListenerThrows, FlushDue, Tick,
       BatchStep, FindBot, AskModel, SendAnswer, Apologise, BatchThrows, batchFrame

LEMMA ReplyActorOK ==
    ASSUME ActorTypes, ReplyStep
    PROVE  ActorOK'
<1>1. faults' = faults \/ \E k \in {"db", "send", "model"} : Fault(k)
  BY DEF ReplyStep, ListenerStep, CheckTakeover, CheckBot, ListenerThrows, FlushDue,
         Tick, BatchStep, FindBot, AskModel, SendAnswer, Apologise, BatchThrows
<1>2. faults' \in 0 .. MaxFaults
  BY <1>1, FaultType DEF ActorTypes, ActorOK
<1> QED
  BY <1>2, ReplyFrame
     DEF ActorTypes, ActorOK, QueueTypeOK, QueueInv, queueVars, botVars, actorVars

LEMMA OtherActorOK ==
    ASSUME ActorTypes,
           \/ \E m \in Jobs : ReceiveWebhook(m) \/ StalledCheck(m)
           \/ \E w \in Workers : Crash(w)
           \/ SwitchBot
    PROVE  ActorOK'
<1>1. ASSUME NEW m \in Jobs, ReceiveWebhook(m) PROVE ActorOK'
  <2>1. QueueTypeOK' /\ QueueInv'
    BY <1>1, AddRemoveTypeInv DEF ReceiveWebhook, ActorTypes, ActorOK
  <2> QED BY <1>1, <2>1 DEF ReceiveWebhook, ActorTypes, ActorOK, actorVars
<1>2. ASSUME NEW m \in Jobs, StalledCheck(m) PROVE ActorOK'
  <2>1. QueueTypeOK' /\ QueueInv'
    BY <1>2, StallTypeInv DEF StalledCheck, ActorTypes, ActorOK
  <2>2. faults' \in 0 .. MaxFaults
    BY <1>2, FaultType DEF StalledCheck, ActorTypes, ActorOK
  <2> QED BY <1>2, <2>1, <2>2 DEF StalledCheck, ActorTypes, ActorOK, actorVars
<1>3. ASSUME NEW w \in Workers, Crash(w) PROVE ActorOK'
  <2>1. faults' \in 0 .. MaxFaults
    BY <1>3, FaultType DEF Crash, ActorTypes, ActorOK
  <2>2. /\ pc' = [pc EXCEPT ![w] = "idle"] /\ item' = [item EXCEPT ![w] = NoItem]
        /\ UNCHANGED <<queue, human, active, op, copy, stored>>
    BY <1>3 DEF Crash
  <2> QED
    BY <2>1, <2>2 DEF ActorTypes, ActorOK, QueueTypeOK, QueueInv, Actors
<1>4. CASE SwitchBot
  BY <1>4 DEF SwitchBot, Charge, queueVars, actorVars, ActorTypes, ActorOK, QueueTypeOK,
              QueueInv
<1> QED BY <1>1, <1>2, <1>3, <1>4
-------------------------------------------------------------------------------
(* Type correctness of what becomes of an item.                            *)

(* The steps that leave the listeners, the buffers and the batches alone.  *)
QuietStep ==
    \/ \E w \in Workers : WorkerStep(w) /\ ~ EmitReceived(w)
    \/ \E c \in Clients : Request(c) \/ ClientStep(c)
    \/ \E m \in Jobs : ReceiveWebhook(m) \/ StalledCheck(m)
    \/ SwitchBot

LEMMA QuietFrame ==
    ASSUME ActorTypes, QuietStep
    PROVE  /\ UNCHANGED replyVars
           /\ \/ UNCHANGED <<human, active, duty>>
              \/ \E h \in BOOLEAN, a \in BOOLEAN : Charge(h, a)
<1>1. \A c \in Actors : copy[c] \in BOOLEAN
  BY DEF ActorTypes, ActorOK
<1>2. /\ human \in BOOLEAN /\ active \in BOOLEAN
      /\ (~ active) \in BOOLEAN /\ \A c \in Clients : (op[c] = "takeover") \in BOOLEAN
  BY DEF ActorTypes, ActorOK
<1>3. ASSUME NEW w \in Workers, WorkerStep(w), ~ EmitReceived(w)
      PROVE  /\ UNCHANGED replyVars
             /\ \/ UNCHANGED <<human, active, duty>>
                \/ Charge(copy[w], active)
  BY <1>3 DEF WorkerStep, FindConversation, TouchConversation, ReloadConversation,
              StoreMessage, SaveLastMessage, ProcessingThrows, AckWebhook, SaveConversation
<1>4. ASSUME NEW c \in Clients, Request(c) \/ ClientStep(c)
      PROVE  /\ UNCHANGED replyVars
             /\ \/ UNCHANGED <<human, active, duty>>
                \/ \E h \in {copy[c], op[c] = "takeover"} : Charge(h, active)
  BY <1>4 DEF Request, ClientStep, WriteConversation, RequestThrows, SaveConversation
<1>5. ASSUME NEW m \in Jobs, ReceiveWebhook(m) \/ StalledCheck(m)
      PROVE  UNCHANGED replyVars /\ UNCHANGED <<human, active, duty>>
  BY <1>5 DEF ReceiveWebhook, StalledCheck, replyVars
<1>6. ASSUME SwitchBot
      PROVE  /\ UNCHANGED replyVars
             /\ \E h \in BOOLEAN, a \in BOOLEAN : Charge(h, a)
  BY <1>2, <1>6 DEF SwitchBot
<1>7. UNCHANGED <<human, active, duty>> \/ \E h \in BOOLEAN, a \in BOOLEAN : Charge(h, a)
  <2>1. ASSUME NEW h \in BOOLEAN, Charge(h, active)
        PROVE  \E g \in BOOLEAN, a \in BOOLEAN : Charge(g, a)
    BY <1>2, <2>1
  <2>2. ASSUME NEW w \in Workers, WorkerStep(w), ~ EmitReceived(w) PROVE <1>7!1 \/ <1>7!2
    BY <1>1, <1>3, <2>1, <2>2 DEF Actors
  <2>3. ASSUME NEW c \in Clients, Request(c) \/ ClientStep(c) PROVE <1>7!1 \/ <1>7!2
    <3>1. copy[c] \in BOOLEAN /\ (op[c] = "takeover") \in BOOLEAN
      BY <1>1, <1>2 DEF Actors
    <3>2. ASSUME NEW h \in {copy[c], op[c] = "takeover"}, Charge(h, active)
          PROVE  <1>7!2
      BY <2>1, <3>1, <3>2
    <3> QED BY <1>4, <2>3, <3>2
  <2> QED BY <1>5, <1>6, <2>2, <2>3 DEF QuietStep
<1>8. UNCHANGED replyVars
  BY <1>3, <1>4, <1>5, <1>6 DEF QuietStep
<1> QED BY <1>7, <1>8

LEMMA QuietReplyOK ==
    ASSUME ActorTypes, QuietStep
    PROVE  ReplyOK'
<1>1. duty' \in [Items -> {"human", "bot", "nobody", "mixed"}]
  BY QuietFrame, ChargeType DEF ActorTypes, ReplyOK
<1> QED BY <1>1, QuietFrame DEF ActorTypes, ReplyOK, replyVars, bufferVars

LEMMA FlushType ==
    ASSUME ReplyOK, NEW w \in Workers, NEW items \in SUBSET Items, Flush(w, items)
    PROVE  /\ stage' \in [Items -> Stages] /\ batches' \in SUBSET Batches
           /\ timer' \in [Workers -> 0 .. BufferDelay] /\ age' \in [Workers -> Nat]
BY ReplyAssumption DEF Flush, ReplyOK, Stages, Batches

LEMMA EmitReplyOK ==
    ASSUME ActorTypes, NEW w \in Workers, EmitReceived(w)
    PROVE  ReplyOK'
BY DEF EmitReceived, InCharge, ActorTypes, ReplyOK, Stages, bufferVars

(* An emitted item is in the memory of a process, and no other is.         *)
HomeInv ==
    \A i \in Items : IF stage[i] = "none" THEN home[i] = NoWorker
                                          ELSE home[i] \in Workers

LEMMA ListenerReplyOK ==
    ASSUME ActorTypes, HomeInv, NEW i \in Items, ListenerStep(i)
    PROVE  ReplyOK'
<1>1. UNCHANGED <<home, answers, duty>>
  BY DEF ListenerStep, CheckTakeover, CheckBot, ListenerThrows, botVars
<1>2. CASE CheckTakeover(i) \/ ListenerThrows(i)
  BY <1>2 DEF CheckTakeover, ListenerThrows, ActorTypes, ReplyOK, Stages, Settled,
              botVars, bufferVars
<1>3. CASE CheckBot(i)
  <2>1. home[i] \in Workers
    BY <1>3 DEF CheckBot, HomeInv
  <2>2. Buffer(home[i]) \cup {i} \in SUBSET Items
    BY DEF Buffer
  <2>3. CASE Flush(home[i], Buffer(home[i]) \cup {i})
    BY <1>1, <2>1, <2>2, <2>3, FlushType DEF ActorTypes, ReplyOK
  <2>4. CASE stage' = [stage EXCEPT ![i] = "declined"] /\ UNCHANGED <<bufferVars, batches>>
    BY <1>1, <2>4 DEF ActorTypes, ReplyOK, Stages, Settled, bufferVars
  <2>5. CASE /\ stage' = [stage EXCEPT ![i] = "buffered"]
             /\ timer' = [timer EXCEPT ![home[i]] = BufferDelay]
             /\ UNCHANGED <<age, batches>>
    BY <1>1, <2>1, <2>5, ReplyAssumption DEF ActorTypes, ReplyOK, Stages
  <2> QED BY <1>3, <2>3, <2>4, <2>5 DEF CheckBot, AddToBuffer
<1> QED BY <1>2, <1>3 DEF ListenerStep

LEMMA TimerReplyOK ==
    ASSUME ActorTypes, Tick \/ \E w \in Workers : FlushDue(w)
    PROVE  ReplyOK'
<1>1. CASE Tick
  BY <1>1, ReplyAssumption DEF Tick, ActorTypes, ReplyOK, botVars
<1>2. ASSUME NEW w \in Workers, FlushDue(w) PROVE ReplyOK'
  <2>1. Buffer(w) \in SUBSET Items
    BY DEF Buffer
  <2> QED BY <1>2, <2>1, FlushType DEF FlushDue, ActorTypes, ReplyOK, botVars
<1> QED BY <1>1, <1>2

(* What the steps of a batch may do.                                       *)
LEMMA BatchCases ==
    ASSUME NEW b, BatchStep(b)
    PROVE  /\ UNCHANGED <<queueVars, botVars, home, bufferVars>>
           /\ \/ /\ \E at \in {"model", "send", "apologise"} : Advance(b, at)
                 /\ b.at # "apologise" /\ UNCHANGED <<stage, answers>>
              \/ b.at = "send" /\ Advance(b, "apologise") /\ UNCHANGED stage
                 /\ Answered(b)
              \/ b.at = "send" /\ Settle(b, "answered") /\ Answered(b)
              \/ Settle(b, "apologised") /\ UNCHANGED answers
              \/ b.at = "bot" /\ ~ active /\ Settle(b, "declined") /\ UNCHANGED answers
BY DEF BatchStep, FindBot, AskModel, SendAnswer, Apologise, BatchThrows, batchFrame

LEMMA BatchTypes ==
    ASSUME ReplyOK, NEW b \in batches
    PROVE  /\ b.items \in SUBSET Items
           /\ \A at \in {"model", "send", "apologise"} :
                 /\ [b EXCEPT !.at = at] \in Batches
                 /\ [b EXCEPT !.at = at].items = b.items
                 /\ [b EXCEPT !.at = at].at = at
BY DEF ReplyOK, Batches

LEMMA BatchReplyOK ==
    ASSUME ActorTypes, NEW b \in batches, BatchStep(b)
    PROVE  ReplyOK'
<1>1. batches' \in SUBSET Batches
  <2>1. ASSUME NEW at \in {"model", "send", "apologise"}, Advance(b, at)
        PROVE  batches' \in SUBSET Batches
    <3>1. [b EXCEPT !.at = at] \in Batches
      BY BatchTypes DEF ActorTypes
    <3>2. batches \in SUBSET Batches
      BY DEF ActorTypes, ReplyOK
    <3> QED BY <2>1, <3>1, <3>2 DEF Advance
  <2>2. ASSUME NEW o, Settle(b, o) PROVE batches' \in SUBSET Batches
    BY <2>2 DEF Settle, ActorTypes, ReplyOK
  <2> QED BY <2>1, <2>2, BatchCases
<1>2. stage' \in [Items -> Stages]
  BY BatchCases DEF Settle, ActorTypes, ReplyOK, Stages, Settled
<1>3. answers' \in [Items -> Nat]
  BY BatchCases DEF Answered, ActorTypes, ReplyOK
<1> QED BY <1>1, <1>2, <1>3, BatchCases DEF ActorTypes, ReplyOK, bufferVars, botVars

LEMMA CrashReplyOK ==
    ASSUME ActorTypes, NEW w \in Workers, Crash(w)
    PROVE  ReplyOK'
BY ReplyAssumption DEF Crash, ActorTypes, ReplyOK, Stages, Settled

(* The remaining steps, by what they do to the items.                      *)
LEMMA ListenerCases ==
    ASSUME NEW i \in Items, ListenerStep(i)
    PROVE  /\ UNCHANGED <<queueVars, botVars, home, answers>>
           /\ stage[i] \in {"received", "checked"}
           /\ \/ /\ \/ stage[i] = "received" /\ human
                       /\ stage' = [stage EXCEPT ![i] = "declined"]
                    \/ stage[i] = "received" /\ ~ human
                       /\ stage' = [stage EXCEPT ![i] = "checked"]
                    \/ stage[i] = "checked" /\ ~ active
                       /\ stage' = [stage EXCEPT ![i] = "declined"]
                    \/ stage' = [stage EXCEPT ![i] = "failed"]
                 /\ UNCHANGED <<bufferVars, batches>>
              \/ stage[i] = "checked" /\ AddToBuffer(home[i], i)
BY DEF ListenerStep, CheckTakeover, CheckBot, ListenerThrows

(* No item is in two batches.                                              *)
BatchInv ==
    /\ \A b \in batches : \A i \in b.items : stage[i] = "flushed"
    /\ \A b, c \in batches : (\E i \in b.items : i \in c.items) => b = c

(* The item of a consumer has not been emitted before.                     *)
FreshInv ==
    \A w \in Workers :
        pc[w] \in {"touch", "reload", "store", "save", "emit"} =>
            item[w] \in Items /\ stage[item[w]] = "none"

FlushInv(w, items) ==
    \A i \in items : stage[i] = "checked" \/ i \in Buffer(w)

LEMMA FlushBatchInv ==
    ASSUME ActorTypes, BatchInv, NEW w \in Workers, NEW items \in SUBSET Items,
           FlushInv(w, items), Flush(w, items)
    PROVE  BatchInv'
<1>1. \A i \in items : stage[i] # "flushed"
  BY DEF FlushInv, Buffer
<1>2. \A i \in Items : stage'[i] = IF i \in items THEN "flushed" ELSE stage[i]
  BY DEF Flush
<1>3. batches' = batches \cup {[items |-> items, at |-> "bot"]}
  BY DEF Flush
<1>4. \A b \in batches : b.items \in SUBSET Items
  BY BatchTypes DEF ActorTypes
<1> QED BY <1>1, <1>2, <1>3, <1>4 DEF BatchInv

LEMMA StepBatchInv ==
    ASSUME ActorTypes, HomeInv, BatchInv, FreshInv, Next
    PROVE  BatchInv'
<1>0. \A b \in batches : b.items \in SUBSET Items
  BY BatchTypes DEF ActorTypes
<1>1. CASE QuietStep
  BY <1>1, QuietFrame DEF BatchInv, replyVars
<1>2. ASSUME NEW w \in Workers, EmitReceived(w) PROVE BatchInv'
  <2>1. stage[item[w]] = "none"
    BY <1>2 DEF EmitReceived, Goto, FreshInv
  <2> QED BY <1>0, <1>2, <2>1 DEF EmitReceived, BatchInv, ActorTypes, ReplyOK
<1>3. ASSUME NEW i \in Items, ListenerStep(i) PROVE BatchInv'
  <2>1. CASE UNCHANGED batches
    <3>1. \A j \in Items : stage[j] = "flushed" => stage'[j] = "flushed"
      BY <1>3, ListenerCases DEF AddToBuffer, Flush, ActorTypes, ReplyOK
    <3> QED BY <1>0, <2>1, <3>1 DEF BatchInv
  <2>2. CASE stage[i] = "checked" /\ AddToBuffer(home[i], i) /\ batches' # batches
    <3>1. home[i] \in Workers
      BY <2>2 DEF HomeInv
    <3>2. Flush(home[i], Buffer(home[i]) \cup {i})
      BY <2>2 DEF AddToBuffer
    <3>3. FlushInv(home[i], Buffer(home[i]) \cup {i})
      BY <2>2 DEF FlushInv
    <3>4. Buffer(home[i]) \cup {i} \in SUBSET Items
      BY DEF Buffer
    <3> QED BY <3>1, <3>2, <3>3, <3>4, FlushBatchInv
  <2> QED BY <1>3, <2>1, <2>2, ListenerCases
<1>4. CASE Tick
  BY <1>4 DEF Tick, BatchInv
<1>5. ASSUME NEW w \in Workers, FlushDue(w) PROVE BatchInv'
  <2>1. Buffer(w) \in SUBSET Items /\ FlushInv(w, Buffer(w))
    BY DEF Buffer, FlushInv
  <2> QED BY <1>5, <2>1, FlushBatchInv DEF FlushDue
<1>6. ASSUME NEW b \in batches, BatchStep(b) PROVE BatchInv'
  <2>1. ASSUME NEW at \in {"model", "send", "apologise"}, Advance(b, at),
               UNCHANGED stage
        PROVE  BatchInv'
    <3>1. [b EXCEPT !.at = at].items = b.items
      BY BatchTypes DEF ActorTypes
    <3>2. \A c \in batches' : c = [b EXCEPT !.at = at] \/ (c \in batches /\ c # b)
      BY <2>1 DEF Advance
    <3> QED BY <2>1, <3>1, <3>2 DEF BatchInv
  <2>2. ASSUME NEW o, Settle(b, o) PROVE BatchInv'
    <3>1. \A c \in batches' : c \in batches /\ c # b
      BY <2>2 DEF Settle
    <3>2. \A c \in batches' : \A i \in c.items : i \in Items /\ i \notin b.items
      BY <1>0, <3>1 DEF BatchInv
    <3> QED BY <2>2, <3>1, <3>2 DEF Settle, BatchInv
  <2> QED BY <1>6, <2>1, <2>2, BatchCases
<1>7. ASSUME NEW w \in Workers, Crash(w) PROVE BatchInv'
  BY <1>0, <1>7 DEF Crash, BatchInv
<1> QED BY <1>1, <1>2, <1>3, <1>4, <1>5, <1>6, <1>7 DEF Next, QuietStep

(* The stage of an item changes only after it has been emitted.            *)
LEMMA StageFrame ==
    ASSUME ActorTypes, HomeInv, BatchInv, Next,
           \A w \in Workers : ~ EmitReceived(w)
    PROVE  \A i \in Items : stage[i] = "none" <=> stage'[i] = "none"
<1>1. CASE QuietStep
  BY <1>1, QuietFrame DEF replyVars
<1>2. ASSUME NEW i \in Items, ListenerStep(i)
      PROVE  \A j \in Items : stage'[j] = "none" <=> stage[j] = "none"
  BY <1>2, ListenerCases DEF AddToBuffer, Flush, Buffer, ActorTypes, ReplyOK
<1>3. CASE Tick
  BY <1>3 DEF Tick
<1>4. ASSUME NEW w \in Workers, FlushDue(w)
      PROVE  \A j \in Items : stage'[j] = "none" <=> stage[j] = "none"
  BY <1>4 DEF FlushDue, Flush, Buffer
<1>5. ASSUME NEW b \in batches, BatchStep(b)
      PROVE  \A j \in Items : stage'[j] = "none" <=> stage[j] = "none"
  BY <1>5, BatchCases DEF Settle, BatchInv
<1>6. ASSUME NEW w \in Workers, Crash(w)
      PROVE  \A j \in Items : stage'[j] = "none" <=> stage[j] = "none"
  BY <1>6, QueueAssumption DEF Crash, HomeInv, Settled
<1> QED BY <1>1, <1>2, <1>3, <1>4, <1>5, <1>6 DEF Next, QuietStep

LEMMA StepHomeInv ==
    ASSUME ActorTypes, HomeInv, BatchInv, FreshInv, Next
    PROVE  HomeInv'
<1>1. ASSUME NEW w \in Workers, EmitReceived(w) PROVE HomeInv'
  BY <1>1 DEF EmitReceived, HomeInv, ActorTypes, ReplyOK
<1>2. CASE \A w \in Workers : ~ EmitReceived(w)
  <2>1. UNCHANGED home
    <3>1. CASE QuietStep
      BY <3>1, QuietFrame DEF replyVars
    <3>2. CASE ReplyStep
      BY <3>2, ReplyFrame
    <3>3. ASSUME NEW w \in Workers, Crash(w) PROVE UNCHANGED home
      BY <3>3 DEF Crash
    <3> QED BY <1>2, <3>1, <3>2, <3>3 DEF Next, QuietStep, ReplyStep
  <2> QED BY <1>2, <2>1, StageFrame DEF HomeInv
<1> QED BY <1>1, <1>2

-------------------------------------------------------------------------------
(* An item is the run of its message with as many stalls as the entry had  *)
(* when it was taken: no two consumers, and no two runs, have the same.    *)

(* The run of an item is a stall ago, or it has the lock of the entry.     *)
Runs(w, m, n) ==
    /\ n =< queue[m].stalls
    /\ n = queue[m].stalls => queue[m].state = "active" /\ queue[m].owner = w
Ran(m, n) ==
    /\ n =< queue[m].stalls
    /\ n = queue[m].stalls => queue[m].state \in {"active", "removed", "failed"}

RunInv ==
    /\ \A w \in Workers, m \in Jobs, n \in 0 .. MaxStalls :
           item[w] = <<m, n>> => Runs(w, m, n)
    /\ \A m \in Jobs, n \in 0 .. MaxStalls : stage[<<m, n>>] # "none" => Ran(m, n)
    /\ \A v, w \in Workers : item[v] = item[w] /\ item[v] # NoItem => v = w

LEMMA ItemPair ==
    /\ \A m \in Jobs, n \in 0 .. MaxStalls : <<m, n>> \in Items
    /\ \A i \in Items : \E m \in Jobs, n \in 0 .. MaxStalls : i = <<m, n>>
BY DEF Items

LEMMA QueueTypes ==
    ASSUME ActorTypes, NEW m \in Jobs
    PROVE  queue[m].stalls \in 0 .. MaxStalls + 1
BY DEF ActorTypes, ActorOK, QueueTypeOK, Entry

LEMMA StageRunInv ==
    ASSUME ActorTypes, RunInv, UNCHANGED queue,
           \A i \in Items : stage[i] = "none" <=> stage'[i] = "none",
           \A w \in Workers : item'[w] \in {item[w], NoItem}
    PROVE  RunInv'
<1>1. \A m \in Jobs, n \in 0 .. MaxStalls : <<m, n>> # NoItem
  BY ItemPair, ReplyAssumption
<1>2. \A w \in Workers, m \in Jobs, n \in 0 .. MaxStalls :
          /\ Runs(w, m, n)' <=> Runs(w, m, n)
          /\ Ran(m, n)' <=> Ran(m, n)
          /\ item'[w] = <<m, n>> => item[w] = <<m, n>>
  BY <1>1 DEF Runs, Ran
<1>3. \A m \in Jobs, n \in 0 .. MaxStalls : stage'[<<m, n>>] # "none" => Ran(m, n)'
  BY ItemPair DEF RunInv, Ran
<1>4. \A v, w \in Workers : item'[v] = item'[w] /\ item'[v] # NoItem => v = w
  BY DEF RunInv
<1> QED BY <1>2, <1>3, <1>4 DEF RunInv

LEMMA StepRunInv ==
    ASSUME ActorTypes, HomeInv, BatchInv, FreshInv, RunInv, Next
    PROVE  RunInv'
<1>0. \A m \in Jobs, n \in 0 .. MaxStalls : <<m, n>> # NoItem
  BY ItemPair, ReplyAssumption
<1>1. ASSUME NEW w \in Workers, NEW m \in Jobs, FindConversation(w, m) PROVE RunInv'
  <2> DEFINE s == queue[m].stalls
  <2>1. /\ queue[m].state = "waiting" /\ pc[w] = "idle"
        /\ queue' = [queue EXCEPT ![m].state = "active", ![m].owner = w]
        /\ item' = [item EXCEPT ![w] = <<m, s>>] /\ stage' = stage
    BY <1>1 DEF FindConversation, Take, Move, Goto, replyVars
  <2>2. /\ queue'[m].state = "active" /\ queue'[m].owner = w /\ queue'[m].stalls = s
        /\ \A k \in Jobs \ {m} : queue'[k] = queue[k]
    BY <2>1 DEF ActorTypes, ActorOK, QueueTypeOK, Entry
  <2>3. \A v \in Workers : item'[v] = IF v = w THEN <<m, s>> ELSE item[v]
    BY <2>1 DEF ActorTypes, ActorOK
  <2>4. \A v \in Workers : item[v] # <<m, s>>
    <3>1. s \in 0 .. MaxStalls
      BY <2>1, QueueTypes, QueueAssumption DEF ActorTypes, ActorOK, QueueInv
    <3> QED BY <2>1, <3>1 DEF RunInv, Runs
  <2>5. s \in Int
    BY QueueTypes, QueueAssumption
  <2> HIDE DEF s
  <2>6. ASSUME NEW v \in Workers, NEW k \in Jobs, NEW n \in 0 .. MaxStalls,
               item'[v] = <<k, n>>
        PROVE  Runs(v, k, n)'
    <3>1. CASE v = w
      <4>1. <<k, n>> = <<m, s>>
        BY <2>3, <2>6, <3>1
      <4>2. k = m /\ n = s
        BY <4>1
      <4> QED BY <2>2, <2>5, <3>1, <4>2 DEF Runs
    <3>2. CASE v # w
      <4>1. item[v] = <<k, n>> /\ Runs(v, k, n)
        BY <2>3, <2>6, <3>2 DEF RunInv
      <4>2. CASE k = m
        BY <2>1, <2>2, <2>5, <4>1, <4>2 DEF Runs, s
      <4>3. CASE k # m
        BY <2>2, <4>1, <4>3 DEF Runs
      <4> QED BY <4>2, <4>3
    <3> QED BY <3>1, <3>2
  <2>7. ASSUME NEW k \in Jobs, NEW n \in 0 .. MaxStalls, stage'[<<k, n>>] # "none"
        PROVE  Ran(k, n)'
    <3>1. Ran(k, n)
      BY <2>1, <2>7 DEF RunInv
    <3>2. CASE k = m
      BY <2>2, <3>1, <3>2 DEF Ran, s
    <3>3. CASE k # m
      BY <2>2, <3>1, <3>3 DEF Ran
    <3> QED BY <3>2, <3>3
  <2>8. \A u, v \in Workers : item'[u] = item'[v] /\ item'[u] # NoItem => u = v
    BY <2>3, <2>4 DEF RunInv
  <2> QED BY <2>6, <2>7, <2>8 DEF RunInv
<1>2. ASSUME NEW w \in Workers, EmitReceived(w) PROVE RunInv'
  <2>1. item[w] \in Items /\ UNCHANGED <<queue, item>>
    BY <1>2 DEF EmitReceived, Goto, ActorTypes, ActorOK
  <2>2. \A i \in Items : stage'[i] = IF i = item[w] THEN "received" ELSE stage[i]
    BY <1>2 DEF EmitReceived, ActorTypes, ReplyOK
  <2>3. ASSUME NEW m \in Jobs, NEW n \in 0 .. MaxStalls, stage'[<<m, n>>] # "none"
        PROVE  Ran(m, n)'
    <3>1. UNCHANGED queue
      BY <2>1
    <3>2. CASE item[w] = <<m, n>>
      BY <3>1, <3>2 DEF RunInv, Runs, Ran
    <3>3. CASE item[w] # <<m, n>>
      BY <2>2, <2>3, <3>1, <3>3, ItemPair DEF RunInv, Ran
    <3> QED BY <3>2, <3>3
  <2>4. \A v \in Workers, m \in Jobs, n \in 0 .. MaxStalls :
           item'[v] = <<m, n>> => Runs(v, m, n)'
    BY <2>1 DEF RunInv, Runs
  <2>5. \A u, v \in Workers : item'[u] = item'[v] /\ item'[u] # NoItem => u = v
    BY <2>1 DEF RunInv
  <2> QED BY <2>3, <2>4, <2>5 DEF RunInv
<1>3. ASSUME NEW w \in Workers, AckWebhook(w) PROVE RunInv'
  <2> DEFINE m == item[w][1]
  <2>1. /\ item[w] \in Items /\ m \in Jobs /\ Finish(w, m)
        /\ item' = [item EXCEPT ![w] = NoItem] /\ stage' = stage
    BY <1>3 DEF AckWebhook, Goto, Items, ActorTypes, ActorOK, replyVars
  <2>2. \A v \in Workers : item'[v] = IF v = w THEN NoItem ELSE item[v]
    BY <2>1 DEF ActorTypes, ActorOK
  <2>3. CASE UNCHANGED queue
    BY <1>3, <2>1, <2>2, <2>3, StageRunInv
  <2>4. CASE /\ Holds(w, m)
             /\ queue' = [queue EXCEPT ![m].state = "removed", ![m].owner = NoWorker,
                                       ![m].tries = @ + 1]
    <3>1. /\ queue[m].owner = w /\ queue'[m].state = "removed"
          /\ queue'[m].stalls = queue[m].stalls
          /\ \A k \in Jobs \ {m} : queue'[k] = queue[k]
      BY <2>1, <2>4 DEF Holds, ActorTypes, ActorOK, QueueTypeOK, Entry
    <3> HIDE DEF m
    <3>2. ASSUME NEW v \in Workers, NEW k \in Jobs, NEW n \in 0 .. MaxStalls,
                 item'[v] = <<k, n>>
          PROVE  Runs(v, k, n)'
      <4>1. v # w /\ item[v] = <<k, n>>
        BY <1>0, <2>2, <3>2
      <4>2. Runs(v, k, n)
        BY <4>1 DEF RunInv
      <4> QED BY <3>1, <4>1, <4>2 DEF Runs
    <3>3. ASSUME NEW k \in Jobs, NEW n \in 0 .. MaxStalls, stage'[<<k, n>>] # "none"
          PROVE  Ran(k, n)'
      <4>1. Ran(k, n)
        BY <2>1, <3>3 DEF RunInv
      <4> QED BY <3>1, <4>1 DEF Ran
    <3>4. \A u, v \in Workers : item'[u] = item'[v] /\ item'[u] # NoItem => u = v
      BY <2>2 DEF RunInv
    <3> QED BY <3>2, <3>3, <3>4 DEF RunInv
  <2> QED BY <2>1, <2>3, <2>4 DEF Finish, EndAttempt
<1>4. ASSUME NEW m \in Jobs, ReceiveWebhook(m) \/ StalledCheck(m) PROVE RunInv'
  <2>1. UNCHANGED <<item, stage>>
    BY <1>4 DEF ReceiveWebhook, StalledCheck, replyVars, actorVars
  <2>2. \A k \in Jobs \ {m} : queue'[k] = queue[k]
    BY <1>4 DEF ReceiveWebhook, StalledCheck, Add, Move, Stall, ActorTypes, ActorOK,
                QueueTypeOK
  <2>3. ASSUME queue[m].state = "absent", queue'[m].stalls = queue[m].stalls
        PROVE  \A v \in Workers, n \in 0 .. MaxStalls :
                   /\ Runs(v, m, n) => Runs(v, m, n)'
                   /\ Ran(m, n) => Ran(m, n)'
    BY <2>3 DEF Runs, Ran
  <2>4. ASSUME queue'[m].stalls = queue[m].stalls + 1
        PROVE  \A v \in Workers, n \in 0 .. MaxStalls :
                   /\ Runs(v, m, n) => Runs(v, m, n)'
                   /\ Ran(m, n) => Ran(m, n)'
    BY <2>4, QueueTypes, QueueAssumption DEF Runs, Ran
  <2>5. ReceiveWebhook(m) => queue[m].state = "absent" /\ queue'[m].stalls = queue[m].stalls
    BY DEF ReceiveWebhook, Add, Move, ActorTypes, ActorOK, QueueTypeOK, Entry
  <2>6. StalledCheck(m) => queue'[m].stalls = queue[m].stalls + 1
    BY DEF StalledCheck, Stall, ActorTypes, ActorOK, QueueTypeOK, Entry
  <2>7. \A k \in Jobs, v \in Workers, n \in 0 .. MaxStalls :
            /\ Runs(v, k, n) => Runs(v, k, n)'
            /\ Ran(k, n) => Ran(k, n)'
    <3>1. \A k \in Jobs \ {m}, v \in Workers, n \in 0 .. MaxStalls :
              /\ Runs(v, k, n) => Runs(v, k, n)'
              /\ Ran(k, n) => Ran(k, n)'
      BY <2>2 DEF Runs, Ran
    <3> QED BY <1>4, <2>3, <2>4, <2>5, <2>6, <3>1
  <2>8. \A k \in Jobs, n \in 0 .. MaxStalls : stage'[<<k, n>>] # "none" => Ran(k, n)'
    <3>1. ASSUME NEW k \in Jobs, NEW n \in 0 .. MaxStalls, stage'[<<k, n>>] # "none",
                 NEW v \in Workers
          PROVE  Ran(k, n)'
      BY <2>1, <2>7, <3>1 DEF RunInv
    <3>2. ASSUME NEW k \in Jobs, NEW n \in 0 .. MaxStalls, stage'[<<k, n>>] # "none"
          PROVE  \E v \in Workers : TRUE
      BY <2>1, <3>2, ItemPair DEF HomeInv
    <3> QED BY <3>1, <3>2
  <2> QED BY <2>1, <2>7, <2>8 DEF RunInv
<1>5. CASE /\ UNCHANGED queue /\ \A w \in Workers : item'[w] \in {item[w], NoItem}
           /\ \A w \in Workers : ~ EmitReceived(w)
  BY <1>5, StageFrame, StageRunInv
<1>6. ASSUME NEW w \in Workers, WorkerStep(w), ~ EmitReceived(w), ~ AckWebhook(w),
             \A m \in Jobs : ~ FindConversation(w, m)
      PROVE  UNCHANGED <<queue, item, stage>>
  BY <1>6 DEF WorkerStep, TouchConversation, ReloadConversation, StoreMessage,
              SaveLastMessage, ProcessingThrows, replyVars
<1>7. ASSUME NEW c \in Clients, Request(c) \/ ClientStep(c)
      PROVE  UNCHANGED <<queue, item, stage>>
  BY <1>7 DEF Request, ClientStep, WriteConversation, RequestThrows, replyVars
<1>8. SwitchBot => UNCHANGED <<queue, item, stage>>
  BY DEF SwitchBot, queueVars, actorVars, replyVars
<1>9. CASE UNCHANGED <<queue, item, stage>>
  BY <1>9, StageRunInv
<1>10. ASSUME ReplyStep \/ \E w \in Workers : Crash(w)
       PROVE  UNCHANGED queue /\ \A w \in Workers : item'[w] \in {item[w], NoItem}
  BY <1>10, ReplyFrame DEF Crash, queueVars, actorVars, ActorTypes, ActorOK
<1> QED
  BY <1>1, <1>2, <1>3, <1>4, <1>5, <1>6, <1>7, <1>8, <1>9, <1>10
     DEF Next, WorkerStep, ReplyStep

LEMMA StepFreshInv ==
    ASSUME ActorTypes, HomeInv, BatchInv, FreshInv, RunInv, Next
    PROVE  FreshInv'
<1> USE DEF Goto
<1>1. ASSUME NEW w \in Workers, NEW m \in Jobs, FindConversation(w, m) PROVE FreshInv'
  <2>1. /\ queue[m].state = "waiting" /\ queue[m].stalls \in 0 .. MaxStalls
        /\ pc' = [pc EXCEPT ![w] = "touch"] /\ stage' = stage
        /\ item' = [item EXCEPT ![w] = <<m, queue[m].stalls>>]
    BY <1>1, QueueTypes, QueueAssumption
       DEF FindConversation, Take, replyVars, ActorTypes, ActorOK, QueueInv
  <2>2. <<m, queue[m].stalls>> \in Items /\ stage[<<m, queue[m].stalls>>] = "none"
    BY <2>1, ItemPair DEF RunInv, Ran
  <2> QED BY <2>1, <2>2 DEF FreshInv, ActorTypes, ActorOK, Actors
<1>2. ASSUME NEW w \in Workers, EmitReceived(w) PROVE FreshInv'
  <2>1. /\ pc' = [pc EXCEPT ![w] = "ack"] /\ stage' = [stage EXCEPT ![item[w]] = "received"]
        /\ item' = item
    BY <1>2 DEF EmitReceived
  <2>2. \A v \in Workers : v # w /\ pc[v] \in {"touch", "reload", "store", "save", "emit"}
                              => item[v] # item[w]
    BY ReplyAssumption DEF FreshInv, RunInv
  <2> QED BY <2>1, <2>2 DEF FreshInv, ActorTypes, ActorOK, ReplyOK, Actors
<1>3. ASSUME NEW w \in Workers, WorkerStep(w), ~ EmitReceived(w),
             \A m \in Jobs : ~ FindConversation(w, m)
      PROVE  FreshInv'
  <2>1. CASE AckWebhook(w)
    <3>1. /\ pc' = [pc EXCEPT ![w] = "idle"] /\ item' = [item EXCEPT ![w] = NoItem]
          /\ stage' = stage
      BY <2>1 DEF AckWebhook, replyVars
    <3> QED BY <3>1 DEF FreshInv, ActorTypes, ActorOK, Actors
  <2>2. CASE ~ AckWebhook(w)
    <3>1. /\ pc[w] \in {"touch", "reload", "store", "save", "emit"}
          /\ \E p \in {"reload", "store", "save", "emit", "ack"} :
                 pc' = [pc EXCEPT ![w] = p]
          /\ UNCHANGED <<item, stage>>
      BY <1>3, <2>2 DEF WorkerStep, TouchConversation, ReloadConversation, StoreMessage,
                   SaveLastMessage, ProcessingThrows, replyVars
    <3> QED BY <3>1 DEF FreshInv, ActorTypes, ActorOK, Actors
  <2> QED BY <2>1, <2>2
<1>4. ASSUME NEW c \in Clients, Request(c) \/ ClientStep(c) PROVE FreshInv'
  <2>1. /\ \E p \in {"save", "done"} : pc' = [pc EXCEPT ![c] = p]
        /\ UNCHANGED <<item, stage>>
    BY <1>4 DEF Request, ClientStep, WriteConversation, RequestThrows, replyVars
  <2> QED BY <2>1, ReplyAssumption DEF FreshInv, ActorTypes, ActorOK, Actors
<1>5. ASSUME \/ SwitchBot \/ ReplyStep
             \/ \E m \in Jobs : ReceiveWebhook(m) \/ StalledCheck(m)
      PROVE  FreshInv'
  <2>1. UNCHANGED <<pc, item>>
    BY <1>5, ReplyFrame DEF SwitchBot, ReceiveWebhook, StalledCheck, queueVars, actorVars
  <2>2. \A w \in Workers : ~ EmitReceived(w)
    <3>1. ASSUME NEW w \in Workers, EmitReceived(w) PROVE pc'[w] # pc[w]
      BY <3>1 DEF EmitReceived, ActorTypes, ActorOK, Actors
    <3> QED BY <2>1, <3>1
  <2> QED BY <2>1, <2>2, StageFrame DEF FreshInv
<1>6. ASSUME NEW w \in Workers, Crash(w) PROVE FreshInv'
  <2>1. pc' = [pc EXCEPT ![w] = "idle"] /\ item' = [item EXCEPT ![w] = NoItem]
    BY <1>6 DEF Crash
  <2>2. \A i \in Items : stage[i] = "none" => stage'[i] = "none"
    BY <1>6, QueueAssumption DEF Crash, HomeInv
  <2> QED BY <2>1, <2>2 DEF FreshInv, ActorTypes, ActorOK, Actors
<1> QED
  BY <1>1, <1>2, <1>3, <1>4, <1>5, <1>6 DEF Next, WorkerStep, ReplyStep

-------------------------------------------------------------------------------
(* The buffers.                                                            *)

BufferInv ==
    \A w \in Workers :
        IF Buffer(w) = {} THEN timer[w] = 0 /\ age[w] = 0
                          ELSE age[w] + timer[w] < MaxBufferTime + BufferDelay

LEMMA BufferFrame ==
    ASSUME NEW w, \A i \in Items : /\ stage'[i] = "buffered" /\ home'[i] = w
                                   <=> stage[i] = "buffered" /\ home[i] = w
    PROVE  Buffer(w)' = Buffer(w)
BY DEF Buffer

LEMMA SameBuffers ==
    ASSUME BufferInv, UNCHANGED bufferVars,
           \A i \in Items, w \in Workers : /\ stage'[i] = "buffered" /\ home'[i] = w
                                           <=> stage[i] = "buffered" /\ home[i] = w
    PROVE  BufferInv'
<1>1. \A w \in Workers : Buffer(w)' = Buffer(w)
  BY BufferFrame
<1> QED BY <1>1 DEF BufferInv, bufferVars

LEMMA FlushBufferInv ==
    ASSUME ActorTypes, BufferInv, UNCHANGED home, NEW w \in Workers, NEW items,
           Buffer(w) \subseteq items, Flush(w, items),
           \A i \in items : i \in Items /\ (stage[i] = "buffered" => home[i] = w)
    PROVE  BufferInv'
<1>1. \A i \in Items : stage'[i] = IF i \in items THEN "flushed" ELSE stage[i]
  BY DEF Flush
<1>2. Buffer(w)' = {}
  BY <1>1 DEF Buffer
<1>3. \A v \in Workers \ {w} : Buffer(v)' = Buffer(v)
  BY <1>1 DEF Buffer
<1>4. timer' = [timer EXCEPT ![w] = 0] /\ age' = [age EXCEPT ![w] = 0]
  BY DEF Flush
<1> QED BY <1>2, <1>3, <1>4 DEF BufferInv, ActorTypes, ReplyOK

LEMMA StepBufferInv ==
    ASSUME ActorTypes, HomeInv, BatchInv, FreshInv, BufferInv, Next
    PROVE  BufferInv'
<1>1. CASE QuietStep
  BY <1>1, QuietFrame, SameBuffers DEF replyVars
<1>2. ASSUME NEW w \in Workers, EmitReceived(w) PROVE BufferInv'
  <2>1. /\ stage[item[w]] = "none" /\ UNCHANGED bufferVars
        /\ \A i \in Items : i # item[w] => stage'[i] = stage[i] /\ home'[i] = home[i]
        /\ stage'[item[w]] = "received"
    BY <1>2 DEF EmitReceived, Goto, FreshInv, ActorTypes, ReplyOK
  <2> QED BY <2>1, SameBuffers
<1>3. ASSUME NEW i \in Items, ListenerStep(i) PROVE BufferInv'
  <2>1. ASSUME NEW t \in {"declined", "checked", "failed"},
               stage' = [stage EXCEPT ![i] = t], UNCHANGED bufferVars
        PROVE  BufferInv'
    <3>1. stage[i] # "buffered" /\ UNCHANGED home
      BY <1>3, ListenerCases
    <3>2. \A j \in Items : stage'[j] = IF j = i THEN t ELSE stage[j]
      BY <2>1 DEF ActorTypes, ReplyOK
    <3>3. \A j \in Items : stage'[j] = "buffered" <=> stage[j] = "buffered"
      BY <3>1, <3>2
    <3> QED BY <2>1, <3>1, <3>3, SameBuffers
  <2>2. CASE stage[i] = "checked" /\ AddToBuffer(home[i], i)
    <3>1. home[i] \in Workers /\ UNCHANGED home
      BY <1>3, <2>2, ListenerCases DEF HomeInv
    <3>2. CASE age[home[i]] >= MaxBufferTime
      <4>1. Flush(home[i], Buffer(home[i]) \cup {i})
        BY <2>2, <3>2 DEF AddToBuffer
      <4>2. \A j \in Buffer(home[i]) \cup {i} :
                j \in Items /\ (stage[j] = "buffered" => home[j] = home[i])
        BY DEF Buffer
      <4> QED BY <3>1, <4>1, <4>2, FlushBufferInv
    <3>3. CASE ~ (age[home[i]] >= MaxBufferTime)
      <4>1. /\ stage' = [stage EXCEPT ![i] = "buffered"]
            /\ timer' = [timer EXCEPT ![home[i]] = BufferDelay] /\ age' = age
        BY <2>2, <3>3 DEF AddToBuffer
      <4>2. \A v \in Workers \ {home[i]} : Buffer(v)' = Buffer(v)
        BY <2>2, <3>1, <4>1 DEF Buffer, ActorTypes, ReplyOK
      <4>3. age[home[i]] + BufferDelay < MaxBufferTime + BufferDelay
        BY <3>1, <3>3, ReplyAssumption DEF ActorTypes, ReplyOK
      <4>4. i \in Buffer(home[i])'
        BY <3>1, <4>1 DEF Buffer, ActorTypes, ReplyOK
      <4>5. ASSUME NEW v \in Workers
            PROVE  IF Buffer(v)' = {} THEN timer'[v] = 0 /\ age'[v] = 0
                   ELSE age'[v] + timer'[v] < MaxBufferTime + BufferDelay
        <5>1. CASE v = home[i]
          BY <3>1, <4>1, <4>3, <4>4, <5>1 DEF ActorTypes, ReplyOK
        <5>2. CASE v # home[i]
          BY <3>1, <4>1, <4>2, <5>2 DEF BufferInv, ActorTypes, ReplyOK
        <5> QED BY <5>1, <5>2
      <4> QED BY <4>5 DEF BufferInv
    <3> QED BY <3>2, <3>3
  <2>3. ASSUME ~ (stage[i] = "checked" /\ AddToBuffer(home[i], i))
        PROVE  /\ UNCHANGED bufferVars
               /\ \E t \in {"declined", "checked", "failed"} :
                      stage' = [stage EXCEPT ![i] = t]
    BY <1>3, <2>3, ListenerCases
  <2> QED BY <2>1, <2>2, <2>3
<1>4. CASE Tick
  <2>1. \A w \in Workers : Buffer(w)' = Buffer(w)
    BY <1>4, BufferFrame DEF Tick
  <2>2. ASSUME NEW w \in Workers
        PROVE  IF Buffer(w)' = {} THEN timer'[w] = 0 /\ age'[w] = 0
               ELSE age'[w] + timer'[w] < MaxBufferTime + BufferDelay
    <3>1. timer[w] \in Int /\ age[w] \in Int
      BY ReplyAssumption DEF ActorTypes, ReplyOK
    <3>2. timer'[w] = IF Buffer(w) # {} THEN timer[w] - 1 ELSE timer[w]
      BY <1>4 DEF Tick
    <3>3. age'[w] = IF Buffer(w) # {} THEN age[w] + 1 ELSE age[w]
      BY <1>4 DEF Tick
    <3>4. CASE Buffer(w) = {}
      BY <2>1, <3>2, <3>3, <3>4 DEF BufferInv
    <3>5. CASE Buffer(w) # {}
      <4>1. age[w] + timer[w] < MaxBufferTime + BufferDelay
        BY <3>5 DEF BufferInv
      <4>2. age'[w] + timer'[w] = age[w] + timer[w]
        BY <3>1, <3>2, <3>3, <3>5
      <4> QED BY <2>1, <3>5, <4>1, <4>2
    <3> QED BY <3>4, <3>5
  <2> QED BY <2>2 DEF BufferInv
<1>5. ASSUME NEW w \in Workers, FlushDue(w) PROVE BufferInv'
  <2>1. \A j \in Buffer(w) : j \in Items /\ (stage[j] = "buffered" => home[j] = w)
    BY DEF Buffer
  <2> QED BY <1>5, <2>1, FlushBufferInv DEF FlushDue
<1>6. ASSUME NEW b \in batches, BatchStep(b) PROVE BufferInv'
  <2>1. \A i \in Items : stage'[i] = "buffered" <=> stage[i] = "buffered"
    BY <1>6, BatchCases DEF Settle, BatchInv
  <2> QED BY <1>6, <2>1, BatchCases, SameBuffers
<1>7. ASSUME NEW w \in Workers, Crash(w) PROVE BufferInv'
  <2>1. Buffer(w)' = {}
    BY <1>7 DEF Crash, Buffer, Settled
  <2>2. \A v \in Workers \ {w} : Buffer(v)' = Buffer(v)
    BY <1>7 DEF Crash, Buffer
  <2> QED BY <1>7, <2>1, <2>2 DEF Crash, BufferInv, ActorTypes, ReplyOK
<1> QED BY <1>1, <1>2, <1>3, <1>4, <1>5, <1>6, <1>7 DEF Next, QuietStep

-------------------------------------------------------------------------------
(* The answers.                                                            *)

(* An item that has its answer is in no batch that is still to send one.   *)
AnswerInv ==
    \A i \in Items :
        /\ answers[i] \in {0, 1}
        /\ answers[i] = 1 => stage[i] \in {"flushed", "answered", "apologised", "lost"}
        /\ \A b \in batches : i \in b.items /\ b.at # "apologise" => answers[i] = 0

LEMMA FlushAnswerInv ==
    ASSUME BatchInv, AnswerInv, UNCHANGED answers, NEW w \in Workers,
           NEW items \in SUBSET Items, FlushInv(w, items), Flush(w, items)
    PROVE  AnswerInv'
<1>1. \A i \in items : answers[i] = 0
  BY DEF FlushInv, Buffer, AnswerInv
<1>2. \A i \in Items : stage'[i] = IF i \in items THEN "flushed" ELSE stage[i]
  BY DEF Flush
<1>3. batches' = batches \cup {[items |-> items, at |-> "bot"]}
  BY DEF Flush
<1> QED BY <1>1, <1>2, <1>3 DEF AnswerInv

LEMMA StepAnswerInv ==
    ASSUME ActorTypes, HomeInv, BatchInv, FreshInv, AnswerInv, Next
    PROVE  AnswerInv'
<1>0. \A b \in batches : b.items \in SUBSET Items
  BY BatchTypes DEF ActorTypes
<1>1. CASE QuietStep
  BY <1>1, QuietFrame DEF AnswerInv, replyVars
<1>2. ASSUME NEW w \in Workers, EmitReceived(w) PROVE AnswerInv'
  <2>1. stage[item[w]] = "none" /\ UNCHANGED <<batches, answers>>
    BY <1>2 DEF EmitReceived, Goto, FreshInv
  <2>2. \A i \in Items : i # item[w] => stage'[i] = stage[i]
    BY <1>2 DEF EmitReceived, ActorTypes, ReplyOK
  <2> QED BY <2>1, <2>2 DEF AnswerInv
<1>3. ASSUME NEW i \in Items, ListenerStep(i) PROVE AnswerInv'
  <2>1. CASE \E t \in {"declined", "checked", "failed", "buffered"} :
                 stage' = [stage EXCEPT ![i] = t] /\ UNCHANGED batches
    <3>1. stage[i] \in {"received", "checked"} /\ UNCHANGED answers
      BY <1>3, ListenerCases
    <3>2. \A j \in Items : j # i => stage'[j] = stage[j]
      BY <2>1 DEF ActorTypes, ReplyOK
    <3> QED BY <2>1, <3>1, <3>2 DEF AnswerInv
  <2>2. CASE stage[i] = "checked" /\ AddToBuffer(home[i], i)
             /\ ~ \E t \in {"declined", "checked", "failed", "buffered"} :
                    stage' = [stage EXCEPT ![i] = t] /\ UNCHANGED batches
    <3>1. home[i] \in Workers
      BY <2>2 DEF HomeInv
    <3>2. Flush(home[i], Buffer(home[i]) \cup {i})
      BY <2>2 DEF AddToBuffer
    <3>3. FlushInv(home[i], Buffer(home[i]) \cup {i})
      BY <2>2 DEF FlushInv
    <3>4. Buffer(home[i]) \cup {i} \in SUBSET Items /\ UNCHANGED answers
      BY <1>3, ListenerCases DEF Buffer
    <3> QED BY <3>1, <3>2, <3>3, <3>4, FlushAnswerInv
  <2>3. \/ \E t \in {"declined", "checked", "failed", "buffered"} :
                    stage' = [stage EXCEPT ![i] = t] /\ UNCHANGED batches
        \/ stage[i] = "checked" /\ AddToBuffer(home[i], i)
    BY <1>3, ListenerCases
  <2> QED BY <2>1, <2>2, <2>3
<1>4. CASE Tick
  BY <1>4 DEF Tick, AnswerInv
<1>5. ASSUME NEW w \in Workers, FlushDue(w) PROVE AnswerInv'
  <2>1. Buffer(w) \in SUBSET Items /\ FlushInv(w, Buffer(w)) /\ UNCHANGED answers
    BY <1>5 DEF Buffer, FlushInv, FlushDue
  <2> QED BY <1>5, <2>1, FlushAnswerInv DEF FlushDue
<1>6. ASSUME NEW b \in batches, BatchStep(b) PROVE AnswerInv'
  <2>1. ASSUME NEW at \in {"model", "send", "apologise"}, Advance(b, at),
               b.at # "apologise", UNCHANGED <<stage, answers>>
        PROVE  AnswerInv'
    <3>1. [b EXCEPT !.at = at].items = b.items
      BY BatchTypes DEF ActorTypes
    <3>2. \A c \in batches' : c = [b EXCEPT !.at = at] \/ c \in batches
      BY <2>1 DEF Advance
    <3> QED BY <2>1, <3>1, <3>2 DEF AnswerInv
  <2>2. ASSUME Answered(b), b.at = "send"
        PROVE  /\ \A i \in b.items : answers'[i] = 1 /\ stage[i] = "flushed"
               /\ \A i \in Items \ b.items : answers'[i] = answers[i]
    BY <1>0, <2>2 DEF Answered, AnswerInv, BatchInv
  <2>3. CASE Answered(b) /\ b.at = "send" /\ Advance(b, "apologise") /\ UNCHANGED stage
    <3>1. /\ [b EXCEPT !.at = "apologise"].items = b.items
          /\ [b EXCEPT !.at = "apologise"].at = "apologise"
      BY BatchTypes DEF ActorTypes
    <3>2. \A c \in batches' :
              c = [b EXCEPT !.at = "apologise"] \/ (c \in batches /\ c # b)
      BY <2>3 DEF Advance
    <3>3. \A c \in batches : c # b => \A i \in c.items : i \notin b.items
      BY DEF BatchInv
    <3> QED BY <2>2, <2>3, <3>1, <3>2, <3>3 DEF AnswerInv
  <2>4. ASSUME NEW o \in {"answered", "apologised", "declined"}, Settle(b, o)
        PROVE  /\ \A i \in Items : stage'[i] = IF i \in b.items THEN o ELSE stage[i]
               /\ \A c \in batches' : c \in batches /\ c # b
               /\ \A c \in batches' : \A i \in c.items : i \notin b.items
    BY <2>4 DEF Settle, BatchInv
  <2>5. CASE Answered(b) /\ b.at = "send" /\ Settle(b, "answered")
    BY <2>2, <2>4, <2>5 DEF AnswerInv
  <2>6. CASE Settle(b, "apologised") /\ UNCHANGED answers
    BY <2>4, <2>6 DEF AnswerInv
  <2>7. CASE b.at = "bot" /\ Settle(b, "declined") /\ UNCHANGED answers
    <3>1. \A i \in b.items : answers[i] = 0
      BY <1>0, <2>7 DEF AnswerInv
    <3> QED BY <2>4, <2>7, <3>1 DEF AnswerInv
  <2> QED BY <1>6, <2>1, <2>3, <2>5, <2>6, <2>7, BatchCases
<1>7. ASSUME NEW w \in Workers, Crash(w) PROVE AnswerInv'
  <2>1. UNCHANGED answers /\ batches' \subseteq batches
    BY <1>7 DEF Crash
  <2>2. \A i \in Items : stage'[i] \in {stage[i], "lost"}
    BY <1>7 DEF Crash
  <2> QED BY <2>1, <2>2 DEF AnswerInv
<1> QED BY <1>1, <1>2, <1>3, <1>4, <1>5, <1>6, <1>7 DEF Next, QuietStep

-------------------------------------------------------------------------------
(* Who is in charge.                                                       *)

DutyInv ==
    \A i \in Items :
        /\ stage[i] # "none" => duty[i] \in {InCharge(human, active), "mixed"}
        /\ stage[i] \in {"checked", "buffered", "flushed", "answered", "apologised"}
              => duty[i] # "human"
        /\ stage[i] = "declined" => duty[i] # "bot"

LEMMA ChargeDutyInv ==
    ASSUME DutyInv, UNCHANGED stage, NEW h, NEW a, Charge(h, a)
    PROVE  DutyInv'
BY DEF DutyInv, Charge, InCharge

LEMMA StepDutyInv ==
    ASSUME ActorTypes, HomeInv, BatchInv, FreshInv, DutyInv, Next
    PROVE  DutyInv'
<1>1. CASE QuietStep
  <2>1. CASE UNCHANGED <<human, active, duty>>
    BY <1>1, <2>1, QuietFrame DEF DutyInv, replyVars, InCharge
  <2> QED BY <1>1, <2>1, QuietFrame, ChargeDutyInv DEF replyVars
<1>2. ASSUME NEW w \in Workers, EmitReceived(w) PROVE DutyInv'
  <2>1. \A i \in Items : IF i = item[w]
                           THEN stage'[i] = "received" /\ duty'[i] = InCharge(human, active)
                           ELSE stage'[i] = stage[i] /\ duty'[i] = duty[i]
    BY <1>2 DEF EmitReceived, ActorTypes, ReplyOK
  <2> QED BY <1>2, <2>1 DEF EmitReceived, DutyInv, InCharge
<1>3. ASSUME NEW i \in Items, ListenerStep(i) PROVE DutyInv'
  <2>1. UNCHANGED <<human, active, duty>> /\ stage[i] \in {"received", "checked"}
    BY <1>3, ListenerCases DEF botVars
  <2>2. ASSUME NEW t \in {"checked", "declined", "failed", "buffered"},
               stage' = [stage EXCEPT ![i] = t],
               t = "checked" => ~ human,
               t = "buffered" => stage[i] = "checked",
               t = "declined" => human \/ ~ active
        PROVE  DutyInv'
    <3>1. \A j \in Items : stage'[j] = IF j = i THEN t ELSE stage[j]
      BY <2>2 DEF ActorTypes, ReplyOK
    <3> QED BY <2>1, <2>2, <3>1 DEF DutyInv, InCharge
  <2>3. CASE stage[i] = "checked" /\ Flush(home[i], Buffer(home[i]) \cup {i})
    <3>1. \A j \in Items : \/ stage'[j] = stage[j]
                           \/ stage'[j] = "flushed" /\ stage[j] \in {"checked", "buffered"}
      BY <2>3 DEF Flush, Buffer
    <3> QED BY <2>1, <3>1 DEF DutyInv, InCharge
  <2>4. CASE stage[i] = "checked" /\ AddToBuffer(home[i], i)
    BY <2>2, <2>3, <2>4 DEF AddToBuffer
  <2> QED BY <1>3, <2>2, <2>4, ListenerCases
<1>4. CASE Tick
  BY <1>4 DEF Tick, botVars, DutyInv, InCharge
<1>5. ASSUME NEW w \in Workers, FlushDue(w) PROVE DutyInv'
  <2>1. \A j \in Items : \/ stage'[j] = stage[j]
                         \/ stage'[j] = "flushed" /\ stage[j] = "buffered"
    BY <1>5 DEF FlushDue, Flush, Buffer
  <2> QED BY <1>5, <2>1 DEF FlushDue, botVars, DutyInv, InCharge
<1>6. ASSUME NEW b \in batches, BatchStep(b) PROVE DutyInv'
  <2>1. UNCHANGED <<human, active, duty>>
    BY <1>6, BatchCases DEF botVars
  <2>2. ASSUME NEW o \in {"answered", "apologised", "declined"}, Settle(b, o),
               o = "declined" => ~ active
        PROVE  DutyInv'
    <3>1. \A i \in Items : \/ stage'[i] = stage[i]
                           \/ stage'[i] = o /\ stage[i] = "flushed"
      BY <2>2 DEF Settle, BatchInv
    <3> QED BY <2>1, <2>2, <3>1 DEF DutyInv, InCharge
  <2>3. CASE UNCHANGED stage
    BY <2>1, <2>3 DEF DutyInv, InCharge
  <2> QED BY <1>6, <2>2, <2>3, BatchCases
<1>7. ASSUME NEW w \in Workers, Crash(w) PROVE DutyInv'
  <2>1. \A i \in Items : stage'[i] = stage[i] \/ (stage'[i] = "lost" /\ stage[i] # "none")
    BY <1>7, QueueAssumption DEF Crash, HomeInv
  <2> QED BY <1>7, <2>1 DEF Crash, DutyInv, InCharge
<1> QED BY <1>1, <1>2, <1>3, <1>4, <1>5, <1>6, <1>7 DEF Next, QuietStep

-------------------------------------------------------------------------------
LEMMA StepActorTypes ==
    ASSUME ActorTypes, HomeInv, Next
    PROVE  ActorTypes'
<1>1. CASE QuietStep
  <2>1. ActorOK'
    BY <1>1, WorkerActorOK, ClientActorOK, OtherActorOK DEF QuietStep
  <2> QED BY <1>1, <2>1, QuietReplyOK DEF ActorTypes
<1>2. ASSUME NEW w \in Workers, EmitReceived(w) PROVE ActorTypes'
  BY <1>2, WorkerActorOK, EmitReplyOK DEF WorkerStep, ActorTypes
<1>3. CASE ReplyStep
  <2>1. ReplyOK'
    BY <1>3, ListenerReplyOK, TimerReplyOK, BatchReplyOK DEF ReplyStep
  <2> QED BY <1>3, <2>1, ReplyActorOK DEF ActorTypes
<1>4. ASSUME NEW w \in Workers, Crash(w) PROVE ActorTypes'
  BY <1>4, OtherActorOK, CrashReplyOK DEF ActorTypes
<1> QED BY <1>1, <1>2, <1>3, <1>4 DEF Next, QuietStep, ReplyStep

(* The inductive invariant.                                                *)

IInv == /\ ActorTypes /\ HomeInv /\ BatchInv /\ FreshInv /\ RunInv
        /\ BufferInv /\ AnswerInv /\ DutyInv

LEMMA InitIInv == Init => IInv
<1> SUFFICES ASSUME Init PROVE IInv
  OBVIOUS
<1>1. QueueTypeOK /\ QueueInv
  BY QueueInitTypeInv DEF Init
<1>2. ActorTypes
  <2>1. /\ faults \in 0 .. MaxFaults
        /\ op \in [Clients -> ClientOps \cup {"none"}]
        /\ stored \in SUBSET Items
    BY ReplyAssumption DEF Init
  <2>2. \A w \in Workers : pc[w] = "idle" /\ item[w] = NoItem
    BY DEF Init, Actors
  <2>3. item \in [Workers -> Items \cup {NoItem}]
    BY DEF Init
  <2>4. /\ human \in BOOLEAN /\ active \in BOOLEAN
        /\ copy \in [Actors -> BOOLEAN]
        /\ pc \in [Actors -> {"idle", "touch", "reload", "store", "save", "emit", "ack",
                              "done"}]
    BY DEF Init
  <2>5. ActorOK
    BY <1>1, <2>1, <2>2, <2>3, <2>4 DEF ActorOK
  <2>6. ReplyOK
    BY ReplyAssumption DEF Init, ReplyOK, Stages
  <2> QED BY <2>5, <2>6 DEF ActorTypes
<1>3. \A i \in Items : stage[i] = "none" /\ home[i] = NoWorker /\ answers[i] = 0
  BY DEF Init
<1>4. \A w \in Workers : Buffer(w) = {} /\ timer[w] = 0 /\ age[w] = 0 /\ pc[w] = "idle"
  BY <1>3 DEF Init, Buffer, Actors
<1>5. HomeInv /\ BatchInv /\ FreshInv /\ BufferInv /\ AnswerInv /\ DutyInv
  BY <1>3, <1>4 DEF Init, HomeInv, BatchInv, FreshInv, BufferInv, AnswerInv, DutyInv
<1>6. RunInv
  <2>1. \A w \in Workers : item[w] = NoItem
    BY DEF Init
  <2> QED BY <1>3, <2>1, ItemPair, ReplyAssumption DEF RunInv
<1> QED BY <1>2, <1>5, <1>6 DEF IInv

LEMMA NextIInv == IInv /\ [Next]_vars => IInv'
<1>1. ASSUME IInv, Next PROVE IInv'
  <2>1. ActorTypes'
    BY <1>1, StepActorTypes DEF IInv
  <2> QED BY <1>1, <2>1, StepHomeInv, StepBatchInv, StepFreshInv, StepRunInv,
             StepBufferInv, StepAnswerInv, StepDutyInv DEF IInv
<1>2. ASSUME IInv, UNCHANGED vars PROVE IInv'
  <2>1. UNCHANGED <<queue, human, active, pc, item, op, copy, stored, stage, home, timer,
                    age, batches, answers, duty, faults>>
    BY <1>2 DEF vars, actorVars, bufferVars
  <2>2. ActorTypes'
    BY <1>2, <2>1 DEF IInv, ActorTypes, ActorOK, ReplyOK, QueueTypeOK, QueueInv
  <2>3. HomeInv' /\ BatchInv' /\ FreshInv' /\ RunInv'
    BY <1>2, <2>1 DEF IInv, HomeInv, BatchInv, FreshInv, RunInv, Runs, Ran
  <2>4. BufferInv' /\ AnswerInv' /\ DutyInv'
    BY <1>2, <2>1 DEF IInv, BufferInv, Buffer, AnswerInv, DutyInv, InCharge
  <2> QED BY <2>2, <2>3, <2>4 DEF IInv
<1> QED BY <1>1, <1>2

LEMMA IInvProperties ==
    IInv => TypeOK /\ BufferWaitBounded /\ OneReply /\ TakenOverIsSilent /\ OnDutyAnswers
<1> SUFFICES ASSUME IInv
             PROVE  /\ TypeOK /\ BufferWaitBounded /\ OneReply /\ TakenOverIsSilent
                    /\ OnDutyAnswers
  OBVIOUS
<1>1. TypeOK
  BY TypeParts DEF IInv, ActorTypes
<1>2. BufferWaitBounded
  BY DEF IInv, BufferInv, BufferWaitBounded
<1>3. OneReply
  <2> SUFFICES ASSUME NEW m \in Jobs, NEW n \in 0 .. MaxStalls
               PROVE  /\ answers[<<m, n>>] =< 1
                      /\ answers[<<m, n>>] = 1 => n =< queue[m].stalls
    BY DEF OneReply
  <2>1. answers[<<m, n>>] \in {0, 1}
        /\ (answers[<<m, n>>] = 1 => stage[<<m, n>>] # "none")
    BY ItemPair DEF IInv, AnswerInv
  <2> QED BY <2>1 DEF IInv, RunInv, Ran
<1>4. TakenOverIsSilent /\ OnDutyAnswers
  BY DEF IInv, DutyInv, TakenOverIsSilent, OnDutyAnswers
<1> QED BY <1>1, <1>2, <1>3, <1>4

LEMMA InvariantIInv == Spec => []IInv
BY InitIInv, NextIInv, PTL DEF Spec

-------------------------------------------------------------------------------
(* The state of the pipeline stays well-formed: a consumer is idle exactly *)
(* when it has no item.                                                    *)
THEOREM TypeCorrect == Spec => []TypeOK
BY InvariantIInv, IInvProperties, PTL

(* MessageBufferService.addMessage: messages that keep coming delay a      *)
(* flush by less than MAX_BUFFER_TIME plus BUFFER_DELAY.                   *)
THEOREM WaitIsBounded == Spec => []BufferWaitBounded
BY InvariantIInv, IInvProperties, PTL

(* processBufferedMessages: every run of a webhook's entry gets at most    *)
(* one answer, and there are as many runs as the entry has stalls.         *)
THEOREM RepliesOnce == Spec => []OneReply
BY InvariantIInv, IInvProperties, PTL

(* BotEventListener.handleMessageReceived: the bot is silent while a human *)
(* has the conversation.                                                   *)
THEOREM SilentWhenTakenOver == Spec => []TakenOverIsSilent
BY InvariantIInv, IInvProperties, PTL

(* handleMessageReceived and processBufferedMessages: a message the bot    *)
(* was in charge of all the time is not declined.                          *)
THEOREM DutyIsDone == Spec => []OnDutyAnswers
BY InvariantIInv, IInvProperties, PTL

-------------------------------------------------------------------------------
(* Refinement of AnsweringService.  A batch has messages, all from the     *)
(* memory of one process.                                                  *)
TurnInv ==
    \A b \in batches : b.items # {} /\ \A i, j \in b.items : home[i] = home[j]

LEMMA FlushTurnInv ==
    ASSUME TurnInv, UNCHANGED home, NEW w \in Workers, NEW items \in SUBSET Items,
           items # {}, \A i \in items : home[i] = w, Flush(w, items)
    PROVE  TurnInv'
BY DEF TurnInv, Flush

LEMMA StepTurnInv ==
    ASSUME ActorTypes, HomeInv, BatchInv, FreshInv, TurnInv, Next
    PROVE  TurnInv'
<1>0. \A b \in batches : b.items \in SUBSET Items
  BY BatchTypes DEF ActorTypes
<1>1. CASE QuietStep
  BY <1>1, QuietFrame DEF TurnInv, replyVars
<1>2. ASSUME NEW w \in Workers, EmitReceived(w) PROVE TurnInv'
  <2>1. stage[item[w]] = "none" /\ batches' = batches
    BY <1>2 DEF EmitReceived, Goto, FreshInv
  <2>2. \A b \in batches : \A i \in b.items : home'[i] = home[i]
    BY <1>0, <1>2, <2>1 DEF EmitReceived, BatchInv, ActorTypes, ReplyOK
  <2> QED BY <2>1, <2>2 DEF TurnInv
<1>3. ASSUME NEW i \in Items, ListenerStep(i) PROVE TurnInv'
  <2>1. UNCHANGED home
    BY <1>3, ListenerCases
  <2>2. CASE UNCHANGED batches
    BY <2>1, <2>2 DEF TurnInv
  <2>3. CASE stage[i] = "checked" /\ AddToBuffer(home[i], i) /\ batches' # batches
    <3>1. home[i] \in Workers
      BY <2>3 DEF HomeInv
    <3>2. Flush(home[i], Buffer(home[i]) \cup {i})
      BY <2>3 DEF AddToBuffer
    <3> QED BY <2>1, <3>1, <3>2, FlushTurnInv DEF Buffer
  <2> QED BY <1>3, <2>2, <2>3, ListenerCases
<1>4. CASE Tick
  BY <1>4 DEF Tick, TurnInv
<1>5. ASSUME NEW w \in Workers, FlushDue(w) PROVE TurnInv'
  BY <1>5, FlushTurnInv DEF FlushDue, Buffer
<1>6. ASSUME NEW b \in batches, BatchStep(b) PROVE TurnInv'
  <2>1. UNCHANGED home
    BY <1>6, BatchCases
  <2>2. \A c \in batches' : c.items = b.items \/ c \in batches
    <3>1. ASSUME NEW at \in {"model", "send", "apologise"}, Advance(b, at)
          PROVE  \A c \in batches' : c.items = b.items \/ c \in batches
      <4>1. [b EXCEPT !.at = at].items = b.items
        BY BatchTypes DEF ActorTypes
      <4>2. \A c \in batches' : c = [b EXCEPT !.at = at] \/ c \in batches
        BY <3>1 DEF Advance
      <4> QED BY <4>1, <4>2
    <3>2. ASSUME NEW o, Settle(b, o)
          PROVE  \A c \in batches' : c.items = b.items \/ c \in batches
      BY <3>2 DEF Settle
    <3> QED BY <1>6, <3>1, <3>2, BatchCases
  <2> QED BY <2>1, <2>2 DEF TurnInv
<1>7. ASSUME NEW w \in Workers, Crash(w) PROVE TurnInv'
  BY <1>7 DEF Crash, TurnInv
<1> QED BY <1>1, <1>2, <1>3, <1>4, <1>5, <1>6, <1>7 DEF Next, QuietStep

(* Three parts of the abstract state; the fourth one is answers.           *)
Ch == InCharge(human, active)
St == [i \in Items |->
          IF stage[i] = "received" THEN "heard"
          ELSE IF stage[i] \in {"checked", "buffered", "flushed"} THEN "admitted"
          ELSE stage[i]]
Tu == {b.items : b \in batches}

LEMMA StutterMap ==
    ASSUME UNCHANGED <<Ch, St, Tu, answers>>
    PROVE  UNCHANGED Service!vars
BY DEF Service!vars, Ch, St, Tu

LEMMA ChargeMap == ASSUME UNCHANGED botVars PROVE UNCHANGED Ch
BY DEF botVars, Ch

(* An item that is not in a batch is alone.                                *)
LEMMA NotFlushed ==
    ASSUME ActorTypes, BatchInv, NEW i \in Items, stage[i] # "flushed"
    PROVE  \A T \in Tu : i \notin T
BY DEF BatchInv, Tu

(* A step of the listener that changes the stage of one item.              *)
LEMMA OneStage ==
    ASSUME ActorTypes, NEW i \in Items, NEW s, stage' = [stage EXCEPT ![i] = s],
           NEW t, t = IF s = "received" THEN "heard"
                      ELSE IF s \in {"checked", "buffered", "flushed"} THEN "admitted"
                      ELSE s
    PROVE  St' = [j \in Items |-> IF j \in {i} THEN t ELSE St[j]]
<1>1. \A j \in Items : stage'[j] = IF j = i THEN s ELSE stage[j]
  BY DEF ActorTypes, ReplyOK
<1> QED BY <1>1 DEF St

LEMMA OneSettled ==
    ASSUME ActorTypes, NEW i \in Items, NEW s \in Settled, stage' = [stage EXCEPT ![i] = s]
    PROVE  St' = [j \in Items |-> IF j \in {i} THEN s ELSE St[j]]
<1>1. \A j \in Items : stage'[j] = IF j = i THEN s ELSE stage[j]
  BY DEF ActorTypes, ReplyOK
<1> QED BY <1>1 DEF St, Settled

LEMMA GatherMaps ==
    ASSUME ActorTypes, BatchInv, UNCHANGED <<botVars, answers>>,
           NEW w \in Workers, NEW S \in SUBSET Items, S # {},
           FlushInv(w, S), Flush(w, S)
    PROVE  Service!Gather(S)
<1>1. \A i \in S : stage[i] \in {"checked", "buffered"}
  BY DEF FlushInv, Buffer
<1>2. \A i \in S : St[i] = "admitted" /\ \A T \in Tu : i \notin T
  BY <1>1, NotFlushed DEF St
<1>3. St' = St
  BY <1>1 DEF Flush, St
<1>4. Tu' = Tu \cup {S}
  <2> DEFINE c == [items |-> S, at |-> "bot"]
  <2>1. c.items = S /\ batches' = batches \cup {c}
    BY DEF Flush
  <2> HIDE DEF c
  <2> QED BY <2>1 DEF Tu
<1> QED
  BY <1>2, <1>3, <1>4, ChargeMap DEF Service!Gather, Service!Alone, Ch, St, Tu

LEMMA EmitMaps ==
    ASSUME ActorTypes, FreshInv, NEW w \in Workers, EmitReceived(w),
           NEW i \in Items, i = item[w]
    PROVE  Service!Hear(i)
<1>1. /\ stage[i] = "none" /\ stage' = [stage EXCEPT ![i] = "received"]
      /\ UNCHANGED <<human, active, batches, answers>>
  BY DEF EmitReceived, Goto, FreshInv
<1>2. St' = [j \in Items |-> IF j \in {i} THEN "heard" ELSE St[j]]
  BY <1>1, OneStage
<1>3. St[i] = "none"
  BY <1>1 DEF St
<1>4. UNCHANGED <<Ch, Tu>>
  BY <1>1 DEF Ch, Tu
<1> QED BY <1>1, <1>2, <1>3, <1>4 DEF Service!Hear, Service!Become, Ch, St, Tu

LEMMA ListenerMaps ==
    ASSUME ActorTypes, HomeInv, BatchInv, NEW i \in Items, ListenerStep(i)
    PROVE  Service!Next \/ UNCHANGED Service!vars
<1>1. /\ UNCHANGED <<Ch, answers>> /\ UNCHANGED botVars
      /\ stage[i] \in {"received", "checked"}
      /\ \A T \in Tu : i \notin T
      /\ St[i] = IF stage[i] = "received" THEN "heard" ELSE "admitted"
  BY ListenerCases, ChargeMap, NotFlushed DEF St
<1>2. CASE /\ \/ stage[i] = "received" /\ human
              \/ stage[i] = "checked" /\ ~ active
           /\ stage' = [stage EXCEPT ![i] = "declined"] /\ UNCHANGED batches
  <2>1. St' = [j \in Items |-> IF j \in {i} THEN "declined" ELSE St[j]]
    BY <1>2, OneSettled DEF Settled
  <2>2. Ch # "bot" /\ UNCHANGED Tu
    BY <1>2 DEF Ch, InCharge, Tu
  <2>3. Service!Decline(i)
    BY <1>1, <2>1, <2>2 DEF Service!Decline, Service!Become, Service!Alone, Ch, St, Tu
  <2> QED BY <2>3 DEF Service!Next
<1>3. CASE /\ stage[i] = "received" /\ ~ human
           /\ stage' = [stage EXCEPT ![i] = "checked"] /\ UNCHANGED batches
  <2>1. St' = [j \in Items |-> IF j \in {i} THEN "admitted" ELSE St[j]]
    BY <1>3, OneStage
  <2>2. Ch # "human" /\ UNCHANGED Tu
    BY <1>3 DEF Ch, InCharge, Tu
  <2>3. Service!Admit(i)
    BY <1>1, <1>3, <2>1, <2>2 DEF Service!Admit, Service!Become, Ch, St, Tu
  <2> QED BY <2>3 DEF Service!Next
<1>4. CASE stage' = [stage EXCEPT ![i] = "failed"] /\ UNCHANGED batches
  <2>1. St' = [j \in Items |-> IF j \in {i} THEN "failed" ELSE St[j]]
    BY <1>4, OneSettled DEF Settled
  <2>2. UNCHANGED Tu
    BY <1>4 DEF Tu
  <2>3. Service!Fail(i)
    BY <1>1, <2>1, <2>2 DEF Service!Fail, Service!Become, Service!Alone, Ch, St, Tu
  <2> QED BY <2>3 DEF Service!Next
<1>5. CASE stage[i] = "checked" /\ AddToBuffer(home[i], i)
  <2>1. CASE age[home[i]] >= MaxBufferTime
    <3>1. PICK S \in SUBSET Items : S = Buffer(home[i]) \cup {i}
      BY DEF Buffer
    <3>2. home[i] \in Workers /\ S # {} /\ FlushInv(home[i], S)
      BY <1>5, <3>1 DEF HomeInv, FlushInv
    <3>3. Flush(home[i], S)
      BY <1>5, <2>1, <3>1 DEF AddToBuffer
    <3>4. Service!Gather(S)
      BY <1>1, <3>2, <3>3, GatherMaps
    <3> QED BY <3>4 DEF Service!Next
  <2>2. CASE ~ (age[home[i]] >= MaxBufferTime)
    <3>1. stage' = [stage EXCEPT ![i] = "buffered"] /\ UNCHANGED batches
      BY <1>5, <2>2 DEF AddToBuffer
    <3>2. St' = [j \in Items |-> IF j \in {i} THEN "admitted" ELSE St[j]]
      BY <3>1, OneStage
    <3>3. St' = St
      BY <1>1, <1>5, <3>2 DEF St
    <3>4. UNCHANGED Tu
      BY <3>1 DEF Tu
    <3> QED BY <1>1, <3>3, <3>4, StutterMap
  <2> QED BY <2>1, <2>2
<1> QED BY <1>2, <1>3, <1>4, <1>5, ListenerCases

(* What a step of a batch does to its turn.                                *)
LEMMA BatchMaps ==
    ASSUME ActorTypes, BatchInv, AnswerInv, TurnInv, NEW b \in batches, BatchStep(b)
    PROVE  Service!Next \/ UNCHANGED Service!vars
<1> DEFINE T == b.items
<1>0. /\ T \in SUBSET Items /\ T \in Tu /\ UNCHANGED Ch
      /\ \A i \in T : stage[i] = "flushed"
  BY BatchTypes, BatchCases, ChargeMap DEF ActorTypes, Tu, BatchInv
<1>1. ASSUME NEW at \in {"model", "send", "apologise"}, Advance(b, at)
      PROVE  UNCHANGED Tu
  <2> DEFINE c == [b EXCEPT !.at = at]
  <2>1. c.items = b.items /\ batches' = (batches \ {b}) \cup {c}
    BY <1>1, BatchTypes DEF ActorTypes, Advance
  <2> HIDE DEF c
  <2> QED BY <2>1 DEF Tu
<1>2. ASSUME NEW o \in Settled, Settle(b, o)
      PROVE  /\ Tu' = Tu \ {T}
             /\ St' = [i \in Items |-> IF i \in T THEN o ELSE St[i]]
  <2>1. batches' = batches \ {b}
    BY <1>2 DEF Settle
  <2>2. \A c \in batches : c.items = T => c = b
    BY DEF BatchInv, TurnInv
  <2>3. Tu' = Tu \ {T}
    BY <2>1, <2>2 DEF Tu
  <2>4. \A i \in Items : stage'[i] = IF i \in T THEN o ELSE stage[i]
    BY <1>2 DEF Settle
  <2>5. St' = [i \in Items |-> IF i \in T THEN o ELSE St[i]]
    BY <2>4 DEF St, Settled
  <2> QED BY <2>3, <2>5
<1>3. b.at # "apologise" => \A i \in T : answers[i] = 0
  BY <1>0 DEF AnswerInv
<1>4. ASSUME b.at = "send", Answered(b)
      PROVE  /\ \A i \in T : answers[i] = 0
             /\ answers' = [i \in Items |-> IF i \in T THEN 1 ELSE answers[i]]
  <2>1. \A i \in T : answers[i] = 0
    BY <1>3, <1>4
  <2> QED BY <2>1, <1>4 DEF Answered
<1> HIDE DEF T
<1>5. CASE /\ \E at \in {"model", "send", "apologise"} : Advance(b, at)
           /\ UNCHANGED <<stage, answers>>
  <2>1. UNCHANGED St
    BY <1>5 DEF St
  <2> QED BY <1>0, <1>1, <1>5, <2>1, StutterMap
<1>6. CASE b.at = "send" /\ Advance(b, "apologise") /\ UNCHANGED stage /\ Answered(b)
  <2>1. UNCHANGED <<St, Tu>>
    BY <1>1, <1>6 DEF St
  <2>2. Service!Answer(T)
    BY <1>0, <1>4, <1>6, <2>1 DEF Service!Answer, Ch, St, Tu
  <2> QED BY <1>0, <2>2 DEF Service!Next, Tu
<1>7. CASE b.at = "send" /\ Settle(b, "answered") /\ Answered(b)
  <2>1. /\ Tu' = Tu \ {T}
        /\ St' = [i \in Items |-> IF i \in T THEN "answered" ELSE St[i]]
    BY <1>2, <1>7 DEF Settled
  <2>2. Service!Answer(T)
    BY <1>0, <1>4, <1>7, <2>1
       DEF Service!Answer, Service!End, Service!Become, Ch, St, Tu
  <2> QED BY <1>0, <2>2 DEF Service!Next, Tu
<1>8. CASE Settle(b, "apologised") /\ UNCHANGED answers
  <2>1. /\ Tu' = Tu \ {T}
        /\ St' = [i \in Items |-> IF i \in T THEN "apologised" ELSE St[i]]
    BY <1>2, <1>8 DEF Settled
  <2>2. Service!Apologise(T)
    BY <1>0, <1>8, <2>1 DEF Service!Apologise, Service!End, Service!Become, Ch, St, Tu
  <2> QED BY <1>0, <2>2 DEF Service!Next, Tu
<1>9. CASE b.at = "bot" /\ ~ active /\ Settle(b, "declined") /\ UNCHANGED answers
  <2>1. /\ Tu' = Tu \ {T}
        /\ St' = [i \in Items |-> IF i \in T THEN "declined" ELSE St[i]]
    BY <1>2, <1>9 DEF Settled
  <2>2. Ch # "bot"
    BY <1>9 DEF Ch, InCharge
  <2>3. Service!DeclineTurn(T)
    BY <1>0, <1>3, <1>9, <2>1, <2>2
       DEF Service!DeclineTurn, Service!End, Service!Become, Ch, St, Tu
  <2> QED BY <1>0, <2>3 DEF Service!Next, Tu
<1> QED BY <1>5, <1>6, <1>7, <1>8, <1>9, BatchCases

LEMMA CrashMaps ==
    ASSUME ActorTypes, HomeInv, BatchInv, TurnInv, NEW w \in Workers, Crash(w)
    PROVE  \E S \in SUBSET Items : Service!Lose(S)
<1>1. PICK S \in SUBSET Items : S = {i \in Items : home[i] = w /\ stage[i] \notin Settled}
  OBVIOUS
<1>2. /\ \A i \in Items : stage'[i] = IF i \in S THEN "lost" ELSE stage[i]
      /\ batches' = {b \in batches : \A i \in b.items : home[i] # w}
      /\ UNCHANGED <<human, active, answers>>
  BY <1>1 DEF Crash
<1>3. \A i \in S : stage[i] \in {"received", "checked", "buffered", "flushed"}
  BY <1>1, QueueAssumption DEF HomeInv, ActorTypes, ReplyOK, Stages
<1>4. \A b \in batches : /\ b.items \in SUBSET Items
                         /\ \A i \in b.items : i \in S <=> home[i] = w
  BY <1>1, BatchTypes DEF ActorTypes, BatchInv, Settled
<1>5. \A i \in S : St[i] \in {"heard", "admitted"}
  BY <1>3 DEF St
<1>6. \A T \in Tu : T \cap S # {} => T \subseteq S
  BY <1>4 DEF Tu, TurnInv
<1>7. Tu' = {T \in Tu : T \cap S = {}}
  BY <1>2, <1>4 DEF Tu
<1>8. St' = [i \in Items |-> IF i \in S THEN "lost" ELSE St[i]]
  BY <1>2 DEF St
<1>9. UNCHANGED Ch
  BY <1>2 DEF Ch
<1>10. Service!Lose(S)
  BY <1>2, <1>5, <1>6, <1>7, <1>8, <1>9 DEF Service!Lose, Service!Become, Ch, St, Tu
<1> QED BY <1>10

LEMMA SimulationStep ==
    ASSUME IInv, TurnInv, [Next]_vars
    PROVE  [Service!Next]_(Service!vars)
<1>0. /\ ActorTypes /\ HomeInv /\ BatchInv /\ FreshInv /\ AnswerInv
  BY DEF IInv
<1>1. CASE UNCHANGED vars
  BY <1>1, StutterMap DEF vars, Ch, St, Tu
<1>2. CASE QuietStep
  <2>1. UNCHANGED <<St, Tu, answers>>
    BY <1>0, <1>2, QuietFrame DEF replyVars, St, Tu
  <2>2. Ch' \in {"human", "bot", "nobody"}
    BY DEF Ch, InCharge
  <2>3. Service!ChangeCharge
    BY <2>1, <2>2 DEF Service!ChangeCharge, Ch, St, Tu
  <2> QED BY <2>3 DEF Service!Next
<1>3. ASSUME NEW w \in Workers, EmitReceived(w) PROVE Service!Next
  <2>1. PICK i \in Items : i = item[w]
    BY <1>0, <1>3 DEF EmitReceived, Goto, FreshInv
  <2>2. Service!Hear(i)
    BY <1>0, <1>3, <2>1, EmitMaps
  <2> QED BY <2>2 DEF Service!Next
<1>4. ASSUME NEW i \in Items, ListenerStep(i) PROVE [Service!Next]_(Service!vars)
  BY <1>0, <1>4, ListenerMaps
<1>5. CASE Tick
  BY <1>5, ChargeMap, StutterMap DEF Tick, St, Tu
<1>6. ASSUME NEW w \in Workers, FlushDue(w) PROVE Service!Next
  <2>1. PICK S \in SUBSET Items : S = Buffer(w)
    BY DEF Buffer
  <2>2. S # {} /\ Flush(w, S) /\ FlushInv(w, S) /\ UNCHANGED <<botVars, answers>>
    BY <1>6, <2>1 DEF FlushDue, FlushInv
  <2>3. Service!Gather(S)
    BY <1>0, <2>2, GatherMaps
  <2> QED BY <2>3 DEF Service!Next
<1>7. ASSUME NEW b \in batches, BatchStep(b) PROVE [Service!Next]_(Service!vars)
  BY <1>0, <1>7, BatchMaps
<1>8. ASSUME NEW w \in Workers, Crash(w) PROVE Service!Next
  <2>1. PICK S \in SUBSET Items : Service!Lose(S)
    BY <1>0, <1>8, CrashMaps
  <2> QED BY <2>1 DEF Service!Next
<1> QED
  BY <1>1, <1>2, <1>3, <1>4, <1>5, <1>6, <1>7, <1>8 DEF Next, QuietStep

(* The webhook consumer, BotEventListener, MessageBufferService and        *)
(* processBufferedMessages, in several processes that crash, with agents   *)
(* that take over meanwhile: what contact and agents see is one            *)
(* AnsweringService.                                                       *)
THEOREM ServiceRefinement == Spec => ImplementsService
<1>1. Init => IInv /\ TurnInv
  BY InitIInv DEF Init, TurnInv
<1>2. Init => Service!Init
  BY DEF Init, Service!Init, InCharge
<1>3. IInv /\ TurnInv /\ [Next]_vars => (IInv /\ TurnInv)'
  <2> SUFFICES ASSUME IInv, TurnInv, [Next]_vars PROVE (IInv /\ TurnInv)'
    OBVIOUS
  <2>1. IInv'
    BY NextIInv
  <2>2. CASE Next
    BY <2>1, <2>2, StepTurnInv DEF IInv
  <2>3. CASE UNCHANGED vars
    BY <2>1, <2>3 DEF vars, TurnInv
  <2> QED BY <2>2, <2>3
<1>4. IInv /\ TurnInv /\ [Next]_vars => [Service!Next]_(Service!vars)
  BY SimulationStep
<1> QED BY <1>1, <1>2, <1>3, <1>4, PTL DEF Spec, ImplementsService, Service!Spec
(* A verdict is final: an item that was answered, apologised for, declined *)
(* because a human had the conversation, given up or lost keeps that       *)
(* stage, and its answers are never added to, whoever takes the            *)
(* conversation over or hands it back, and whatever else is redelivered,   *)
(* flushed or lost.                                                        *)
SettledForGood ==
    [][\A i \in Items : stage[i] \in Settled =>
          stage'[i] = stage[i] /\ answers'[i] = answers[i]]_vars

(* A flush takes items that wait or have just been checked.                *)
LEMMA FlushKeeps ==
    ASSUME ActorTypes, NEW w \in Workers, NEW S \in SUBSET Items,
           \A i \in S : stage[i] \in {"checked", "buffered"}, Flush(w, S),
           NEW i \in Items, stage[i] \in Settled
    PROVE  stage'[i] = stage[i]
BY DEF Flush, Settled

LEMMA VerdictStep ==
    ASSUME ActorTypes, HomeInv, BatchInv, FreshInv, Next,
           NEW i \in Items, stage[i] \in Settled
    PROVE  stage'[i] = stage[i] /\ answers'[i] = answers[i]
<1>0. \A b \in batches : b.items \in SUBSET Items /\ i \notin b.items
  BY BatchTypes DEF ActorTypes, BatchInv, Settled
<1>1. CASE QuietStep
  BY <1>1, QuietFrame DEF replyVars
<1>2. ASSUME NEW w \in Workers, EmitReceived(w)
      PROVE  stage'[i] = stage[i] /\ answers'[i] = answers[i]
  <2>1. /\ stage[item[w]] = "none" /\ answers' = answers
        /\ stage' = [stage EXCEPT ![item[w]] = "received"]
    BY <1>2 DEF EmitReceived, Goto, FreshInv
  <2> QED BY <2>1 DEF ActorTypes, ReplyOK, Settled
<1>3. ASSUME NEW k \in Items, ListenerStep(k)
      PROVE  stage'[i] = stage[i] /\ answers'[i] = answers[i]
  <2>1. stage[k] \in {"received", "checked"} /\ answers' = answers
    BY <1>3, ListenerCases
  <2>2. ASSUME NEW s, stage' = [stage EXCEPT ![k] = s] PROVE stage'[i] = stage[i]
    BY <2>1, <2>2 DEF ActorTypes, ReplyOK, Settled
  <2>3. CASE stage[k] = "checked" /\ AddToBuffer(home[k], k)
    <3>1. CASE age[home[k]] >= MaxBufferTime
      <4>1. home[k] \in Workers
        BY <2>3 DEF HomeInv
      <4>2. Flush(home[k], Buffer(home[k]) \cup {k})
        BY <2>3, <3>1 DEF AddToBuffer
      <4>3. \A x \in Buffer(home[k]) \cup {k} :
                x \in Items /\ stage[x] \in {"checked", "buffered"}
        BY <2>3 DEF Buffer
      <4> QED BY <2>1, <4>1, <4>2, <4>3, FlushKeeps
    <3>2. CASE ~ (age[home[k]] >= MaxBufferTime)
      <4>1. stage' = [stage EXCEPT ![k] = "buffered"]
        BY <2>3, <3>2 DEF AddToBuffer
      <4> QED BY <2>1, <2>2, <4>1
    <3> QED BY <3>1, <3>2
  <2> QED BY <1>3, <2>1, <2>2, <2>3, ListenerCases
<1>4. CASE Tick
  BY <1>4 DEF Tick
<1>5. ASSUME NEW w \in Workers, FlushDue(w)
      PROVE  stage'[i] = stage[i] /\ answers'[i] = answers[i]
  <2>1. Flush(w, Buffer(w)) /\ answers' = answers
    BY <1>5 DEF FlushDue
  <2> QED BY <2>1, FlushKeeps DEF Buffer
<1>6. ASSUME NEW b \in batches, BatchStep(b)
      PROVE  stage'[i] = stage[i] /\ answers'[i] = answers[i]
  <2>1. UNCHANGED stage \/ Settle(b, "answered") \/ Settle(b, "apologised")
                        \/ Settle(b, "declined")
    BY <1>6, BatchCases
  <2>2. stage'[i] = stage[i]
    BY <1>0, <2>1 DEF Settle
  <2>3. UNCHANGED answers \/ Answered(b)
    BY <1>6, BatchCases
  <2>4. answers'[i] = answers[i]
    BY <1>0, <2>3 DEF Answered
  <2> QED BY <2>2, <2>4
<1>7. ASSUME NEW w \in Workers, Crash(w)
      PROVE  stage'[i] = stage[i] /\ answers'[i] = answers[i]
  BY <1>7 DEF Crash
<1> QED BY <1>1, <1>2, <1>3, <1>4, <1>5, <1>6, <1>7 DEF Next, QuietStep

(* From the inductive invariant: an item with a verdict is in no buffer,   *)
(* in no batch and in no listener.                                         *)
THEOREM VerdictIsFinal == Spec => SettledForGood
<1>1. IInv /\ [Next]_vars =>
        [\A i \in Items : stage[i] \in Settled =>
            stage'[i] = stage[i] /\ answers'[i] = answers[i]]_vars
  BY VerdictStep DEF IInv
<1> QED BY <1>1, InitIInv, NextIInv, PTL DEF Spec, SettledForGood
===============================================================================
