------------------------------ MODULE BotReplies ------------------------------
(***************************************************************************)
(* From a webhook to the bot's reply: the webhooks queue and its consumer, *)
(* ConversationsService.findOrCreateFromWebhook and addMessage, the        *)
(* listener that decides whether the bot or a human answers, the message   *)
(* buffer, the execution of a flushed buffer, and the requests of agents   *)
(* that write the same conversation row meanwhile.                         *)
(*                                                                         *)
(* One contact talks in one conversation that exists already.  Of its row  *)
(* the model keeps metadata.humanTakeover.  Repository.save(copy) writes   *)
(* every column in which the copy differs from the row as it is then, and  *)
(* metadata is one column: a save of an old copy writes the old            *)
(* humanTakeover back.                                                     *)
(*                                                                         *)
(* A worker stands for a process: its webhook consumer (concurrency 1, the *)
(* default of @Processor), and, in its memory, its listeners, its buffer   *)
(* and its batches.  A payload carries one message; a message that a       *)
(* stalled entry delivers again is another item.                           *)
(***************************************************************************)
EXTENDS JobQueue

CONSTANTS Clients,        \* requests of agents, one each
          ClientOps,      \* the requests they may make
          NoItem,         \* the item of an idle consumer
          BufferDelay,    \* BUFFER_DELAY, in ticks
          MaxBufferTime,  \* MAX_BUFFER_TIME, in ticks
          Faults,         \* the kinds of fault that may happen
          MaxFaults       \* bound on the faults of one behaviour

Items == Jobs \X (0 .. MaxStalls)

ASSUME ReplyAssumption ==
    /\ Workers \cap Clients = {}
    /\ ClientOps \subseteq {"takeover", "handback", "touch"}
    /\ NoItem \notin Items
    /\ BufferDelay \in Nat \ {0} /\ MaxBufferTime \in Nat
    /\ Faults \subseteq {"db", "quota", "model", "send", "crash", "lock"}
    /\ MaxFaults \in Nat

VARIABLES human,    \* metadata.humanTakeover of the conversation
          active,   \* isActive of the bot
          pc,       \* where a consumer or a request is
          item,     \* the item a consumer works on
          op,       \* the request a client made
          copy,     \* humanTakeover in the copy of the row it holds
          stored,   \* items whose message is in the history
          stage,    \* how far an item has got after message.received
          home,     \* the process it is in the memory of
          timer,    \* ticks until the timer of a process's buffer fires
          age,      \* ticks since the first message in that buffer
          batches,  \* flushed buffers being processed
          answers,  \* answers the contact got to an item
          duty,     \* who has been in charge since message.received
          faults    \* faults so far

actorVars == <<pc, item, op, copy>>
bufferVars == <<timer, age>>
vars == <<queue, human, active, actorVars, stored, stage, home, bufferVars,
          batches, answers, duty, faults>>

Actors == Workers \cup Clients

(* "received": its listener is about to read the conversation; "checked":  *)
(* about to read the bot.  The last five are where an item ends: the bot   *)
(* declined it, a reply or an apology was tried, an error was logged, or   *)
(* the process died with it in memory.                                     *)
Settled == {"declined", "answered", "apologised", "failed", "lost"}
Stages == {"none", "received", "checked", "buffered", "flushed"} \cup Settled

Batches == [items : SUBSET Items, at : {"bot", "model", "send", "apologise"}]

Buffer(w) == {i \in Items : stage[i] = "buffered" /\ home[i] = w}

(* Who is in charge of the conversation; "mixed" in duty: it has changed.  *)
InCharge(h, a) == IF h THEN "human" ELSE IF a THEN "bot" ELSE "nobody"

TypeOK ==
    /\ QueueTypeOK
    /\ human \in BOOLEAN /\ active \in BOOLEAN
    /\ pc \in [Actors -> {"idle", "touch", "reload", "store", "save", "emit", "ack",
                          "done"}]
    /\ item \in [Workers -> Items \cup {NoItem}]
    /\ \A w \in Workers : pc[w] = "idle" <=> item[w] = NoItem
    /\ op \in [Clients -> ClientOps \cup {"none"}]
    /\ copy \in [Actors -> BOOLEAN]
    /\ stored \in SUBSET Items
    /\ stage \in [Items -> Stages]
    /\ home \in [Items -> Workers \cup {NoWorker}]
    /\ timer \in [Workers -> 0 .. BufferDelay]
    /\ age \in [Workers -> Nat]
    /\ batches \in SUBSET Batches
    /\ answers \in [Items -> Nat]
    /\ duty \in [Items -> {"human", "bot", "nobody", "mixed"}]
    /\ faults \in 0 .. MaxFaults

Init ==
    /\ QueueInit
    /\ human = FALSE /\ active = TRUE
    /\ pc = [a \in Actors |-> "idle"]
    /\ item = [w \in Workers |-> NoItem]
    /\ op = [c \in Clients |-> "none"]
    /\ copy = [a \in Actors |-> FALSE]
    /\ stored = {}
    /\ stage = [i \in Items |-> "none"]
    /\ home = [i \in Items |-> NoWorker]
    /\ timer = [w \in Workers |-> 0]
    /\ age = [w \in Workers |-> 0]
    /\ batches = {}
    /\ answers = [i \in Items |-> 0]
    /\ duty = [i \in Items |-> "mixed"]
    /\ faults = 0

Fault(kind) == kind \in Faults /\ faults < MaxFaults /\ faults' = faults + 1

Goto(a, from, to) == pc[a] = from /\ pc' = [pc EXCEPT ![a] = to]

Charge(h, a) ==
    /\ human' = h /\ active' = a
    /\ duty' = [i \in Items |-> IF duty[i] = InCharge(h, a) THEN duty[i]
                                                            ELSE "mixed"]

(* save(copy), for a copy whose humanTakeover is h.                        *)
SaveConversation(h) == Charge(h, active)

-------------------------------------------------------------------------------
(* The consumer of the webhooks queue.                                     *)

(* BaseWebhookProcessor.handle: the entry is queued without a jobId.       *)
ReceiveWebhook(m) ==
    /\ queue[m].state = "absent"
    /\ Add(m)
    /\ UNCHANGED <<human, active, actorVars, stored, stage, home, bufferVars,
                   batches, answers, duty, faults>>

replyVars == <<stage, home, bufferVars, batches, answers>>

(* The consumer takes an entry and finds the channel and the conversation. *)
FindConversation(w, m) ==
    /\ Take(w, m)
    /\ Goto(w, "idle", "touch")
    /\ item' = [item EXCEPT ![w] = <<m, queue[m].stalls>>]
    /\ copy' = [copy EXCEPT ![w] = human]
    /\ UNCHANGED <<human, active, op, stored, replyVars, duty, faults>>

(* findOrCreateFromWebhook: status, lastMessageAt and the channel's        *)
(* metadata are set on the copy, and the copy is saved.                    *)
TouchConversation(w) ==
    /\ Goto(w, "touch", "reload")
    /\ SaveConversation(copy[w])
    /\ UNCHANGED <<queue, item, op, copy, stored, replyVars, faults>>

(* addMessage reads the conversation again, for an agent's message too.    *)
ReloadConversation(w) ==
    /\ Goto(w, "reload", "store")
    /\ copy' = [copy EXCEPT ![w] = human]
    /\ UNCHANGED <<queue, human, active, item, op, stored, replyVars, duty, faults>>

(* The message is stored, unless the workspace has used its quota up.      *)
StoreMessage(w) ==
    /\ \/ /\ Goto(w, "store", "save")
          /\ stored' = stored \cup {item[w]}
          /\ UNCHANGED faults
       \/ /\ Goto(w, "store", "ack")
          /\ Fault("quota")
          /\ UNCHANGED stored
    /\ UNCHANGED <<queue, human, active, item, op, copy, replyVars, duty>>

(* lastMessageAt is set on the copy that was read before the quota check   *)
(* and the insert, and the copy is saved; the usage is incremented.        *)
SaveLastMessage(w) ==
    /\ Goto(w, "save", "emit")
    /\ SaveConversation(copy[w])
    /\ UNCHANGED <<queue, item, op, copy, stored, replyVars, faults>>

(* message.received starts the listener.                                   *)
EmitReceived(w) ==
    /\ Goto(w, "emit", "ack")
    /\ stage' = [stage EXCEPT ![item[w]] = "received"]
    /\ home' = [home EXCEPT ![item[w]] = w]
    /\ duty' = [duty EXCEPT ![item[w]] = InCharge(human, active)]
    /\ UNCHANGED <<queue, human, active, item, op, copy, stored, bufferVars,
                   batches, answers, faults>>

(* A database call throws: processPayload collects the error and returns   *)
(* {success: false}, so the consumer does not throw.                       *)
ProcessingThrows(w) ==
    /\ pc[w] \in {"touch", "reload", "store", "save", "emit"}
    /\ Fault("db")
    /\ pc' = [pc EXCEPT ![w] = "ack"]
    /\ UNCHANGED <<queue, human, active, item, op, copy, stored, replyVars, duty>>

(* Mutant: the consumer does not go back to idle.                          *)
AckWebhookKeeps(w) ==
    /\ Goto(w, "ack", "idle")
    /\ Finish(w, item[w][1])
    /\ UNCHANGED <<human, active, item, op, copy, stored, replyVars, duty, faults>>

(* process returns a result, whatever it says: the entry is completed.     *)
AckWebhook(w) ==
    /\ Goto(w, "ack", "idle")
    /\ Finish(w, item[w][1])
    /\ item' = [item EXCEPT ![w] = NoItem]
    /\ UNCHANGED <<human, active, op, copy, stored, replyVars, duty, faults>>

-------------------------------------------------------------------------------
(* BotEventListener.                                                       *)

queueVars == <<queue, actorVars, stored>>
botVars == <<human, active, duty>>

(* Mutant: the humanTakeover flag is not looked at.                        *)
CheckTakeoverNot(i) ==
    /\ stage[i] = "received"
    /\ stage' = [stage EXCEPT ![i] = "checked"]
    /\ UNCHANGED <<queueVars, botVars, home, bufferVars, batches, answers, faults>>

CheckTakeover(i) ==
    /\ stage[i] = "received"
    /\ stage' = [stage EXCEPT ![i] = IF human THEN "declined" ELSE "checked"]
    /\ UNCHANGED <<queueVars, botVars, home, bufferVars, batches, answers, faults>>

(* Mutants: the buffer is not deleted; onFlush is not called.              *)
FlushNotDeleted(w, items) ==
    /\ batches' = batches \cup {[items |-> items, at |-> "bot"]}
    /\ timer' = [timer EXCEPT ![w] = BufferDelay]
    /\ UNCHANGED <<stage, age>>
FlushNotCalled(w, items) ==
    /\ stage' = [i \in Items |-> IF i \in items THEN "flushed" ELSE stage[i]]
    /\ timer' = [timer EXCEPT ![w] = 0]
    /\ age' = [age EXCEPT ![w] = 0]
    /\ UNCHANGED batches

(* flushBuffer deletes the buffer, and its messages start a batch.         *)
Flush(w, items) ==
    /\ batches' = batches \cup {[items |-> items, at |-> "bot"]}
    /\ stage' = [i \in Items |-> IF i \in items THEN "flushed" ELSE stage[i]]
    /\ timer' = [timer EXCEPT ![w] = 0]
    /\ age' = [age EXCEPT ![w] = 0]

(* Mutant: the timer always starts again.                                  *)
AddToBufferAlways(w, i) ==
    /\ stage' = [stage EXCEPT ![i] = "buffered"]
    /\ timer' = [timer EXCEPT ![w] = BufferDelay]
    /\ UNCHANGED <<age, batches>>

(* MessageBufferService.addMessage: the timer starts again with every      *)
(* message, unless the oldest one has waited for MaxBufferTime.            *)
AddToBuffer(w, i) ==
    IF age[w] >= MaxBufferTime
      THEN Flush(w, Buffer(w) \cup {i})
      ELSE /\ stage' = [stage EXCEPT ![i] = "buffered"]
           /\ timer' = [timer EXCEPT ![w] = BufferDelay]
           /\ UNCHANGED <<age, batches>>

(* The listener reads the bot and, if it is active, the event of the bot's *)
(* turn puts the message into the buffer without another await.            *)
CheckBot(i) ==
    /\ stage[i] = "checked"
    /\ \/ active /\ AddToBuffer(home[i], i)
       \/ /\ ~ active
          /\ stage' = [stage EXCEPT ![i] = "declined"]
          /\ UNCHANGED <<bufferVars, batches>>
    /\ UNCHANGED <<queueVars, botVars, home, answers, faults>>

(* A read throws, and the listener logs it.                                *)
ListenerThrows(i) ==
    /\ stage[i] \in {"received", "checked"}
    /\ Fault("db")
    /\ stage' = [stage EXCEPT ![i] = "failed"]
    /\ UNCHANGED <<queueVars, botVars, home, bufferVars, batches, answers>>

-------------------------------------------------------------------------------
(* The buffer's timer.  It fires in the tick in which it is due.           *)

FlushDue(w) ==
    /\ Buffer(w) # {} /\ timer[w] = 0
    /\ Flush(w, Buffer(w))
    /\ UNCHANGED <<queueVars, botVars, home, answers, faults>>

Tick ==
    /\ \E w \in Workers : Buffer(w) # {}
    /\ \A w \in Workers : Buffer(w) # {} => timer[w] > 0
    /\ timer' = [w \in Workers |-> IF Buffer(w) # {} THEN timer[w] - 1 ELSE timer[w]]
    /\ age' = [w \in Workers |-> IF Buffer(w) # {} THEN age[w] + 1 ELSE age[w]]
    /\ UNCHANGED <<queueVars, botVars, stage, home, batches, answers, faults>>

-------------------------------------------------------------------------------
(* processBufferedMessages: the messages of a batch are one question, and  *)
(* are dealt with together.                                                *)

Advance(b, at) == batches' = (batches \ {b}) \cup {[b EXCEPT !.at = at]}

(* Mutant: only one message of the batch is dealt with.                    *)
SettleOne(b, outcome) ==
    /\ batches' = batches \ {b}
    /\ stage' = [stage EXCEPT ![CHOOSE i \in b.items : TRUE] = outcome]

Settle(b, outcome) ==
    /\ batches' = batches \ {b}
    /\ stage' = [i \in Items |-> IF i \in b.items THEN outcome ELSE stage[i]]

batchFrame == <<queueVars, botVars, home, bufferVars>>

(* Mutant: the bot must not be active.                                     *)
FindBotNot(b) ==
    /\ b.at = "bot"
    /\ \/ ~ active /\ Advance(b, "model") /\ UNCHANGED stage
       \/ active /\ Settle(b, "declined")
    /\ UNCHANGED <<batchFrame, answers, faults>>

(* The bot is read a second time.                                          *)
FindBot(b) ==
    /\ b.at = "bot"
    /\ \/ active /\ Advance(b, "model") /\ UNCHANGED stage
       \/ ~ active /\ Settle(b, "declined")
    /\ UNCHANGED <<batchFrame, answers, faults>>

(* The answer is generated and saved; one that cannot be saved is only     *)
(* logged, and sent all the same.                                          *)
AskModel(b) == b.at = "model" /\ Advance(b, "send")
               /\ UNCHANGED <<batchFrame, stage, answers, faults>>

Answered(b) ==
    answers' = [i \in Items |-> IF i \in b.items THEN answers[i] + 1 ELSE answers[i]]

(* The channel's API may have delivered a message that it reports failed.  *)
SendAnswer(b) ==
    /\ b.at = "send"
    /\ \/ Answered(b) /\ Settle(b, "answered") /\ UNCHANGED faults
       \/ /\ Fault("send")
          /\ Answered(b) \/ UNCHANGED answers
          /\ Advance(b, "apologise") /\ UNCHANGED stage
    /\ UNCHANGED batchFrame

(* The apology is sent, or cannot be.                                      *)
Apologise(b) == b.at = "apologise" /\ Settle(b, "apologised")
                /\ UNCHANGED <<batchFrame, answers, faults>>

BatchThrows(b) ==
    /\ \/ b.at = "bot" /\ Fault("db")
       \/ b.at = "model" /\ Fault("model")
    /\ Advance(b, "apologise")
    /\ UNCHANGED <<batchFrame, stage, answers>>

-------------------------------------------------------------------------------
(* Agents' requests.                                                       *)

(* takeover, handback, and what writes the row for another reason ("touch":*)
(* updateStatus, addMessage) read the whole row first.                     *)
Request(c) ==
    /\ Goto(c, "idle", "save")
    /\ \E o \in ClientOps : op' = [op EXCEPT ![c] = o]
    /\ copy' = [copy EXCEPT ![c] = human]
    /\ UNCHANGED <<queue, human, active, item, stored, replyVars, duty, faults>>

WriteConversation(c) ==
    /\ Goto(c, "save", "done")
    /\ SaveConversation(IF op[c] = "touch" THEN copy[c] ELSE op[c] = "takeover")
    /\ UNCHANGED <<queue, item, op, copy, stored, replyVars, faults>>

RequestThrows(c) ==
    /\ Goto(c, "save", "done")
    /\ Fault("db")
    /\ UNCHANGED <<queue, human, active, item, op, copy, stored, replyVars, duty>>

(* A PATCH of the bot carries isActive (pausing a bot sets its status, and *)
(* leaves isActive alone).                                                 *)
SwitchBot ==
    /\ Charge(human, ~ active)
    /\ UNCHANGED <<queueVars, replyVars, faults>>

-------------------------------------------------------------------------------
(* A process dies, with what its memory holds, and is started again.       *)
Crash(w) ==
    /\ pc[w] # "idle" \/ \E i \in Items : home[i] = w /\ stage[i] \notin Settled
    /\ Fault("crash")
    /\ pc' = [pc EXCEPT ![w] = "idle"]
    /\ item' = [item EXCEPT ![w] = NoItem]
    /\ stage' = [i \in Items |-> IF home[i] = w /\ stage[i] \notin Settled
                                   THEN "lost" ELSE stage[i]]
    /\ batches' = {b \in batches : \A i \in b.items : home[i] # w}
    /\ timer' = [timer EXCEPT ![w] = 0]
    /\ age' = [age EXCEPT ![w] = 0]
    /\ UNCHANGED <<queue, human, active, op, copy, stored, home, answers, duty>>

LockExpired(m) ==
    /\ queue[m].state = "active"
    /\ item[queue[m].owner] \notin {m} \X (0 .. MaxStalls)

(* The entry of a dead consumer, or of one that runs on without its lock.  *)
StalledCheck(m) ==
    /\ Stall(m)
    /\ \/ LockExpired(m) /\ UNCHANGED faults
       \/ ~ LockExpired(m) /\ Fault("lock")
    /\ UNCHANGED <<human, active, actorVars, stored, replyVars, duty>>

-------------------------------------------------------------------------------
WorkerStep(w) ==
    \/ \E m \in Jobs : FindConversation(w, m)
    \/ TouchConversation(w) \/ ReloadConversation(w) \/ StoreMessage(w)
    \/ SaveLastMessage(w) \/ EmitReceived(w)
    \/ ProcessingThrows(w) \/ AckWebhook(w)

ListenerStep(i) == CheckTakeover(i) \/ CheckBot(i) \/ ListenerThrows(i)

BatchStep(b) == FindBot(b) \/ AskModel(b) \/ SendAnswer(b) \/ Apologise(b)
                \/ BatchThrows(b)

ClientStep(c) == WriteConversation(c) \/ RequestThrows(c)

Next ==
    \/ \E m \in Jobs : ReceiveWebhook(m) \/ StalledCheck(m)
    \/ \E w \in Workers : WorkerStep(w) \/ FlushDue(w) \/ Crash(w)
    \/ \E i \in Items : ListenerStep(i)
    \/ \E b \in batches : BatchStep(b)
    \/ \E c \in Clients : Request(c) \/ ClientStep(c)
    \/ SwitchBot \/ Tick

Spec == Init /\ [][Next]_vars

(* Handlers that have begun run on, timers fire, and BullMQ serves and     *)
(* checks the entries; which requests are made is free.                    *)
Fairness ==
    /\ \A w \in Workers : WF_vars(WorkerStep(w)) /\ WF_vars(FlushDue(w))
    /\ \A i \in Items : WF_vars(ListenerStep(i))
    /\ \A S \in SUBSET Items :
           WF_vars(\E b \in batches : b.items = S /\ BatchStep(b))
    /\ \A m \in Jobs : WF_vars(LockExpired(m) /\ StalledCheck(m))
    /\ WF_vars(Tick)

FairSpec == Spec /\ Fairness

-------------------------------------------------------------------------------
(* Properties.                                                             *)

(* A message waits in the buffer for less than MAX_BUFFER_TIME plus        *)
(* BUFFER_DELAY, however many more messages keep resetting the timer.      *)
BufferWaitBounded ==
    \A w \in Workers :
        Buffer(w) # {} => age[w] + timer[w] < MaxBufferTime + BufferDelay

(* A message is answered once, in whatever batches it is flushed and       *)
(* whatever the sends report; again only if its entry stalled.             *)
OneReply ==
    \A m \in Jobs, n \in 0 .. MaxStalls :
        /\ answers[<<m, n>>] =< 1
        /\ answers[<<m, n>>] = 1 => n =< queue[m].stalls

(* If a human has been in charge ever since the listener was told of a     *)
(* message, the bot neither buffers nor answers it.                        *)
TakenOverIsSilent ==
    \A i \in Items :
        stage[i] \in {"buffered", "flushed", "answered", "apologised"} =>
            duty[i] # "human"

(* The bot declines a message only if it was not in charge all the time.   *)
OnDutyAnswers ==
    \A i \in Items : stage[i] = "declined" => duty[i] # "bot"

(* Every delivered webhook is worked off: its entry leaves the queue, and  *)
(* what was emitted for it is settled, through buffer, batch and crashes.  *)
WebhooksSettle ==
    \A m \in Jobs :
        queue[m].state = "waiting" ~>
            /\ queue[m].state \in {"removed", "failed"}
            /\ \A n \in 0 .. MaxStalls : stage[<<m, n>>] \in Settled \cup {"none"}

(* What contact and agents see: a message is heard once it is emitted, and *)
(* admitted once the takeover flag has been looked at; batches are turns.  *)
Service == INSTANCE AnsweringService WITH
    Messages <- Items,
    charge   <- InCharge(human, active),
    state    <- [i \in Items |->
                    IF stage[i] = "received" THEN "heard"
                    ELSE IF stage[i] \in {"checked", "buffered", "flushed"} THEN "admitted"
                    ELSE stage[i]],
    turns    <- {b.items : b \in batches}

(* Consumers, listeners, buffers and batches of all processes together     *)
(* are one such service.                                                   *)
ImplementsService == Service!Spec

(* What the repository says and the code does not do.                      *)

(* "Hand Back - Agent returns conversation to bot": nothing else ends a    *)
(* takeover.                                                               *)
TakeoverLasts ==
    [][human /\ ~ human' =>
         \E c \in Clients : op[c] = "handback" /\ pc[c] = "save"
                            /\ pc'[c] = "done"]_vars
===============================================================================
