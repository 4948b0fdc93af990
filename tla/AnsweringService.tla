--------------------------- MODULE AnsweringService ---------------------------
(***************************************************************************)
(* What a contact and the agents may expect of the bot, without webhooks,  *)
(* queue, processes, timers or saves of the conversation.                  *)
(*                                                                         *)
(*  - a message is admitted to the bot while no human is in charge, and    *)
(*    declined while the bot is not;                                       *)
(*  - admitted messages are gathered into turns, each message into one.    *)
(*    The messages of a turn have one fate: they are answered together, at *)
(*    most once, or get an apology, or are declined, or are lost with the  *)
(*    process.  An answer that is reported undelivered has perhaps been    *)
(*    delivered, and is followed by an apology, not by another answer;     *)
(*  - what has been settled stays so.                                      *)
(***************************************************************************)
EXTENDS Naturals

CONSTANT Messages

VARIABLES charge, state, turns, answers

vars == <<charge, state, turns, answers>>

Init ==
    /\ charge = "bot"
    /\ state = [m \in Messages |-> "none"]
    /\ turns = {}
    /\ answers = [m \in Messages |-> 0]

Become(S, s) == state' = [m \in Messages |-> IF m \in S THEN s ELSE state[m]]

Alone(m) == \A T \in turns : m \notin T

(* Agents take the conversation over and hand it back, and the bot is      *)
(* switched on and off.                                                    *)
ChangeCharge ==
    /\ charge' \in {"human", "bot", "nobody"}
    /\ UNCHANGED <<state, turns, answers>>

Hear(m) ==
    /\ state[m] = "none"
    /\ Become({m}, "heard")
    /\ UNCHANGED <<charge, turns, answers>>

Admit(m) ==
    /\ state[m] = "heard" /\ charge # "human"
    /\ Become({m}, "admitted")
    /\ UNCHANGED <<charge, turns, answers>>

Decline(m) ==
    /\ state[m] \in {"heard", "admitted"} /\ Alone(m) /\ charge # "bot"
    /\ Become({m}, "declined")
    /\ UNCHANGED <<charge, turns, answers>>

Fail(m) ==
    /\ state[m] \in {"heard", "admitted"} /\ Alone(m)
    /\ Become({m}, "failed")
    /\ UNCHANGED <<charge, turns, answers>>

Gather(S) ==
    /\ S # {} /\ \A m \in S : state[m] = "admitted" /\ Alone(m)
    /\ turns' = turns \cup {S}
    /\ UNCHANGED <<charge, state, answers>>

End(T, s) == turns' = turns \ {T} /\ Become(T, s)

Answer(T) ==
    /\ \A m \in T : answers[m] = 0
    /\ answers' = [m \in Messages |-> IF m \in T THEN 1 ELSE answers[m]]
    /\ End(T, "answered") \/ UNCHANGED <<turns, state>>
    /\ UNCHANGED charge

Apologise(T) == End(T, "apologised") /\ UNCHANGED <<charge, answers>>

DeclineTurn(T) ==
    /\ charge # "bot" /\ \A m \in T : answers[m] = 0
    /\ End(T, "declined")
    /\ UNCHANGED <<charge, answers>>

(* A process takes whole turns with it.                                    *)
Lose(S) ==
    /\ \A m \in S : state[m] \in {"heard", "admitted"}
    /\ \A T \in turns : T \cap S # {} => T \subseteq S
    /\ turns' = {T \in turns : T \cap S = {}}
    /\ Become(S, "lost")
    /\ UNCHANGED <<charge, answers>>

Next ==
    \/ ChangeCharge
    \/ \E m \in Messages : Hear(m) \/ Admit(m) \/ Decline(m) \/ Fail(m)
    \/ \E T \in turns : Answer(T) \/ Apologise(T) \/ DeclineTurn(T)
    \/ \E S \in SUBSET Messages : Gather(S) \/ Lose(S)

Spec == Init /\ [][Next]_vars
===============================================================================
