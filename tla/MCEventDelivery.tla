---------------------------- MODULE MCEventDelivery ----------------------------
(* The two kinds of controller, one transaction, an order that is watched.  *)
EXTENDS EventDelivery

CONSTANTS onInit,    \* processed, then answered; not published
          onStatus,  \* answered, then processed; published for the order
          order, transaction

MCTransactionOf == [c \in Callback |-> transaction]
MCTopicOf == [c \in Callback |-> IF c = onStatus THEN order ELSE None]
==============================================================================
