------------------------------ MODULE OrderBook ------------------------------
(***************************************************************************)
(* What booking promises about the logistics_order table, whatever happens *)
(* to requests, callbacks and processes in between: an order is written    *)
(* only from an /init of its own transaction that an LSP has quoted for,   *)
(* it never disappears, and it never moves to another transaction.         *)
(***************************************************************************)
CONSTANTS Txn, InitReq, OrderId, None

VARIABLES quotedIn,  \* the transaction of an /init once it has been quoted
          book       \* the orders: their transaction and the /init they
                     \* were made from

obVars == <<quotedIn, book>>

ObInit ==
  /\ quotedIn = [i \in InitReq |-> None]
  /\ book = [o \in OrderId |-> None]

StoreQuote(i) ==
  /\ quotedIn[i] = None
  /\ \E t \in Txn : quotedIn' = [quotedIn EXCEPT ![i] = t]
  /\ UNCHANGED book

WriteOrder(o, i) ==
  /\ quotedIn[i] # None
  /\ book[o] # None => book[o].txn = quotedIn[i]
  /\ book' = [book EXCEPT ![o] = [txn |-> quotedIn[i], src |-> i]]
  /\ UNCHANGED quotedIn

ObNext ==
  \E i \in InitReq :
     \/ StoreQuote(i)
     \/ \E o \in OrderId : WriteOrder(o, i)

ObSpec == ObInit /\ [][ObNext]_obVars
==============================================================================
