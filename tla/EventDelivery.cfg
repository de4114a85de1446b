\* Two callbacks, one of either kind of controller; two clients and a watched
\* order share two connections.
SPECIFICATION DeliverySpec
CONSTANTS
  onInit = onInit
  onStatus = onStatus
  order = order
  transaction = transaction
  Callback = {onInit, onStatus}
  ProcessFirst = {onInit}
  MaxPush = 2
  Client = {k1, k2}
  Topic = {order}
  MaxOpened = 2
  Transaction = {transaction}
  None = None
  TransactionOf <- MCTransactionOf
  TopicOf <- MCTopicOf
INVARIANTS
  NoEventBeforeAck
  WrittenOnce
  OpenIsRegistered
PROPERTIES
  PushedReachesClient
  ImplementsAckedDelivery
\* Callbacks and connections may all be over.
CHECK_DEADLOCK FALSE
