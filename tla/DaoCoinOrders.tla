----------------------------- MODULE DaoCoinOrders -----------------------------
(***************************************************************************)
(* DAO coin limit orders as they pass through the backend: a client's      *)
(* float price and quantity are converted to the ledger's scaled rate and  *)
(* base-unit quantity, the ledger stores and partly fills the order, and   *)
(* GetDAOCoinLimitOrders / GetTransactorDAOCoinLimitOrders convert it back *)
(* for display (src/unnamed/part_003).                                     *)
(*                                                                         *)
(* The ledger (order book, matching) is an external collaborator: it       *)
(* appears only as the book and the fills it makes.                        *)
(***************************************************************************)
EXTENDS DaoCoinExchange, Bags, BagsExt, FiniteSets

CONSTANTS
    OrderIds,       \* ids of the orders the ledger may hold
    Transactors,    \* users placing orders
    DAOCoins,       \* DAO coins (DESO is the other coin)
    UnknownCoin,    \* a username or public key that resolves to no profile
    Prices,         \* request prices, as floats (units of 1/OneE38)
    Quantities,     \* request quantities, as floats
    FillAmounts,    \* base units the ledger may fill in one match
    NoOrder         \* an id the ledger holds no order under

ASSUME /\ DESO \notin DAOCoins
       /\ Prices \subseteq Int /\ Quantities \subseteq Int
       \* integer parts stay within what the code's getNumDigits returns from
       /\ \A f \in Prices \cup Quantities : f > -FloatUnit
       /\ FillAmounts \subseteq Nat \ {0}

Coins == {DESO} \cup DAOCoins
Pairs == {p \in Coins \X Coins : p[1] # p[2]}
OperationTypeStrings == {ASK, BID, "UNKNOWN"}

\* A ledger order entry (lib.DAOCoinLimitOrderEntry).
Orders == [transactor : Transactors, buy : Coins, sell : Coins,
           op : {LibASK, LibBID}, rate : 1..MaxUint, qty : 1..MaxUint]

\* DAOCoinLimitOrderEntryResponse; `id` stands for OrderID.
Entries == [id : OrderIds, transactor : Transactors, buy : Coins, sell : Coins,
            price : Int, quantity : Int, op : {ASK, BID}]

VARIABLES
    book,       \* the ledger's orders, by id
    requests,   \* history: the request each order was placed with, and
                \* whether the ledger has filled part of it since
    response,   \* the orders of the last read request, a bag of Entries
    expected,   \* history: ids the last read request was asking for
    status      \* outcome of the last request

vars == <<book, requests, response, expected, status>>

NoRequest == [none |-> TRUE]

(***************************************************************************)
(* Order creation.  The transaction-construction handler lies outside the  *)
(* modelled source; it converts the request with the exported converters  *)
(* and the ledger stores the result.                                       *)
(***************************************************************************)
CreateDAOCoinLimitOrder(id, t, pair, opStr, price, quantity) ==
    LET buy == pair[1]
        sell == pair[2]
        op == OrderOperationTypeToUint64(opStr)
    IN
    /\ requests[id] = NoRequest
    /\ \E rate \in CalculateScaledExchangeRate(buy, sell, price),
          qty \in CalculateQuantityToFillAsBaseUnits(buy, sell, opStr, quantity) :
          IF op.ok /\ rate.ok /\ qty.ok
          THEN /\ book' = [book EXCEPT ![id] =
                            [transactor |-> t, buy |-> buy, sell |-> sell,
                             op |-> op.val, rate |-> rate.val, qty |-> qty.val]]
               /\ requests' = [requests EXCEPT ![id] =
                            [buy |-> buy, sell |-> sell, op |-> opStr, price |-> price,
                             quantity |-> quantity, filled |-> FALSE]]
               /\ status' = "created"
          ELSE /\ status' = "rejected"
               /\ UNCHANGED <<book, requests>>
    /\ UNCHANGED <<response, expected>>

\* The ledger matches part or all of an order.  The model lets it take one
\* partial fill of an order (a FillAmounts match), and a full fill at any time.
FillOrder(id, amount) ==
    /\ book[id] # NoOrder
    /\ amount = book[id].qty \/ (amount \in FillAmounts /\ amount < book[id].qty /\ ~requests[id].filled)
    /\ book' = [book EXCEPT ![id] =
                  IF amount = book[id].qty THEN NoOrder
                  ELSE [@ EXCEPT !.qty = @ - amount]]
    /\ requests' = [requests EXCEPT ![id].filled = TRUE]
    /\ status' = "filled"
    /\ UNCHANGED <<response, expected>>

(***************************************************************************)
(* Reading orders back.                                                    *)
(***************************************************************************)
\* buildDAOCoinLimitOrderResponse: an order entry converted for display.
BuildDAOCoinLimitOrderResponse(id, buy, sell, o) ==
    LET opStr == OrderOperationTypeToString(o.op)
    IN  IF ~opStr.ok THEN Fail(opStr.err)
        ELSE Ok([id |-> id, transactor |-> o.transactor, buy |-> buy, sell |-> sell,
                 price |-> CalculateExchangeRateAsFloat(buy, sell, o.rate),
                 quantity |-> CalculateQuantityToFillAsFloat(buy, sell, opStr.val, o.qty),
                 op |-> opStr.val])

\* The responses of a set of built orders, skipping any that failed to build.
BuildResponses(built) == SetToBag({b.val : b \in {x \in built : x.ok}})

\* GetAllDAOCoinLimitOrdersForThisDAOCoinPair (ledger): orders buying b for s.
OrdersForPair(b, s) ==
    {id \in OrderIds : book[id] # NoOrder /\ book[id].buy = b /\ book[id].sell = s}

\* buildDAOCoinLimitOrderResponsesFromEntriesForCoinPair
BuildResponsesForCoinPair(b, s, ids) ==
    BuildResponses({BuildDAOCoinLimitOrderResponse(id, b, s, book[id]) : id \in ids})

\* Mutant: the second direction built with the coins in the first's order.
GetDAOCoinLimitOrdersSameDirection(coin1, coin2) ==
    /\ IF \/ coin1 = DESO /\ coin2 = DESO
          \/ UnknownCoin \in {coin1, coin2}
       THEN /\ response' = EmptyBag
            /\ expected' = {}
            /\ status' = "read_error"
       ELSE /\ response' = BuildResponsesForCoinPair(coin1, coin2, OrdersForPair(coin1, coin2))
                           (+) BuildResponsesForCoinPair(coin1, coin2, OrdersForPair(coin2, coin1))
            /\ expected' = {id \in OrderIds : book[id] # NoOrder
                                             /\ {book[id].buy, book[id].sell} = {coin1, coin2}}
            /\ status' = "read"
    /\ UNCHANGED <<book, requests>>

\* GetDAOCoinLimitOrders.  DESO is asked for with the empty string, which is
\* also what "not given" looks like.
GetDAOCoinLimitOrders(coin1, coin2) ==
    /\ IF \/ coin1 = DESO /\ coin2 = DESO
          \/ UnknownCoin \in {coin1, coin2}
       THEN /\ response' = EmptyBag
            /\ expected' = {}
            /\ status' = "read_error"
       ELSE /\ response' = BuildResponsesForCoinPair(coin1, coin2, OrdersForPair(coin1, coin2))
                           (+) BuildResponsesForCoinPair(coin2, coin1, OrdersForPair(coin2, coin1))
            /\ expected' = {id \in OrderIds : book[id] # NoOrder
                                             /\ {book[id].buy, book[id].sell} = {coin1, coin2}}
            /\ status' = "read"
    /\ UNCHANGED <<book, requests>>

\* GetTransactorDAOCoinLimitOrders, with the coin of each order looked up by
\* getPublicKeyBase58CheckForPKID (the zero PKID, DESO, prints as "").
GetTransactorDAOCoinLimitOrders(t) ==
    LET ids == {id \in OrderIds : book[id] # NoOrder /\ book[id].transactor = t}
    IN  /\ response' = BuildResponses({BuildDAOCoinLimitOrderResponse(id, book[id].buy, book[id].sell, book[id]) :
                                          id \in ids})
        /\ expected' = ids
        /\ status' = "read"
        /\ UNCHANGED <<book, requests>>

Init ==
    /\ book = [id \in OrderIds |-> NoOrder]
    /\ requests = [id \in OrderIds |-> NoRequest]
    /\ response = EmptyBag
    /\ expected = {}
    /\ status = "none"

Next ==
    \/ \E id \in OrderIds, t \in Transactors, pair \in Pairs, opStr \in OperationTypeStrings,
          price \in Prices, quantity \in Quantities :
          CreateDAOCoinLimitOrder(id, t, pair, opStr, price, quantity)
    \/ \E id \in {i \in OrderIds : book[i] # NoOrder} :
          \E amount \in FillAmounts \cup {book[id].qty} : FillOrder(id, amount)
    \/ \E coin1, coin2 \in Coins \cup {UnknownCoin} : GetDAOCoinLimitOrders(coin1, coin2)
    \/ \E t \in Transactors : GetTransactorDAOCoinLimitOrders(t)

Spec == Init /\ [][Next]_vars

(***************************************************************************)
(* Properties.                                                             *)
(***************************************************************************)
Requests == [buy : Coins, sell : Coins, op : OperationTypeStrings, price : Prices,
             quantity : Quantities, filled : BOOLEAN]

TypeOK ==
    /\ book \in [OrderIds -> Orders \cup {NoOrder}]
    /\ requests \in [OrderIds -> Requests \cup {NoRequest}]
    /\ IsABag(response) /\ BagToSet(response) \subseteq Entries
    /\ expected \subseteq OrderIds
    /\ status \in {"none", "created", "rejected", "filled", "read", "read_error"}

\* The value of a float once formatFloatAsString has cut it to the supported
\* precision: what a request can at best ask for.
AtFloatPrecision(f) == {s.units : s \in FormatFloatAsString(f)}

\* The base-unit scale of a coin, and the coin an order's quantity counts:
\* the coin bought by a BID, the coin sold by an ASK.
ScaleDigitsOf(c) == IF c = DESO THEN NanosPerUnitDigits ELSE BaseUnitsPerCoinDigits
QuantityCoin(o) == IF o.op = LibBID THEN o.buy ELSE o.sell

\* A read of the orders of a pair, or of a transactor, lists every order it
\* asks for exactly once, under the coins and operation type it was placed
\* with and at the price it was placed at (GetDAOCoinLimitOrders builds the
\* two directions of the pair separately and skips entries that fail).
ReadShowsEachOrderAsPlaced ==
    /\ {e.id : e \in BagToSet(response)} = expected
    /\ BagCardinality(response) = Cardinality(expected)
    /\ \A e \in BagToSet(response) :
          LET r == requests[e.id]
          IN  /\ e.buy = r.buy /\ e.sell = r.sell /\ e.op = r.op
              /\ e.price \in AtFloatPrecision(r.price)

\* What the ledger stores is what was asked for, in the units the ledger
\* reads it in: the rate is base units of the selling coin per base unit of
\* the buying coin, times OneE38; the quantity, until a fill, is the
\* requested quantity in base units of the coin the operation names.
OrderDenomination ==
    \A id \in OrderIds : book[id] # NoOrder =>
        LET o == book[id]
            r == requests[id]
            b == ScaleDigitsOf(o.buy)
            s == ScaleDigitsOf(o.sell)
            m == IF b < s THEN b ELSE s
        IN  /\ \E p \in AtFloatPrecision(r.price) :
                  o.rate * 10^(b - m) = p * 10^(s - m)
            /\ ~r.filled =>
                  \E q \in AtFloatPrecision(r.quantity) :
                     o.qty = q \div 10^(OneE38Digits - ScaleDigitsOf(QuantityCoin(o)))

\* The price, quantity and operation a read shows for an order.
Displayed(o) ==
    LET opStr == OrderOperationTypeToString(o.op).val
    IN  [price |-> CalculateExchangeRateAsFloat(o.buy, o.sell, o.rate),
         quantity |-> CalculateQuantityToFillAsFloat(o.buy, o.sell, opStr, o.qty),
         op |-> opStr]

\* The spec (section 3): a value converted from canonical form is truncated,
\* never rounded up.  So the remaining quantity a read shows, sent back as an
\* order, never asks for more than remains on the book.
DisplayedQuantityNeverExceedsRemaining ==
    \A id \in OrderIds : book[id] # NoOrder =>
        LET o == book[id]
            d == Displayed(o)
        IN  \A r \in CalculateQuantityToFillAsBaseUnits(o.buy, o.sell, d.op, d.quantity) :
               r.ok => r.val <= o.qty

=============================================================================
