------------------------------ MODULE Catalog ------------------------------
(***************************************************************************)
(* The customer and the device that work orders refer to.  A deletion      *)
(* looks for access, counts the open orders and then deletes; a dealer may *)
(* add an order between any two of these.  The foreign keys of work_orders *)
(* refuse both a deletion of a row in use and an order without its row.    *)
(***************************************************************************)
CONSTANTS Clerks, Orders

VARIABLES
    present,    \* which of the two rows exist
    order,      \* each order: not created, open or final, and what it names
    clerk,      \* what each handler is doing
    deletedBy   \* who deleted each row

vars == <<present, order, clerk, deletedBy>>

Rows == {"customer", "device"}

\* The dealer whose device and orders these are, another one, and a dealer whose
\* token names no profile.
Deleters == {"HQ", "DEALER", "OTHER_DEALER", "NO_PROFILE"}

TypeOK ==
    /\ present \subseteq Rows
    /\ order \in [Orders -> [status : {"none", "open", "final"}, names : SUBSET Rows]]
    /\ clerk \in [Clerks -> [phase : {"idle", "count", "delete"}, row : Rows, by : Deleters]]
    /\ deletedBy \in [Rows -> SUBSET Deleters]

Init ==
    /\ present = Rows
    /\ order = [o \in Orders |-> [status |-> "none", names |-> {}]]
    /\ clerk = [h \in Clerks |-> [phase |-> "idle", row |-> "customer", by |-> "HQ"]]
    /\ deletedBy = [r \in Rows |-> {}]

-----------------------------------------------------------------------------
OrdersOf(r) == {o \in Orders : r \in order[o].names}
OpenOrdersOf(r) == {o \in OrdersOf(r) : order[o].status = "open"}

\* create relies on the foreign keys alone; the order may name this customer,
\* this device or both, and is the dealer's.
CreateOrder(o, names) ==
    /\ order[o].status = "none"
    /\ names # {} /\ names \subseteq present
    /\ order' = [order EXCEPT ![o] = [status |-> "open", names |-> names]]
    /\ UNCHANGED <<present, clerk, deletedBy>>

\* The order is completed or cancelled.
CloseOrder(o) ==
    /\ order[o].status = "open"
    /\ order' = [order EXCEPT ![o].status = "final"]
    /\ UNCHANGED <<present, clerk, deletedBy>>

\* A dealer may touch the customers it has orders for and its own devices.  One
\* whose token names no profile owns no device, but may touch any customer.
MayTouch(by, r) ==
    \/ by = "HQ"
    \/ by = "DEALER" /\ (r = "customer" => OrdersOf(r) # {})
    \/ by = "NO_PROFILE" /\ r = "customer"

Remove(h, r, by) ==
    /\ clerk[h].phase = "idle"
    /\ r \in present
    /\ MayTouch(by, r)
    /\ clerk' = [clerk EXCEPT ![h] = [phase |-> "count", row |-> r, by |-> by]]
    /\ UNCHANGED <<present, order, deletedBy>>

CountOrders(h) ==
    /\ clerk[h].phase = "count"
    /\ clerk' = [clerk EXCEPT ![h].phase = IF OpenOrdersOf(clerk[h].row) = {} THEN "delete" ELSE "idle"]
    /\ UNCHANGED <<present, order, deletedBy>>

\* The delete statement, under ON DELETE RESTRICT, and under the check alone.
InOpenUse(r) == OpenOrdersOf(r) # {}
Restricted(r) == OrdersOf(r) # {}

DeleteRow(h) ==
    LET r == clerk[h].row IN
    /\ clerk[h].phase = "delete"
    /\ clerk' = [clerk EXCEPT ![h].phase = "idle"]
    /\ \/ /\ r \in present /\ ~Restricted(r)
          /\ present' = present \ {r}
          /\ deletedBy' = [deletedBy EXCEPT ![r] = {clerk[h].by}]
       \/ /\ r \in present => Restricted(r)
          /\ UNCHANGED <<present, deletedBy>>
    /\ UNCHANGED order

Next ==
    \/ \E o \in Orders, names \in SUBSET Rows : CreateOrder(o, names)
    \/ \E o \in Orders : CloseOrder(o)
    \/ \E h \in Clerks, r \in Rows, by \in Deleters : Remove(h, r, by)
    \/ \E h \in Clerks : CountOrders(h) \/ DeleteRow(h)

Spec == Init /\ [][Next]_vars

-----------------------------------------------------------------------------
\* Whatever is deleted was never used: no order, not even a final one or one added
\* between the count and the deletion, names a missing row.  So a dealer with a
\* profile, who only sees the customers of its own orders, deletes no customer, and
\* nobody but its dealer and the head office a device.  (A dealer whose token names
\* no profile does delete customers, if only unused ones.)
OrdersKeepTheirRows == \A o \in Orders : order[o].names \subseteq present

DealersKeepCustomers ==
    /\ deletedBy["customer"] \subseteq {"HQ", "NO_PROFILE"}
    /\ deletedBy["device"] \subseteq {"HQ", "DEALER"}

DeletedWasUnused == OrdersKeepTheirRows /\ DealersKeepCustomers
=============================================================================
