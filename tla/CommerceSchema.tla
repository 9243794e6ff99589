--------------------------- MODULE CommerceSchema ---------------------------
(***************************************************************************)
(* obase.commerce_batch_schema on obase.persistence.ddl: the start of a    *)
(* shop creates its tables, indexes and added columns one statement at a   *)
(* time, each committed by itself and skipped when its object exists.      *)
(* Several processes may start at once or one after the other, and die     *)
(* anywhere (one that is dead takes no more steps), on an empty database   *)
(* or on one that an older version, or a run that died, left.              *)
(*                                                                         *)
(* External: PostgreSQL, which runs one statement at a time here and       *)
(* refuses a foreign key into a table that does not exist, an index on one *)
(* and a column of one.  A column of a table is left out unless it refers  *)
(* to another table or is added later.                                     *)
(***************************************************************************)
EXTENDS Naturals, Sequences, FiniteSets, TLC

CONSTANT Starters    \* processes that run ensure_commerce_batch_schema

-----------------------------------------------------------------------------
\* Per table, the tables its foreign keys are into.
Catalog ==
  "stock_location" :> {} @@ "product" :> {} @@ "product_variant" :> {"product"} @@
  "product_option" :> {"product"} @@ "product_category" :> {"product_category"}
Stock ==
  "product_collection" :> {} @@ "product_collection_item" :> {"product_collection", "product"} @@
  "inventory_batch" :> {"product_variant", "stock_location"} @@
  "cart" :> {} @@ "cart_line_item" :> {"cart", "inventory_batch"}
Discounts ==
  "discount" :> {} @@ "discount_rule" :> {"discount"} @@ "discount_condition" :> {"discount"} @@
  "gift_card" :> {} @@ "cart_discount" :> {"cart", "discount"}
Payments ==
  "cart_gift_card" :> {"cart", "gift_card"} @@ "payment_session" :> {"cart"} @@
  "customer_order" :> {"cart"} @@ "order_line_item" :> {"customer_order", "inventory_batch"}
Customers ==
  "region" :> {} @@ "tax_rate" :> {"region"} @@ "app_user" :> {} @@ "customer_group" :> {} @@
  "customer" :> {"customer_group"} @@ "customer_address" :> {"customer"}
Channels ==
  "price_list" :> {} @@ "price_list_item" :> {"price_list", "product_variant"} @@
  "sales_channel" :> {} @@ "sales_channel_product" :> {"sales_channel", "product"}
AfterSales ==
  "fulfillment" :> {"customer_order"} @@ "return_request" :> {"customer_order"} @@
  "swap" :> {"customer_order", "fulfillment"} @@ "claim" :> {"customer_order", "fulfillment"} @@
  "batch_job" :> {}
Refers == Catalog @@ Stock @@ Discounts @@ Payments @@ Customers @@ Channels @@ AfterSales
Tables == DOMAIN Refers

\* How many indexes and unique constraints a table has, each a statement of its
\* own behind the table's.
Twice == {"inventory_batch", "cart_line_item", "cart_discount", "cart_gift_card", "payment_session"}
Once ==
  {"product_variant", "product_option", "product_category", "product_collection_item",
   "discount_condition", "order_line_item", "tax_rate", "customer", "customer_address",
   "price_list_item", "sales_channel_product", "fulfillment", "return_request", "swap", "claim"}
Indexes == (Once \X {1}) \cup (Twice \X {1, 2})

\* ensure_commerce_batch_schema: the order of its calls.  A pair is a column
\* added to a table that older versions created without it.
People == <<"region", "tax_rate", "app_user", "customer_group", "customer", "customer_address">>
Order == People \o
  <<"stock_location", "product", "product_variant", "product_option", "product_category",
    "product_collection", "product_collection_item", "price_list", "price_list_item",
    "sales_channel", "sales_channel_product", "inventory_batch", "cart", "cart_line_item",
    "cart+billing", "cart+shipping", "discount", "discount_rule", "discount_condition", "gift_card",
    "cart_discount", "cart_gift_card", "payment_session", "customer_order",
    "order_line_item", "customer_order+refunded", "fulfillment", "return_request", "swap",
    "claim", "batch_job">>
AddedColumns ==
  "cart+billing" :> "cart" @@ "cart+shipping" :> "cart" @@
  "customer_order+refunded" :> "customer_order"

-----------------------------------------------------------------------------
VARIABLES
  made,      \* the tables and added columns there are
  indexes,   \* the indexes and constraints there are
  at,        \* per process: the call it is in; 0 not started
  part,      \* per process: the index of that call it is at; 0 the table
  failed     \* per process: a statement of it was refused

vars == <<made, indexes, at, part, failed>>

\* An older version, or a run that died, made the tables of some calls, without
\* the added columns.
Init ==
  /\ \E n \in 0..Len(Order) : made = {Order[i] : i \in 1..n} \ DOMAIN AddedColumns
  /\ indexes \in {{}, {x \in Indexes : x[1] \in made}}
  /\ at = [p \in Starters |-> 0] /\ part = [p \in Starters |-> 0]
  /\ failed = [p \in Starters |-> FALSE]

Goes(p, i, s) == at' = [at EXCEPT ![p] = i] /\ part' = [part EXCEPT ![p] = s]
Runs(p) == at[p] \in 1..Len(Order) /\ ~failed[p]
Start(p) == at[p] = 0 /\ Goes(p, 1, 0) /\ UNCHANGED <<made, indexes, failed>>

\* One CREATE TABLE IF NOT EXISTS; it needs what it refers to, unless the
\* table is there already.
EnsureTable(p) ==
  /\ Runs(p) /\ part[p] = 0 /\ Order[at[p]] \in Tables
  /\ LET t == Order[at[p]] IN
     IF t \in made \/ Refers[t] \subseteq made \cup {t}
     THEN /\ made' = made \cup {t} /\ UNCHANGED failed
          /\ IF t \in Once \cup Twice THEN Goes(p, at[p], 1) ELSE Goes(p, at[p] + 1, 0)
     ELSE failed' = [failed EXCEPT ![p] = TRUE] /\ UNCHANGED <<made, at, part>>
  /\ UNCHANGED indexes

\* CREATE (UNIQUE) INDEX IF NOT EXISTS, behind it.
EnsureIndex(p) ==
  /\ Runs(p) /\ part[p] > 0
  /\ LET x == <<Order[at[p]], part[p]>> IN
     /\ indexes' = indexes \cup {x}
     /\ IF <<x[1], x[2] + 1>> \in Indexes THEN Goes(p, at[p], x[2] + 1) ELSE Goes(p, at[p] + 1, 0)
  /\ UNCHANGED <<made, failed>>

\* ALTER TABLE ADD COLUMN IF NOT EXISTS; the table must exist.
EnsureColumn(p) ==
  /\ Runs(p) /\ Order[at[p]] \in DOMAIN AddedColumns
  /\ IF AddedColumns[Order[at[p]]] \in made
     THEN /\ made' = made \cup {Order[at[p]]} /\ Goes(p, at[p] + 1, 0)
          /\ UNCHANGED failed
     ELSE failed' = [failed EXCEPT ![p] = TRUE] /\ UNCHANGED <<made, at, part>>
  /\ UNCHANGED indexes

Next ==
  \E p \in Starters :
    Start(p) \/ EnsureTable(p) \/ EnsureIndex(p) \/ EnsureColumn(p)

Spec == Init /\ [][Next]_vars

-----------------------------------------------------------------------------
Complete == made = Tables \cup DOMAIN AddedColumns /\ indexes = Indexes

\* Every variable has its type.
TypeOK ==
  /\ made \subseteq Tables \cup DOMAIN AddedColumns /\ indexes \subseteq Indexes
  /\ at \in [Starters -> 0..Len(Order) + 1] /\ part \in [Starters -> 0..2]
  /\ failed \in [Starters -> BOOLEAN]

\* Whatever was there before and whoever died where, no statement is refused,
\* and a run that reaches its end has made everything.
SchemaComes ==
  \A p \in Starters : ~failed[p] /\ (at[p] > Len(Order) => Complete)

=============================================================================
