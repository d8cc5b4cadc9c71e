----------------------------- MODULE MCAdminPages -----------------------------
(* The instance of AdminPages that TLC checks. *)
EXTENDS AdminPages
First == CHOOSE r \in Rows : TRUE
Existing == [p \in Pages |-> IF p \in {"categories", "email"} THEN Rows ELSE {First}]
Calls == [p \in Pages |-> IF p \in {"ads", "orders"} THEN 1 ELSE 2]
Writes == [p \in Pages |-> IF p \in {"ads", "email"} THEN 2 ELSE 1]
Paged == [r \in Rows |-> IF r = First THEN 1 ELSE 2]
OnRows == [status |-> "on", page |-> 1]
Page2 == [status |-> "all", page |-> 2]
SomeViews == [p \in Pages |->
  IF p \in {"products", "notices"} THEN {AllRows, Page2, OnRows}
  ELSE IF p \in {"coupons", "orders"} THEN {AllRows, OnRows}
  ELSE IF p \in {"aftersales", "ads"} THEN {AllRows, Page2} ELSE {AllRows}]
==============================================================================
