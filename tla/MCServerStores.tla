--------------------------- MODULE MCServerStores ---------------------------
(***************************************************************************)
(* Stores of the server that share no state with each other.  A behaviour  *)
(* exercises the one that focus names and leaves the others as they are:   *)
(* an invariant of one store does not depend on the steps of another.      *)
(***************************************************************************)
EXTENDS CteResolution, Webhooks

VARIABLE focus

storeVars == <<focus, cteVars, webhookVars>>

Expr(n, k, reads, again) == [name |-> n, kind |-> k, reads |-> reads, again |-> again]

\* A query that reads the datasource; recursions over a name alone, joined with the
\* datasource, and over a name that is the datasource's; chained expressions, a union
\* and a join that read what another query may have left behind; and a recursive
\* part and a main query that cannot be parsed.
MCPrograms ==
    {[ctes |-> <<>>, main |-> {"ds"}],
     [ctes |-> <<Expr("cte", "recursive", {"ds"}, {"cte"})>>, main |-> {"cte"}],
     [ctes |-> <<Expr("cte", "recursive", {"ds"}, {"cte", "ds"})>>, main |-> {"cte", "aux"}],
     [ctes |-> <<Expr("ds", "recursive", {"ds"}, {"ds"})>>, main |-> {"ds"}],
     [ctes |-> <<Expr("cte", "plain", {"ds"}, {}), Expr("aux", "plain", {"cte"}, {})>>,
      main |-> {"aux", "cte"}],
     [ctes |-> <<Expr("aux", "union", {"cte", "ds"}, {})>>, main |-> {"aux"}],
     [ctes |-> <<Expr("aux", "plain", {"cte", "ds"}, {})>>, main |-> {"aux", "ds"}],
     [ctes |-> <<Expr("cte", "recursive", {"aux"}, {"cte"})>>, main |-> {"cte"}],
     [ctes |-> <<Expr("cte", "recursive", {"ds"}, {})>>, main |-> {}]}

\* The queries of a store out of focus are not looked at: one program is enough.
IdlePrograms == [q \in CteQueries |-> [ctes |-> <<>>, main |-> {"ds"}]]

StoresInit ==
    /\ focus \in {"ctes", "webhooks"}
    /\ CteInit
    /\ focus # "ctes" => program = IdlePrograms
    /\ WebhookInit

StoresNext ==
    /\ UNCHANGED focus
    /\ \/ focus = "ctes" /\ CteNext /\ UNCHANGED webhookVars
       \/ focus = "webhooks" /\ WebhookNext /\ UNCHANGED cteVars

StoresSpec == StoresInit /\ [][StoresNext]_storeVars

-----------------------------------------------------------------------------

\* The stores are well formed; the dead-letter queue of webhook.rs is bounded.
StoresTypeOK == CteTypeOK /\ WebhookTypeOK
=============================================================================
