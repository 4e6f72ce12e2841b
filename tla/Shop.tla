---------------------------------- MODULE Shop ----------------------------------
(***************************************************************************)
(* The program from the button to the goods: the conversation with its     *)
(* customers (CheckoutFlow), the handlers of payments and the worker, over *)
(* the same tables, all in the one process that main.rs runs.              *)
(***************************************************************************)
EXTENDS CheckoutFlow, Storefront

shopVars == <<vars, checkoutVars>>

ShopInit == CheckoutInit /\ WorkOwnInit

(* main returns, or fails: handlers, pending choices and worker are gone.  *)
ShopCrash ==
    /\ CheckoutCrash
    /\ worker' = [w \in Workers |-> IdleWorker]
    /\ UNCHANGED connectorVars

ShopNext ==
    \/ CheckoutStep /\ UNCHANGED workOwnVars
    \/ PayStep /\ UNCHANGED <<checkoutVars, workOwnVars>>
    \/ WorkNext /\ UNCHANGED <<checkoutVars, payOwnVars>>
    \/ ShopCrash

ShopSpec == ShopInit /\ [][ShopNext]_shopVars

-----------------------------------------------------------------------------
(* Properties.                                                             *)

(* Goods leave the shop, and the connector is asked for them, only for an  *)
(* order that its own user confirmed, once, and that was paid at exactly   *)
(* the price of the offering that was confirmed: from the button           *)
(* (handle_callback) over finalize_checkout, settle_aban_payment and       *)
(* claim_fulfillment_job to ExternalProvider nothing gets mixed up.        *)
GoodsAsConfirmed ==
    \A o \in Orders : posted[o] > 0 \/ o \in delivered \/ orders[o].status = "fulfilled" =>
        LET s == origin[o].session IN
        /\ s \in Sessions
        /\ origin[o].by = sessions[s].user
        /\ \A p \in Orders \ {o} : origin[p].session # s
        /\ \E i \in Invoices : /\ gateway[i].state = "verified"
                               /\ gateway[i].order = o
                               /\ gateway[i].amount = Price[sessions[s].offering]

(* Why: every order came out of a checkout, and the connector delivers on  *)
(* request only; the rest is what the parts say of themselves.             *)
EveryOrderConfirmed == \A o \in Orders : orders[o].status # "absent" => origin[o].session # NULL

DeliveredOnRequest == \A o \in delivered : posted[o] > 0
=================================================================================
