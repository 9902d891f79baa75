---------------------------- MODULE PhoneScreens ----------------------------
(***************************************************************************)
(* The screens of the phone that show and change what the API keeps: the   *)
(* catalog's lists, a product's page, the cart with its checkout and       *)
(* payment, the orders and an order's timeline, the machines and the card   *)
(* of the home screen.  They hand over an identifier (a product, an order, *)
(* a machine) and each keeps the rest to itself, under a key of its own in *)
(* the cache, so that a behaviour here is about one of them and stands for *)
(* its part of every longer one.                                           *)
(***************************************************************************)
EXTENDS CatalogPages, MobileShop, OrderTracking, OrderTimeline, MachinePages

VARIABLE part  \* the screens this behaviour is about

screensVars ==
  <<part, catalogVars, shopVars, orderVars, history, machineVars>>

ScreensInit ==
  /\ part \in {"list", "product", "cart", "orders", "timeline", "machines"}
  /\ CatalogInit /\ ShopInit /\ TrackingInit /\ TimelineInit /\ MachineInit
  /\ part # "timeline" => history[1].stamp = 0

ScreensNext ==
  /\ UNCHANGED part
  /\ \/ /\ part = "list" /\ CatalogStep
        /\ UNCHANGED <<shopVars, orderVars, history, machineVars>>
     \/ /\ part = "product" /\ ProductStep
        /\ UNCHANGED <<shopVars, orderVars, history, machineVars>>
     \/ /\ part = "cart" /\ Next
        /\ UNCHANGED <<catalogVars, orderVars, history, machineVars>>
     \/ /\ part = "orders" /\ TrackingNext
        /\ UNCHANGED <<catalogVars, shopVars, history, machineVars>>
     \/ /\ part = "timeline" /\ TimelineNext
        /\ UNCHANGED <<catalogVars, shopVars, orderVars, machineVars>>
     \/ /\ part = "machines" /\ MachineNext
        /\ UNCHANGED <<catalogVars, shopVars, orderVars, history>>

ScreensSpec == ScreensInit /\ [][ScreensNext]_screensVars
=============================================================================
