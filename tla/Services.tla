------------------------------ MODULE Services ------------------------------
(***************************************************************************)
(* What else the server does beside the queue and the office: the chat of  *)
(* a room, the documents kept whole, the end of rooms and the delivery of  *)
(* messages.                                                               *)
(*                                                                         *)
(* The handlers of these parts share no field in memory, and but for the   *)
(* deletion of a room no key in Redis: a behaviour of all of them is an    *)
(* interleaving of behaviours of each, so it is enough to look at one part *)
(* at a time.  A behaviour chooses its part at the start.                  *)
(***************************************************************************)
EXTENDS Chat, Documents, RoomLifecycle, Delivery

VARIABLE part

servicesVars == <<part, chatVars, docVars, lifeVars, deliveryVars>>

\* The settings of the other parts do not matter.
One(setting, Settings) == setting = CHOOSE s \in Settings : TRUE

ServicesInit ==
    /\ part \in {"chat", "documents", "lifecycle", "delivery"}
    /\ ChatInit /\ DocumentsInit /\ LifecycleInit /\ DeliveryInit
    /\ part # "chat" => One(chatSetting, ChatSettings)
    /\ part # "documents" => One(docSetting, DocSettings)
    /\ part # "lifecycle" => One(lifeSetting, LifeSettings)
    /\ part # "delivery" => One(deliverySetting, DeliverySettings)

ServicesNext ==
    /\ UNCHANGED part
    /\ \/ part = "chat" /\ ChatNext /\ UNCHANGED <<docVars, lifeVars, deliveryVars>>
       \/ part = "documents" /\ DocumentsNext /\ UNCHANGED <<chatVars, lifeVars, deliveryVars>>
       \/ part = "lifecycle" /\ LifecycleNext /\ UNCHANGED <<chatVars, docVars, deliveryVars>>
       \/ part = "delivery" /\ DeliveryNext /\ UNCHANGED <<chatVars, docVars, lifeVars>>

ServicesSpec == ServicesInit /\ [][ServicesNext]_servicesVars /\ DeliveryFairness

-----------------------------------------------------------------------------

\* The chat, the pins, the plays and the channel never outgrow their bounds, no two spenders
\* have one id, and every field has its type.
ServicesTypeOK == ChatTypeOK /\ DocumentsTypeOK /\ LifecycleTypeOK /\ DeliveryTypeOK
=============================================================================
