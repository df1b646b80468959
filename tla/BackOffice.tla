----------------------------- MODULE BackOffice -----------------------------
(***************************************************************************)
(* What administrators do beside orders: products and imports (Catalog),   *)
(* employees, roles and devices (Access), settings (Settings), banners     *)
(* (Promotions).  They share the server and nothing of its state, so that  *)
(* a behaviour of one says all there is to say; which one it is, is chosen *)
(* at the start.                                                           *)
(***************************************************************************)
EXTENDS Catalog, Access, Settings, Promotions

VARIABLE area

backOfficeVars == <<area, catalogVars, accessVars, settingsVars, promotionVars>>

Init ==
  /\ area \in {"catalog", "access", "settings", "promotions"}
  /\ CatalogInit /\ AccessInit /\ SettingsInit /\ PromotionsInit
  /\ area # "settings" => scope = "global"

Next ==
  /\ UNCHANGED area
  /\ \/ area = "catalog" /\ CatalogNext /\ UNCHANGED <<accessVars, settingsVars, promotionVars>>
     \/ area = "access" /\ AccessNext /\ UNCHANGED <<catalogVars, settingsVars, promotionVars>>
     \/ area = "settings" /\ SettingsNext /\ UNCHANGED <<catalogVars, accessVars, promotionVars>>
     \/ area = "promotions" /\ PromotionsNext /\ UNCHANGED <<catalogVars, accessVars, settingsVars>>

InSettings(A) == area = "settings" /\ A /\ UNCHANGED <<area, catalogVars, accessVars, promotionVars>>

InPromotions(A) ==
  area = "promotions" /\ A /\ UNCHANGED <<area, catalogVars, accessVars, settingsVars>>

(* Time passes, and the database answers in time; screens and jobs keep    *)
(* asking for their settings, and the kiosk for its banners, whose polls   *)
(* do not fail for ever.                                                   *)
Overdue(k) == reads[k].age = MaxRead

Fairness ==
  /\ WF_backOfficeVars(InSettings(Tick \/ \E k \in Pair : Overdue(k) /\ GetReturns(k)))
  /\ WF_backOfficeVars(InSettings(GetHit \/ \E k \in Pair : GetMiss(k) \/ GetReturns(k)))
  /\ WF_backOfficeVars(InPromotions(ReadActive))
  /\ SF_backOfficeVars(InPromotions(ShowActive))

Spec == Init /\ [][Next]_backOfficeVars /\ Fairness

TypeOK == CatalogTypeOK /\ AccessTypeOK /\ SettingsTypeOK /\ PromotionsTypeOK

(***************************************************************************)
(* What administrators change reaches those who read it: settings through  *)
(* their cache, banners through the polls of a kiosk.                      *)
(***************************************************************************)
ChangesReachReaders == ReadersSettle /\ BannersSettle
=============================================================================
