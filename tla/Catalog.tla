------------------------------ MODULE Catalog -------------------------------
(***************************************************************************)
(* Products: edited by administrators, imported from the web shop, offered *)
(* to customers and priced by the server.                                  *)
(*   apps/api/src/catalog, apps/api/src/catalog-import                     *)
(*   packages/domain/src/catalog/resolve.ts                                *)
(*   apps/admin/app/pages/catalog.tsx                                      *)
(*                                                                         *)
(* The price stands for all that an import writes (name, category, image), *)
(* one branch and one channel for them all.  Products have no delete.      *)
(***************************************************************************)
EXTENDS Integers, FiniteSets

CONSTANTS
  Items,        \* skus, of products here and in the web shop
  Prices,
  Default,      \* defaultProductionConfig: the config an item is imported with (its category's)
  MaxImports,   \* bound: previews ever made
  MaxChanges,   \* bound: previews and saves of administrators
  MaxSavesAlone \* bound: their saves while nothing has been previewed

ASSUME CatalogAssumption ==
  /\ {MaxImports, MaxChanges, MaxSavesAlone} \subseteq Nat
  /\ Prices \subseteq Nat \ {0}
  /\ Default \in [Items -> {"NONE", "STATION"}]

VARIABLES
  products,     \* the rows
  imports,      \* the previews, with what they will write
  commits,      \* the two commit requests under way
  form,         \* the open product editor
  shopper,      \* a customer: what the catalog said and what the server made of it
  changes,
  applied,      \* history: how often the transaction of an import was committed
  raced,        \* history: the imports two commits of which overlapped
  wanted,       \* history: the production config an administrator saved last
  inForce,      \* history: base price and override of the item while the order was served
  touched       \* history: the shopper's item was changed since the catalog was read

catalogVars == <<products, imports, commits, form, shopper, changes,
                 applied, raced, wanted, inForce, touched>>

-----------------------------------------------------------------------------
NoProduct  == [exists |-> FALSE]
NoOverride == [available |-> TRUE, price |-> 0]
Unset      == "unset"
(* NO_STATION: production is required and nobody has said where.           *)
Configs    == {"NONE", "STATION", "NO_STATION"}
Committers == 1 .. 2
ImportIds  == 1 .. MaxImports
NoImport   == [status |-> "none", items |-> <<>>]
NoCommit   == [phase |-> "idle", import |-> 0]
NoForm     == [open |-> FALSE]
NoShopper  == [phase |-> "idle"]

Known == {x \in Items : products[x].exists}

(* A row as it is created.                                                 *)
Row(linked, price, cfg) ==
  [exists |-> TRUE, linked |-> linked, price |-> price, active |-> TRUE,
   archived |-> FALSE, cfg |-> cfg, override |-> NoOverride]

CatalogInit ==
  /\ products = [x \in Items |-> NoProduct]
  /\ imports = [i \in ImportIds |-> NoImport]
  /\ commits = [c \in Committers |-> NoCommit]
  /\ form = NoForm /\ shopper = NoShopper
  /\ changes = 0
  /\ applied = [i \in ImportIds |-> 0] /\ raced = {}
  /\ wanted = [x \in Items |-> Unset]
  /\ inForce = {} /\ touched = FALSE

-----------------------------------------------------------------------------
(***************************************************************************)
(* resolveProductForBranch and isAvailableForSource.                       *)
(***************************************************************************)
PriceOf(row) == IF row.override.price # 0 THEN row.override.price ELSE row.price

Available(row) == row.active /\ row.override.available

(* channelCatalog: what a client is offered.                               *)
Listed(row) == row.exists /\ ~row.archived /\ row.active

Offered(row) == Listed(row) /\ Available(row)

(* createOrder: what the server accepts.                                   *)
Accepts(row) ==
  row.exists /\ ~row.archived /\ Available(row) /\ row.cfg # "NO_STATION"

(* Every write of products goes through here, for the history's sake.      *)
Served == shopper.phase \in {"sent", "row", "config"}

PricesOf(row) == [base |-> row.price, override |-> row.override.price]

Write(new) ==
  /\ products' = new
  /\ inForce' = IF Served THEN inForce \cup {PricesOf(new[shopper.item])} ELSE inForce
  /\ touched' = IF shopper = NoShopper THEN touched
                ELSE touched \/ new[shopper.item] # products[shopper.item]

-----------------------------------------------------------------------------
(***************************************************************************)
(* The administrators.  The editor copies the row when it opens and saves  *)
(* all of it, the production config only with the permission for it.       *)
(***************************************************************************)
Room == changes < IF \A i \in ImportIds : imports[i] = NoImport THEN MaxSavesAlone ELSE MaxChanges

Change == Room /\ changes' = changes + 1

(* What the form shows of a row: nothing of the link to the web shop, and  *)
(* the override has a form of its own.                                     *)
Fields(row) == [row EXCEPT !.linked = FALSE, !.override = NoOverride]

OpenEditor(x) ==
  /\ ~form.open /\ x \in Known /\ Room
  /\ form' = [open |-> TRUE, item |-> x, row |-> Fields(products[x])]
  /\ UNCHANGED <<products, imports, commits, shopper, changes, applied, raced,
                 wanted, inForce, touched>>

Edits(row) ==
  {[row EXCEPT !.price = p] : p \in Prices} \cup {[row EXCEPT !.active = ~@]}
    \cup {[row EXCEPT !.cfg = c] : c \in Configs}

(* updateProduct: also the fields nobody has changed since.                *)
SaveProduct(new, mayConfigure) ==
  /\ Change
  /\ LET x == form.item
         Cfg(old) == IF mayConfigure THEN new.cfg ELSE old
     IN /\ Write([products EXCEPT ![x].price = new.price, ![x].active = new.active,
                                 ![x].cfg = Cfg(@)])
        /\ wanted' = [wanted EXCEPT ![x] = Cfg(@)]
  /\ form' = NoForm
  /\ UNCHANGED <<imports, commits, shopper, applied, raced>>

CloseEditor ==
  /\ form' = NoForm
  /\ UNCHANGED <<products, imports, commits, shopper, changes, applied, raced, wanted,
                 inForce, touched>>

(* setProductState.                                                        *)
SetState(state) ==
  /\ Change
  /\ state \in {IF form.row.active THEN "disable" ELSE "enable"}
               \cup (IF form.row.archived THEN {} ELSE {"archive"})
  /\ Write([products EXCEPT ![form.item].active = (state = "enable"),
                            ![form.item].archived = CASE state = "enable"  -> FALSE
                                                      [] state = "archive" -> TRUE
                                                      [] state = "disable" -> @])
  /\ form' = NoForm
  /\ UNCHANGED <<imports, commits, shopper, applied, raced, wanted>>

(* createProduct; its sku may be one that the import would make.           *)
CreateProduct(x, price, cfg) ==
  /\ x \notin Known /\ Change
  /\ Write([products EXCEPT ![x] = Row(FALSE, price, cfg)])
  /\ wanted' = [wanted EXCEPT ![x] = cfg]
  /\ UNCHANGED <<imports, commits, form, shopper, applied, raced>>

SetBranchOverride(x, available, price) ==
  /\ x \in Known /\ Change
  /\ Write([products EXCEPT ![x].override = [available |-> available, price |-> price]])
  /\ UNCHANGED <<imports, commits, form, shopper, applied, raced, wanted>>

-----------------------------------------------------------------------------
(***************************************************************************)
(* The import.  A preview compares what the web shop (or, when it cannot   *)
(* be read, the snapshot in the repository: anything) says with the linked *)
(* products and stores what a commit will write.                           *)
(***************************************************************************)
Compare(x, price) ==
  IF ~(products[x].exists /\ products[x].linked) THEN "NEW"
  ELSE IF products[x].price # price THEN "UPDATE" ELSE "UNCHANGED"

Preview(i, found) ==
  /\ changes < MaxChanges /\ changes' = changes + 1
  /\ imports[i] = NoImport
  /\ \A j \in ImportIds : j < i => imports[j] # NoImport
  /\ imports' = [imports EXCEPT ![i] =
       [status |-> "PREVIEW",
        items  |-> [x \in DOMAIN found |-> [price |-> found[x], action |-> Compare(x, found[x])]]]]
  /\ UNCHANGED <<products, commits, form, shopper, applied, raced, wanted, inForce,
                 touched>>

(* The status is checked before the transaction.                           *)
CheckImport(c, i) ==
  /\ commits[c] = NoCommit /\ \A d \in 1 .. c - 1 : commits[d] # NoCommit
  /\ imports[i].status = "PREVIEW"
  /\ commits' = [commits EXCEPT ![c] = [phase |-> "checked", import |-> i]]
  /\ raced' = IF \E d \in Committers : commits[d].import = i THEN raced \cup {i} ELSE raced
  /\ UNCHANGED <<products, imports, form, shopper, changes, applied, wanted, inForce,
                 touched>>

News(i) == {x \in DOMAIN imports[i].items : imports[i].items[x].action = "NEW"}

(* sku and external id are unique.                                         *)
Clashes_Never(i) == FALSE       \* faulty: an existing product is created once more

Clashes(i) == News(i) \cap Known # {}

(* A new product gets the config of its category; one that is there keeps  *)
(* its own.                                                                *)

Imported(row, item) == [row EXCEPT !.price = item.price]

CommitImport(c) ==
  /\ commits[c].phase = "checked"
  /\ LET i == commits[c].import IN
     /\ ~Clashes(i)
     /\ Write([x \in Items |->
          IF x \notin DOMAIN imports[i].items THEN products[x]
          ELSE LET item == imports[i].items[x] IN
            CASE item.action = "NEW" -> Row(TRUE, item.price, Default[x])
              [] item.action = "UPDATE" -> Imported(products[x], item)
              [] item.action = "UNCHANGED" -> products[x]])
     /\ imports' = [imports EXCEPT ![i].status = "IMPORTED"]
     /\ applied' = [applied EXCEPT ![i] = @ + 1]
  /\ commits' = [commits EXCEPT ![c] = NoCommit]
  /\ UNCHANGED <<form, shopper, changes, raced, wanted>>

(* A clash, a timeout, a deadlock: all of the transaction is undone, and   *)
(* the error recorded some time later, whatever the status has become      *)
(* meanwhile.  In between there is nothing to tell it from one that has    *)
(* not begun.                                                              *)
FailImport(c) ==
  /\ commits[c].phase = "checked"
  /\ imports' = [imports EXCEPT ![commits[c].import].status = "FAILED"]
  /\ commits' = [commits EXCEPT ![c] = NoCommit]
  /\ UNCHANGED <<products, form, shopper, changes, applied, raced, wanted, inForce, touched>>

ImportDies(c) ==
  /\ commits[c] # NoCommit
  /\ commits' = [commits EXCEPT ![c] = NoCommit]
  /\ UNCHANGED <<products, imports, form, shopper, changes, applied, raced, wanted, inForce,
                 touched>>

-----------------------------------------------------------------------------
(***************************************************************************)
(* A customer: reads the catalog, submits the cart some time later; the    *)
(* server reads the product and creates the order from what it read.  Both *)
(* reads are findMany with include, outside of a transaction: a SELECT of  *)
(* the product, then one for each relation, and saves may come between.    *)
(***************************************************************************)
shopVars == <<products, imports, commits, form, changes, applied, raced, wanted>>

Browse(x) ==
  /\ shopper = NoShopper
  /\ Listed(products[x])
  /\ shopper' = [phase |-> "looking", item |-> x, row |-> products[x], shown |-> 0, price |-> 0]
  /\ UNCHANGED <<shopVars, inForce, touched>>

(* What has been read, with the relation as it is by now.                  *)
WithOverride == [shopper.row EXCEPT !.override = products[shopper.item].override]

ShowCatalog ==
  /\ shopper.phase = "looking"
  /\ IF Offered(WithOverride)
     THEN /\ shopper' = [shopper EXCEPT !.phase = "browsing", !.shown = PriceOf(WithOverride),
                                        !.row = NoProduct]
          /\ UNCHANGED touched
     ELSE shopper' = NoShopper /\ touched' = FALSE
  /\ UNCHANGED <<shopVars, inForce>>

Submit ==
  /\ shopper.phase = "browsing"
  /\ shopper' = [shopper EXCEPT !.phase = "sent"]
  /\ inForce' = {PricesOf(products[shopper.item])}
  /\ UNCHANGED <<shopVars, touched>>

ReadProduct ==
  /\ shopper.phase = "sent"
  /\ shopper' = [shopper EXCEPT !.phase = "row", !.row = products[shopper.item]]
  /\ UNCHANGED <<shopVars, inForce, touched>>

ReadConfig ==
  /\ shopper.phase = "row"
  /\ shopper' = [shopper EXCEPT !.phase = "config", !.row.cfg = products[shopper.item].cfg]
  /\ UNCHANGED <<shopVars, inForce, touched>>

Priced_ByCart(row) == shopper.shown     \* faulty: the client's price is taken

Priced(row) == PriceOf(row)

ReadOverride ==
  /\ shopper.phase = "config"
  /\ shopper' = [shopper EXCEPT !.phase = IF Accepts(WithOverride) THEN "priced" ELSE "refused",
                                !.price = IF Accepts(WithOverride) THEN Priced(WithOverride)
                                                                   ELSE 0,
                                !.row = NoProduct]
  /\ UNCHANGED <<shopVars, inForce, touched>>

Leave ==
  /\ shopper.phase \in {"browsing", "priced", "refused"}
  /\ shopper' = NoShopper
  /\ inForce' = {} /\ touched' = FALSE
  /\ UNCHANGED shopVars

-----------------------------------------------------------------------------
Found == UNION {[S -> Prices] : S \in SUBSET Items \ {{}}}

CatalogNext ==
  \/ \E x \in Items : OpenEditor(x) \/ Browse(x)
  \/ /\ form.open
     /\ \/ \E new \in Edits(form.row), may \in BOOLEAN : SaveProduct(new, may)
        \/ \E state \in {"enable", "disable", "archive"} : SetState(state)
        \/ CloseEditor
  \/ \E x \in Items, price \in Prices, cfg \in Configs : CreateProduct(x, price, cfg)
  \/ \E x \in Items, available \in BOOLEAN, price \in Prices \cup {0} :
       SetBranchOverride(x, available, price)
  \/ \E i \in ImportIds, found \in Found : Preview(i, found)
  \/ \E c \in Committers :
       \/ \E i \in ImportIds : CheckImport(c, i)
       \/ CommitImport(c) \/ FailImport(c) \/ ImportDies(c)
  \/ ShowCatalog \/ Submit \/ ReadProduct \/ ReadConfig \/ ReadOverride \/ Leave

-----------------------------------------------------------------------------
CatalogTypeOK ==
  /\ \A x \in Known : /\ products[x].price \in Prices /\ products[x].cfg \in Configs
                       /\ products[x].override.price \in Prices \cup {0}
  /\ \A i \in ImportIds : /\ imports[i].status \in {"none", "PREVIEW", "IMPORTED", "FAILED"}
                          /\ DOMAIN imports[i].items \subseteq Items
  /\ \A c \in Committers : commits[c].phase \in {"idle", "checked"}
  /\ form.open \in BOOLEAN
  /\ shopper.phase \in {"idle", "looking", "browsing", "sent", "row", "config", "priced",
                        "refused"}
  /\ changes \in 0 .. MaxChanges \/ changes \in 0 .. MaxSavesAlone
  /\ inForce \subseteq [base : Prices, override : Prices \cup {0}]

(***************************************************************************)
(* The status of an import says what it did: one that is still a preview   *)
(* has changed nothing, one that is imported has been applied, one that    *)
(* failed was not, unless two commits of it overlapped (then the loser's   *)
(* FAILED may cover the winner's IMPORTED).  However its commits overlap,  *)
(* an import with new products is applied at most once.                    *)
(***************************************************************************)
ImportStatusIsTrue == \A i \in ImportIds :
  /\ imports[i].status = "PREVIEW" => applied[i] = 0
  /\ imports[i].status = "IMPORTED" => applied[i] > 0
  /\ (imports[i].status = "FAILED" /\ applied[i] > 0) => i \in raced
  /\ News(i) # {} => applied[i] <= 1

(***************************************************************************)
(* Production data is the operators': whatever is imported meanwhile, a    *)
(* product keeps the production config that was saved for it last          *)
(* ("Never written by the importer", docs/DATABASE.md:66).                 *)
(***************************************************************************)
ConfigIsTheOperators == \A x \in Known : wanted[x] # Unset => products[x].cfg = wanted[x]

(***************************************************************************)
(* The price of an order is made of what was in force while the server     *)
(* read it, never of what the client has shown: it is the override of the  *)
(* branch at some moment, or, when there was none at some moment, the base *)
(* price at some moment.  The two moments may differ, as the two SELECTs   *)
(* do: the order may get a base price that was never in force without an   *)
(* override.                                                               *)
(***************************************************************************)
OrderPriceWasInForce ==
  shopper.phase = "priced" =>
    \E a, b \in inForce :
      shopper.price = IF b.override # 0 THEN b.override ELSE a.base

(***************************************************************************)
(* What the catalog offers can be ordered: a cart is refused only if its   *)
(* product was changed after the catalog was read, or needs production and *)
(* has no station (the catalog does not look at that).                     *)
(***************************************************************************)
OfferedIsAccepted ==
  shopper.phase = "refused" => touched \/ products[shopper.item].cfg = "NO_STATION"

(* Imports and operators do not spoil each other's work.                   *)
ImportKeepsItsWord == ImportStatusIsTrue /\ ConfigIsTheOperators

(* The answer to an order is made of what held while it was served: its    *)
(* price, and whether there is one.                                        *)
OrderIsCurrent == OrderPriceWasInForce /\ OfferedIsAccepted
=============================================================================
