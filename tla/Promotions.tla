----------------------------- MODULE Promotions -----------------------------
(***************************************************************************)
(* The banners of the kiosk: entered by an administrator in days, kept by  *)
(* the server in instants, asked for by the kiosk now and then, and shown  *)
(* one after the other.                                                    *)
(*   apps/api/src/promotions                                               *)
(*   apps/admin/app/pages/catalog.tsx (PromotionsPage, PromotionEditor)    *)
(*   packages/ui/src/promo.tsx, apps/kiosk                                 *)
(*                                                                         *)
(* One kiosk, in the branch "here".  Texts, pictures and the product that  *)
(* a tap opens are left out, and so is the order of the banners.           *)
(***************************************************************************)
EXTENDS Integers, FiniteSets

CONSTANTS
  MaxBanners,  \* bound: rows there may be
  Days,        \* bound: the days of the calendar, from 0
  MaxEdits     \* bound: banners saved or removed

ASSUME PromotionsAssumption ==
  {Days, MaxBanners} \subseteq Nat \ {0} /\ MaxEdits \in Nat

VARIABLES
  clock,       \* two instants a (UTC) day: from its first second on, and its last second
  promotions,  \* the rows
  listed,      \* the administrator's list, read some time ago
  listing,     \* the list is being read
  rendered,    \* when the page was last drawn
  editor,      \* the open form
  fetch,       \* the answer on its way to the kiosk
  banners,     \* what the kiosk was told last
  place,       \* the carousel on the screen: the welcome page's or a kind's in the catalog
  slide,       \* the index of the banner it shows
  edits,
  promised,    \* history: the days that were entered for each banner
  missed       \* history: a save or its reload got lost since the list was read

promotionVars == <<clock, promotions, listed, listing, rendered, editor, fetch, banners, place, slide,
                   edits, promised, missed>>
page  == <<listed, listing, rendered, editor, edits, promised, missed>>
kiosk == <<fetch, banners, place, slide>>

-----------------------------------------------------------------------------
(***************************************************************************)
(* The date inputs hold days, which are UTC days.  A banner starts with    *)
(* the first second of its first day and is over at the last second of its *)
(* last.                                                                   *)
(***************************************************************************)
NoDate == -1

Calendar == 0 .. Days - 1

DayOf(t) == t \div 2

ToDateInput(t) == IF t = NoDate THEN NoDate ELSE DayOf(t)

StartOf(d) == IF d = NoDate THEN NoDate ELSE 2 * d

EndOf_NextMidnight(d) == IF d = NoDate THEN NoDate ELSE 2 * (d + 1)   \* faulty: reads back as a day more

EndOf(d) == IF d = NoDate THEN NoDate ELSE 2 * d + 1

Banners  == 1 .. MaxBanners
Kinds    == {"GENERAL", "DISCOUNT"}     \* NEW_PRODUCT is another one like DISCOUNT
Branches == {"here", "there"}          \* "here" is this branch or every branch
NoBanner == [exists |-> FALSE]
Removed  == [exists |-> FALSE, was |-> TRUE]    \* ids are not used again
NoEditor == [open |-> FALSE]
Answers  == SUBSET (Banners \X Kinds)
NoFetch  == [phase |-> "idle", told |-> {}]

(* The empty form, the form of a row, and the row of a form.               *)
NewForm == [branch |-> "here", kind |-> "GENERAL", active |-> TRUE, from |-> NoDate, to |-> NoDate]

FormOf(row) == [branch |-> row.branch, kind |-> row.kind, active |-> row.active,
                from |-> ToDateInput(row.starts), to |-> ToDateInput(row.ends)]

RowOf(form) == [exists |-> TRUE, branch |-> form.branch, kind |-> form.kind,
                active |-> form.active, starts |-> StartOf(form.from), ends |-> EndOf(form.to)]

PromotionsInit ==
  /\ clock = 0
  /\ promotions = [b \in Banners |-> NoBanner]
  /\ listed = promotions /\ listing = FALSE /\ rendered = 0
  /\ editor = NoEditor
  /\ fetch = NoFetch /\ banners = {} /\ place = "welcome" /\ slide = 0
  /\ edits = 0
  /\ promised = [b \in Banners |-> [from |-> NoDate, to |-> NoDate]]
  /\ missed = FALSE

-----------------------------------------------------------------------------
(***************************************************************************)
(* PromotionsService.active, and the LIVE badge of the administrator's     *)
(* list, which decides for itself and only when the page is drawn.         *)
(***************************************************************************)
Live(row) ==
  /\ row.active
  /\ row.starts = NoDate \/ row.starts <= clock
  /\ row.ends = NoDate \/ clock < row.ends

Active == {b \in Banners : /\ promotions[b].exists
                           /\ promotions[b].branch = "here"
                           /\ Live(promotions[b])}

IsLive(row) ==
  /\ row.active
  /\ ~(row.starts # NoDate /\ row.starts > rendered)
  /\ ~(row.ends # NoDate /\ row.ends <= rendered)

Renders == rendered' = clock

-----------------------------------------------------------------------------
(***************************************************************************)
(* The administrator.                                                      *)
(***************************************************************************)
(* The page is opened again.  What it asks for may get lost, and it keeps  *)
(* what it has.                                                            *)
OpenPage ==
  /\ ~editor.open /\ ~listing
  /\ listing' = TRUE /\ Renders
  /\ UNCHANGED <<clock, promotions, listed, editor, kiosk, edits, promised, missed>>

ListArrives ==
  /\ listing
  /\ listing' = FALSE /\ Renders
  /\ \/ listed' = promotions /\ missed' = FALSE
     \/ missed' = TRUE /\ UNCHANGED listed
  /\ UNCHANGED <<clock, promotions, editor, kiosk, edits, promised>>

(* The form is filled from the list, which may be old.                     *)
EditBanner(b) ==
  /\ ~editor.open
  /\ Renders
  /\ \/ /\ listed[b].exists
        /\ editor' = [open |-> TRUE, id |-> b, form |-> FormOf(listed[b])]
     \/ editor' = [open |-> TRUE, id |-> 0, form |-> NewForm]
  /\ UNCHANGED <<clock, promotions, listed, listing, kiosk, edits, promised, missed>>

CloseBanner ==
  /\ editor.open
  /\ editor' = NoEditor /\ Renders
  /\ UNCHANGED <<clock, promotions, listed, listing, kiosk, edits, promised, missed>>

Filled(form) ==
  {[form EXCEPT !.branch = x] : x \in Branches} \cup {[form EXCEPT !.kind = x] : x \in Kinds}
    \cup {[form EXCEPT !.active = ~@]}
    \cup {[form EXCEPT !.from = x] : x \in Calendar \cup {NoDate}}
    \cup {[form EXCEPT !.to = x] : x \in Calendar \cup {NoDate}}

(* save: all fields, also those nobody has touched.  The days promised are *)
(* those that were entered and, of the others, those the form still showed *)
(* when the row had changed behind it.                                     *)
Promise(b, new) ==
  LET stale == editor.id = 0 \/ FormOf(promotions[b]) # editor.form
      Day(entered, shown, before) == IF entered # shown \/ stale THEN entered ELSE before
  IN  promised' = [promised EXCEPT ![b] =
        [from |-> Day(new.from, editor.form.from, @.from),
         to   |-> Day(new.to, editor.form.to, @.to)]]

(* The form closes and the list is read again, unless the answer is lost.  *)
Closes ==
  \/ editor' = NoEditor /\ listing' = TRUE /\ Renders /\ UNCHANGED missed
  \/ missed' = TRUE /\ UNCHANGED <<editor, listing, rendered>>

(* A new banner is one more row with every save, also when a lost answer   *)
(* has left the form open; the others are updated if they are still there. *)
Target ==
  IF editor.id # 0 THEN {editor.id} \cap {b \in Banners : promotions[b].exists}
  ELSE {b \in Banners : promotions[b] = NoBanner /\ \A a \in 1 .. b - 1 : promotions[a] # NoBanner}

SaveBanner(new) ==
  /\ edits < MaxEdits /\ edits' = edits + 1
  /\ \E b \in Target : promotions' = [promotions EXCEPT ![b] = RowOf(new)] /\ Promise(b, new)
  /\ Closes
  /\ UNCHANGED <<clock, listed, kiosk>>

(* remove: the form closes and the list is read again, lost or not.        *)
RemoveBanner ==
  /\ edits < MaxEdits /\ edits' = edits + 1
  /\ editor.id # 0
  /\ promotions' \in {promotions, [promotions EXCEPT ![editor.id] = Removed]}
  /\ editor' = NoEditor /\ listing' = TRUE /\ Renders
  /\ UNCHANGED <<clock, listed, kiosk, promised, missed>>

(* The page is drawn for another reason: the products have arrived.        *)
Redraw ==
  /\ Renders
  /\ UNCHANGED <<clock, promotions, listed, listing, editor, kiosk, edits, promised, missed>>

-----------------------------------------------------------------------------
(***************************************************************************)
(* The kiosk asks every two minutes and shows what it was told.  A poll    *)
(* that fails leaves it what it has.                                       *)
(***************************************************************************)
ReadActive_NoPoll ==            \* faulty: asks only until it has something to show
  /\ fetch = NoFetch /\ banners = {}
  /\ fetch' = [phase |-> "told", told |-> {<<b, promotions[b].kind>> : b \in Active}]
  /\ UNCHANGED <<clock, promotions, page, banners, place, slide>>

ReadActive ==
  /\ fetch = NoFetch
  /\ fetch' = [phase |-> "told", told |-> {<<b, promotions[b].kind>> : b \in Active}]
  /\ UNCHANGED <<clock, promotions, page, banners, place, slide>>

(* PromoCarousel and PromoSpotlight.                                       *)
OnPlace(all) == {x \in all : place \in {"welcome", x[2]}}

(* useRotation: back to the first when their number has changed.           *)

Rotated(count, new) == IF count # new THEN 0 ELSE slide

ShowActive ==
  /\ fetch.phase = "told"
  /\ banners' = fetch.told
  /\ slide' = Rotated(Cardinality(OnPlace(banners)), Cardinality(OnPlace(fetch.told)))
  /\ fetch' = NoFetch
  /\ UNCHANGED <<clock, promotions, page, place>>

LoseActive ==
  /\ fetch.phase = "told"
  /\ fetch' = NoFetch
  /\ UNCHANGED <<clock, promotions, page, banners, place, slide>>

Rotate ==
  /\ Cardinality(OnPlace(banners)) > 1
  /\ slide' = (slide + 1) % Cardinality(OnPlace(banners))
  /\ UNCHANGED <<clock, promotions, page, fetch, banners, place>>

(* Another screen: its carousel starts from the beginning.                 *)
Walk(to) ==
  /\ place # to
  /\ place' = to
  /\ slide' = 0
  /\ UNCHANGED <<clock, promotions, page, fetch, banners>>

Passes ==
  /\ clock < 2 * Days - 1
  /\ clock' = clock + 1
  /\ UNCHANGED <<promotions, page, kiosk>>

-----------------------------------------------------------------------------
PromotionsNext ==
  \/ OpenPage \/ ListArrives \/ Redraw
  \/ \E b \in Banners : EditBanner(b)
  \/ /\ editor.open
     /\ \/ \E new \in Filled(editor.form) : SaveBanner(new)
        \/ RemoveBanner \/ CloseBanner
  \/ ReadActive \/ ShowActive \/ LoseActive
  \/ Rotate \/ \E to \in {"welcome", "DISCOUNT"} : Walk(to)
  \/ Passes

PromotionsTypeOK ==
  /\ clock \in 0 .. 2 * Days - 1 /\ rendered \in 0 .. clock
  /\ \A b \in Banners : /\ promotions[b].exists => FormOf(promotions[b]).to \in Calendar \cup {NoDate}
                         /\ listed[b].exists \in BOOLEAN
  /\ fetch.phase \in {"idle", "told"} /\ fetch.told \in Answers
  /\ banners \in Answers /\ place \in {"welcome", "DISCOUNT"} /\ slide \in Nat
  /\ edits \in 0 .. MaxEdits

(***************************************************************************)
(* An active banner is live from the first second of the first day that    *)
(* was entered for it to the last second of the last, which is no longer   *)
(* part of it, however often its form has been opened and saved since.     *)
(* (The days are UTC days; the list prints the dates of the local zone.)   *)
(***************************************************************************)
LastSecond(d) == 2 * d + 1

LiveOnItsDays == \A b \in Banners :
  LET row == promotions[b]
      to  == promised[b].to
  IN (row.exists /\ row.active) =>
       (Live(row) <=> /\ promised[b].from <= DayOf(clock)
                      /\ \/ to = NoDate
                         \/ DayOf(clock) <= to /\ clock # LastSecond(to))

(***************************************************************************)
(* A badge is true or out of date: unless an answer was lost or the list   *)
(* is being read, a banner of this branch carries LIVE exactly if a kiosk  *)
(* would be given it now - but for those whose first or last second has    *)
(* passed since the page was drawn, which nothing tells the page.          *)
(***************************************************************************)
PassedSinceDrawn(t) == rendered < t /\ t <= clock

BadgeIsTrue ==
  (~listing /\ ~missed) =>
    \A b \in Banners :
      LET row == listed[b] IN
      /\ b \in Active => row.exists
      /\ (/\ row.exists /\ row.branch = "here"
          /\ ~PassedSinceDrawn(row.starts) /\ ~PassedSinceDrawn(row.ends))
           => (IsLive(row) <=> b \in Active)

(***************************************************************************)
(* While there are banners for the place, one of them is on the screen,    *)
(* also when they become fewer.                                            *)
(***************************************************************************)
SlideOnScreen == OnPlace(banners) # {} => slide < Cardinality(OnPlace(banners))

(***************************************************************************)
(* What the kiosk shows becomes what is live, and stays so.                *)
(***************************************************************************)
BannersSettle == <>[](banners = {<<b, promotions[b].kind>> : b \in Active})

(* Rows, badges and slides agree with what the administrator has entered.  *)
BannersAreTrue == LiveOnItsDays /\ BadgeIsTrue /\ SlideOnScreen
=============================================================================
