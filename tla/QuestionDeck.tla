---------------------------- MODULE QuestionDeck ----------------------------
(***************************************************************************)
(* The random question deck of src/lib/random-questions.mjs and the page   *)
(* script src/scripts/paper-turn.ts that draws from it, in one tab.        *)
(*                                                                         *)
(* A page holds the deck in memory and saves it to sessionStorage at each  *)
(* visit and draw.  The browser holds the history: entries made by         *)
(* pushState share the document of the entry before, and a document that   *)
(* was left may be kept as it was and shown again.  A navigation takes     *)
(* time, and until it commits the page that started it goes on: going says *)
(* what is under way.  The deck is shuffled, so its order is not known     *)
(* before a question is drawn: remaining is a set.                         *)
(***************************************************************************)
EXTENDS Integers, Sequences, FiniteSets

CONSTANTS
  Questions,     \* ids of questions
  Catalogs,      \* sets of ids the site is deployed with, one after the other
  MaxDraws,      \* bound: questions drawn
  MaxMoves       \* bound: navigations of the user

\* What a module that makes a deck has to assume.
DeckAssumption ==
  /\ IsFiniteSet(Questions) /\ Questions \subseteq Nat \ {0}
  /\ Catalogs \in Seq((SUBSET Questions) \ {{}}) /\ Catalogs # <<>>
  /\ {MaxDraws, MaxMoves} \subseteq Nat

Library == 0                     \* a page without a question: its id is ''
Addresses == Questions \cup {Library}
Blocked == [catalog |-> {}, remaining |-> {}]  \* sessionStorage cannot be used

VARIABLES
  deployed,     \* index of the catalog of the site
  saved,        \* sessionStorage: [catalog, remaining], or Blocked
  page,         \* the live document
  kept,         \* documents that were left and may be restored as they were
  history, at,  \* entries [address, doc], and the present one
  click,        \* the click handler: <<>>, <<"fetching", id>> or <<"turning">>
  going,        \* navigation under way: <<>>, <<"reload">> or <<"assign", address>>
  seen,         \* ghost: questions visited or drawn in this round
  stale,        \* ghost: a restored document was used before its reload
  draws, moves  \* steps counted for the bounds

browser == <<kept, history, at>>
counted == <<stale, draws, moves>>
vars == <<deployed, saved, page, browser, click, going, seen, counted>>

Catalog == Catalogs[deployed]

\* Questions that came with a later version of the site than the saved deck.
Added == Catalog \ saved.catalog

\* What createQuestionDeck keeps of the saved deck for the present catalog.
Loaded == (saved.remaining \cap Catalog) \cup Added

Save(catalog, remaining) ==
  saved' = IF saved = Blocked THEN Blocked ELSE [catalog |-> catalog, remaining |-> remaining]

Documents ==
  [doc : Int, current : Addresses, catalog : SUBSET Questions, remaining : SUBSET Questions,
   busy : BOOLEAN, swapped : BOOLEAN, restored : BOOLEAN]
Document(doc, address, catalog, remaining) ==
  [doc |-> doc, current |-> address, catalog |-> catalog, remaining |-> remaining,
   busy |-> FALSE, swapped |-> FALSE, restored |-> FALSE]

\* The script of a page makes its deck from what was saved, and visits.
RunScript(doc, address) ==
  /\ page' = Document(doc, address, Catalog, Loaded \ {address})
  /\ Save(Catalog, Loaded \ {address})
  /\ seen' = (IF saved = Blocked THEN {} ELSE seen \ Added) \cup ({address} \cap Questions)

\* A question that is gone gives an error page, which takes no click.
Load(doc, address) ==
  /\ click' = <<>> /\ going' = <<>>
  /\ \/ address \in Catalog \cup {Library} /\ RunScript(doc, address)
     \/ /\ address \in Questions \ Catalog
        /\ page' = [Document(doc, address, {}, {}) EXCEPT !.busy = TRUE]
        /\ UNCHANGED <<saved, seen>>

Init ==
  /\ deployed = 1
  /\ \E a \in Catalog \cup {Library} :
       /\ page = Document(1, a, Catalog, Catalog \ {a})
       /\ history = <<[address |-> a, doc |-> 1]>> /\ at = 1
       /\ saved \in {Blocked, [catalog |-> Catalog, remaining |-> Catalog \ {a}]}
       /\ seen = {a} \cap Questions
  /\ kept = {} /\ click = <<>> /\ going = <<>>
  /\ stale = FALSE /\ draws = 0 /\ moves = 0

\* -- The click handler

Unseen == page.remaining \ {page.current}

\* Mutant: the new round is shuffled with the present question.
PoolWithCurrent == IF Unseen = {} THEN page.catalog ELSE Unseen

\* next: the last question of a round is followed by a new round.
Pool == IF Unseen = {} THEN page.catalog \ {page.current} ELSE Unseen

\* A click draws id.  Without a sheet to turn it leaves at once, and stays busy.
Draw(id) ==
  /\ ~page.busy /\ draws < MaxDraws /\ id \in Pool
  /\ page' = [page EXCEPT !.remaining = Pool \ {id}, !.busy = TRUE]
  /\ Save(page.catalog, Pool \ {id})
  /\ seen' = (IF Unseen = {} THEN {} ELSE seen) \cup ({page.current, id} \cap Questions)
  /\ \/ going' = <<"assign", id>> /\ UNCHANGED click
     \/ page.current # Library /\ click' = <<"fetching", id>> /\ UNCHANGED going
  /\ stale' = (stale \/ page.restored)
  /\ draws' = draws + 1
  /\ UNCHANGED <<deployed, browser, moves>>

\* The only question of the catalog is the current one: nothing to draw.
DrawNothing ==
  /\ ~page.busy /\ Pool = {}
  /\ page' = [page EXCEPT !.remaining = {}]
  /\ Save(page.catalog, {})
  /\ stale' = (stale \/ page.restored)
  /\ UNCHANGED <<deployed, browser, click, going, seen, draws, moves>>

Past == SubSeq(history, 1, at)

\* The page of the drawn question came: it takes the place of the present one.
Swap ==
  /\ \E id \in Catalog :
       /\ click = <<"fetching", id>> /\ click' = <<"turning">>
       /\ page' = [page EXCEPT !.current = id, !.swapped = TRUE]
       /\ history' = Append(Past, [address |-> id, doc |-> page.doc])
  /\ at' = at + 1 /\ kept' = {p \in kept : p.doc <= page.doc}
  /\ UNCHANGED <<deployed, saved, going, seen, counted>>

\* It did not come, or in vain: a normal navigation takes over.
FetchFails ==
  /\ \E id \in Questions : click = <<"fetching", id>> /\ going' = <<"assign", id>>
  /\ click' = <<>> /\ page' = [page EXCEPT !.busy = FALSE]
  /\ UNCHANGED <<deployed, saved, browser, seen, counted>>

Turned ==
  /\ click = <<"turning">> /\ click' = <<>>
  /\ page' = [page EXCEPT !.busy = FALSE]
  /\ UNCHANGED <<deployed, saved, browser, going, seen, counted>>

\* -- The browser

\* The user follows a link, or reloads.
Navigate ==
  /\ moves < MaxMoves /\ moves' = moves + 1
  /\ going' \in {<<"reload">>} \cup {<<"assign", a>> : a \in Catalog \cup {Library}}
  /\ UNCHANGED <<deployed, saved, page, browser, click, seen, stale, draws>>

\* The document that is left may be kept, unless it waits for something.
Left == IF click = <<>> THEN {kept, kept \cup {page}} ELSE {kept}

Reload ==
  /\ going = <<"reload">>
  /\ Load(page.doc, history[at].address)
  /\ UNCHANGED <<deployed, browser, counted>>

Assign ==
  /\ \E a \in Addresses :
       /\ going = <<"assign", a>>
       /\ Load(history[at].doc + 1, a)
       /\ history' = Append(Past, [address |-> a, doc |-> history[at].doc + 1])
  /\ kept' \in {{p \in K : p.doc <= page.doc} : K \in Left}
  /\ at' = at + 1
  /\ UNCHANGED <<deployed, counted>>

\* A step in the history within one document: popstate.
Popstate(i) ==
  /\ history[i].doc = page.doc
  /\ going' = IF page.swapped THEN <<"reload">> ELSE going
  /\ UNCHANGED <<saved, page, kept, click, seen>>

\* A step to a kept document: pageshow, which reloads it.
Restore(i) ==
  /\ \E p \in kept, K \in Left :
       /\ p.doc = history[i].doc
       /\ page' = [p EXCEPT !.restored = TRUE]
       /\ kept' = K \ {p}
  /\ click' = <<>> /\ going' = <<"reload">>
  /\ UNCHANGED <<saved, seen>>

\* A step to a document that was not kept.
Revisit(i) ==
  /\ history[i].doc # page.doc
  /\ Load(history[i].doc, history[i].address)
  /\ \E K \in Left : kept' = {p \in K : p.doc # history[i].doc}

Traverse ==
  /\ moves < MaxMoves /\ moves' = moves + 1
  /\ \E i \in {at - 1, at + 1} \cap DOMAIN history :
       at' = i /\ (Popstate(i) \/ Restore(i) \/ Revisit(i))
  /\ UNCHANGED <<deployed, history, stale, draws>>

\* A new version of the site.
Deploy ==
  /\ deployed < Len(Catalogs) /\ deployed' = deployed + 1
  /\ UNCHANGED <<saved, page, browser, click, going, seen, counted>>

Next ==
  \/ \E id \in Questions : Draw(id)
  \/ DrawNothing \/ Swap \/ FetchFails \/ Turned
  \/ Navigate \/ Reload \/ Assign \/ Traverse \/ Deploy

Spec == Init /\ [][Next]_vars
-----------------------------------------------------------------------------
TypeOK ==
  /\ deployed \in 1 .. Len(Catalogs)
  /\ saved \in [catalog : SUBSET Questions, remaining : SUBSET Questions]
  /\ page \in Documents /\ kept \subseteq Documents
  /\ history \in Seq([address : Addresses, doc : Int]) /\ at \in 1 .. Len(history)
  /\ click \in {<<>>, <<"turning">>} \cup {<<"fetching", id>> : id \in Questions}
  /\ going \in {<<>>, <<"reload">>} \cup {<<"assign", a>> : a \in Addresses}
  /\ seen \subseteq Questions /\ stale \in BOOLEAN
  /\ draws \in 0 .. MaxDraws /\ moves \in 0 .. MaxMoves

\* The deck in use and the saved one hold exactly what the round has not shown,
\* through reloads, swaps, failed fetches, steps in the history and new versions
\* of the site; a document that was restored is excepted until its reload, and
\* everything after it was used in that time.
RoundTrue ==
  ~stale /\ saved # Blocked =>
    /\ saved.remaining = saved.catalog \ seen
    /\ ~page.restored /\ page.catalog # {} =>
         page.remaining = saved.remaining /\ page.catalog = saved.catalog

\* What the README says: no question of the round is drawn again, and a new
\* round does not begin with the present question.
NoRepeatInRound ==
  [][\A id \in Questions : Draw(id) /\ saved # Blocked =>
       IF Unseen = {} THEN id # page.current ELSE id \notin seen]_vars
=============================================================================
