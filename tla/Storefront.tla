----------------------------- MODULE Storefront -----------------------------
(* The shop's page: the query in its URL, the text being typed, the list it   *)
(* shows and the requests for it (pages/Shop/Shop.jsx, the catalog/ modules   *)
(* of the frontend), on a catalogue the staff changes meanwhile.              *)
EXTENDS Catalogue

CONSTANT MAX_MOVES  \* bound: what the customer does

VARIABLES query,     \* parseCatalogQuery of the URL
          input,     \* searchInput: the word typed, and whether a blank surrounds it
          sync,      \* the timer that copies the query's text to the input is set
          shown,     \* what useCatalogProducts returns
          requests,  \* requests for lists, aborted ones included
          facets,    \* the request for the filters' options
          moves,     \* what the customer did so far
          typed,     \* history: the customer wrote in the input since the query took
                     \* its search
          answers    \* history: the query the list shown answers

page == <<query, input, sync, shown, requests, facets, moves, typed, answers>>
vars == <<catalogue, page>>

\* What the page shows while it waits for its first reply, and once a reply came.
Waiting == [loading |-> TRUE, products |-> {}, count |-> 0, error |-> FALSE]
Showing(reply) == [loading |-> FALSE, products |-> reply.products, count |-> reply.count,
                   error |-> reply.error]

Text == [word : Words \cup {None}, blank : BOOLEAN]

TextOf(q) == [word |-> q.search, blank |-> FALSE]

Request(q) == [query |-> q, current |-> TRUE]

\* Replies of superseded requests may still arrive: abort() is only a wish.
Superseded == {[r EXCEPT !.current = FALSE] : r \in requests}

(***************************************************************************)
(* useCatalogProducts: the effect that runs when the query changes. Prices *)
(* the wrong way round are an error of their own, without a request; else  *)
(* the list empties and keeps its count until the reply.                   *)
(***************************************************************************)
Fetch(q) ==
  IF q.filter = Inverted
  THEN /\ shown' = Showing(Refused)
       /\ requests' = Superseded
       /\ answers' = q
  ELSE /\ shown' = [shown EXCEPT !.loading = TRUE, !.products = {}, !.error = FALSE]
       /\ requests' = Superseded \cup {Request(q)}
       /\ answers' = None

\* The correction of a page beyond the last runs with the list of the previous query.
Corrected(q) ==
  IF ~shown.loading /\ shown.count > 0 /\ q.page > Pages(shown.count)
  THEN [q EXCEPT !.page = Pages(shown.count)]
  ELSE q

\* Defect: the text typed is not brought back to the query's.
NavigateKeepingText(q) ==
  LET landed == Corrected(q) IN
  /\ query' = landed
  /\ IF q = query /\ landed = q THEN UNCHANGED <<shown, requests, answers>> ELSE Fetch(landed)
  /\ sync' = sync
  /\ typed' = (typed /\ landed.search = query.search)

\* A change of the URL and the effects that follow it. A correction that leads back
\* asks for the list again: its request was given up for the one of the page beyond.
Navigate(q) ==
  LET landed == Corrected(q) IN
  /\ query' = landed
  /\ IF q = query /\ landed = q THEN UNCHANGED <<shown, requests, answers>> ELSE Fetch(landed)
  /\ sync' = (sync \/ landed.search # query.search)
  /\ typed' = (typed /\ landed.search = query.search)

(***************************************************************************)
(* The customer                                                            *)
(***************************************************************************)
Move == moves < MAX_MOVES /\ moves' = moves + 1

Type(text) ==
  /\ Move
  /\ input' = text /\ typed' = TRUE
  /\ UNCHANGED <<query, sync, shown, requests, facets, answers>>

\* The form: the text goes to the URL at once, trimmed when it is parsed; page 1.
Submit ==
  /\ Move
  /\ Navigate([query EXCEPT !.search = input.word, !.page = 1])
  /\ UNCHANGED <<input, facets>>

ChangeFilter(f) ==
  /\ Move
  /\ Navigate([query EXCEPT !.filter = f, !.page = 1])
  /\ UNCHANGED <<input, facets>>

\* The pagination is there when a list is, with the pages its count gives.
ChangePage(k) ==
  /\ Move
  /\ ~shown.loading /\ ~shown.error /\ shown.count > 0
  /\ k \in 1..Pages(shown.count)
  /\ Navigate([query EXCEPT !.page = k])
  /\ UNCHANGED <<input, facets>>

ClearFilters ==
  /\ Move
  /\ input' = [word |-> None, blank |-> FALSE]
  /\ Navigate([search |-> None, filter |-> None, page |-> 1])
  /\ UNCHANGED facets

\* A link to the shop, or the browser's Back and Forward.
Follow(q) ==
  /\ Move
  /\ Navigate(q)
  /\ UNCHANGED <<input, facets>>

\* Leaving the shop cancels its requests; coming back mounts a new page.
Visit(q) ==
  /\ Move
  /\ query' = q /\ input' = TextOf(q) /\ sync' = FALSE /\ typed' = FALSE
  /\ facets' = "loading"
  /\ IF q.filter = Inverted
     THEN shown' = Showing(Refused) /\ requests' = Superseded /\ answers' = q
     ELSE /\ shown' = Waiting
          /\ requests' = Superseded \cup {Request(q)}
          /\ answers' = None

\* "Réessayer" stands under any of the two errors and asks for both again.
Retry ==
  /\ Move
  /\ shown.error \/ facets = "failed"
  /\ facets' = "loading"
  /\ Fetch(query)
  /\ UNCHANGED <<query, input, sync, typed>>

(***************************************************************************)
(* Timers and replies                                                      *)
(***************************************************************************)
\* setTimeout 0 after a change of the query's text: what was typed since goes.
Sync ==
  /\ sync
  /\ input' = TextOf(query) /\ sync' = FALSE /\ typed' = FALSE
  /\ UNCHANGED <<query, shown, requests, facets, moves, answers>>

\* 350 ms without a change of text or query; a blank never settles.
Debounce ==
  /\ ~sync
  /\ input # TextOf(query)
  /\ Navigate([query EXCEPT !.search = input.word, !.page = 1])
  /\ UNCHANGED <<input, facets, moves>>

\* The server's list, or an error of the network.
Replies(r) == {Listed(r.query), Refused}

\* Defect: the number of the request is not compared.
ArriveAlways(r) ==
  /\ requests' = requests \ {r}
  /\ \E reply \in Replies(r) : shown' = Showing(reply)
  /\ answers' = r.query
  /\ UNCHANGED <<query, input, sync, facets, moves, typed>>

\* Defect: an error is taken for a cancellation.
ArriveIgnoringErrors(r) ==
  /\ requests' = requests \ {r}
  /\ \E reply \in Replies(r) :
       IF r.current /\ ~reply.error
       THEN shown' = Showing(reply) /\ answers' = r.query
       ELSE UNCHANGED <<shown, answers>>
  /\ UNCHANGED <<query, input, sync, facets, moves, typed>>

\* createLatestRequest: the reply of a superseded request is dropped.
Arrive(r) ==
  /\ requests' = requests \ {r}
  /\ IF r.current
     THEN /\ \E reply \in Replies(r) : shown' = Showing(reply)
          /\ answers' = r.query
     ELSE UNCHANGED <<shown, answers>>
  /\ UNCHANGED <<query, input, sync, facets, moves, typed>>

FacetsEnd ==
  /\ facets = "loading"
  /\ facets' \in {"shown", "failed"}
  /\ UNCHANGED <<query, input, sync, shown, requests, moves, typed, answers>>

Init ==
  /\ CatalogueInit
  /\ \E q \in Query : /\ q.filter # Inverted
                      /\ query = q /\ input = TextOf(q)
                      /\ requests = {Request(q)}
  /\ sync = FALSE /\ typed = FALSE
  /\ shown = Waiting
  /\ facets = "loading" /\ moves = 0 /\ answers = None

Customer ==
  \/ \E text \in Text : Type(text)
  \/ Submit \/ ClearFilters \/ Retry
  \/ \E f \in Categories \cup {None, Inverted} : ChangeFilter(f)
  \/ \E k \in 1..MAX_PAGE : ChangePage(k)
  \/ \E q \in Query : Follow(q) \/ Visit(q)

Browser == Sync \/ Debounce \/ FacetsEnd \/ \E r \in requests : Arrive(r)

Next == \/ (Customer \/ Browser) /\ UNCHANGED catalogue
        \/ Staff /\ UNCHANGED page

\* A request ends: axios gives up after its timeout. The browser's timers fire.
Progress == Sync \/ Debounce \/ \E r \in requests : r.current /\ Arrive(r)

Fairness == WF_vars(Progress /\ UNCHANGED catalogue)

Spec == Init /\ [][Next]_vars /\ Fairness

(***************************************************************************)
(* Properties                                                              *)
(***************************************************************************)
\* Type correctness of the shop's page.
StorefrontTypeOK ==
  /\ query \in Query /\ input \in Text /\ sync \in BOOLEAN /\ typed \in BOOLEAN
  /\ shown.products \subseteq Products /\ shown.loading \in BOOLEAN /\ shown.error \in BOOLEAN
  /\ facets \in {"loading", "shown", "failed"} /\ answers \in Query \cup {None}

\* The list shown is the one of the query in the URL, whatever replies cross: once it is
\* not loading it answers that very query and holds only products that match it.
ListIsTheQuerys ==
  ~shown.loading => answers = query /\ \A p \in shown.products : Matches(p, query)

\* What the timer of the search field may put in the URL was typed while the URL had the
\* search it has: a link or Back to another search is never undone by a text left in the
\* field, whatever was typed, submitted, corrected or cleared before. (One that keeps the
\* search and changes the filters is not to another search: what is being typed then
\* follows it.)
SearchIsTyped == input # TextOf(query) => sync \/ typed

\* The list is never left loading.
LoadingEnds == shown.loading ~> ~shown.loading

=============================================================================
