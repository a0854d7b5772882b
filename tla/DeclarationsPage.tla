---------------------------- MODULE DeclarationsPage ----------------------------
(***************************************************************************)
(* The page of the Cua Khau So declarations in one browser: the list under  *)
(* the filters that are chosen, the panel with the declaration that was     *)
(* opened and the button that synchronises it, and the buttons that write   *)
(* and then load the list again (CuaKhauSoClient).                          *)
(*                                                                         *)
(* The load of an effect is dropped when the filters have changed; other    *)
(* answers are not, and a reload is for the filters of the click.  Answers  *)
(* come in any order.  What a declaration says, the outcome of a            *)
(* synchronisation and messages are left out; an organisation that cannot be *)
(* had is a failed load.                                                    *)
(***************************************************************************)
EXTENDS Integers

CONSTANTS
    Declarations,
    Queries,  \* choices of every filter but the page number
    MaxPage,  \* bound: pages of a list
    Clicks,   \* calls under way that a click started
    None

VARIABLES
    page,    \* the state of the component
    clicked  \* the calls

vars == <<page, clicked>>

Filters == [query : Queries, pageNumber : 1..MaxPage]
Writes == {"submitLogin", "syncSelectedDeclaration", "runManualAutoSync"}
Idle == [does |-> "nothing"]
Calls == {Idle}
    \union [does : {"openDetail"}, id : Declarations, overtaken : BOOLEAN]
    \union [does : {"write", "reload"}, by : Writes \union {"refresh"},
            filters : Filters, overtaken : BOOLEAN]

TypeOK ==
    /\ page \in [filters : Filters, isLoading : BOOLEAN,
                 data : {None} \union [of : Filters, totalPage : 0..MaxPage],
                 selected : Declarations \union {None},
                 detail : Declarations \union {None}, isDetailLoading : BOOLEAN,
                 outdated : BOOLEAN, misled : BOOLEAN]
    /\ clicked \in [Clicks -> Calls]

\* outdated and misled are history: the list is of a reload that was overtaken, or
\* the last load failed; the panel is of a click that was overtaken, or a detail
\* could not be had.
Init ==
    /\ page \in [filters : [query : Queries, pageNumber : {1}], isLoading : {TRUE},
                 data : {None}, selected : {None}, detail : {None},
                 isDetailLoading : {FALSE}, outdated : {FALSE}, misled : {FALSE}]
    /\ clicked = [c \in Clicks |-> Idle]

-----------------------------------------------------------------------------

Does(c, what) == clicked[c].does = what
Starts(calls, c, call) == Does(c, "nothing") /\ clicked' = [calls EXCEPT ![c] = call]
Busy(write) == \E c \in Clicks : clicked[c].does \in {"write", "reload"} /\ clicked[c].by = write

Overtake(calls, kinds) ==
    [c \in Clicks |-> IF calls[c].does \in kinds THEN [calls[c] EXCEPT !.overtaken = TRUE]
                      ELSE calls[c]]

\* The list and the panel are there while nothing is loaded and the list has rows.
ListIsThere ==
    /\ ~ page.isLoading /\ page.data # None
    /\ page.data.of.pageNumber <= page.data.totalPage

\* Mutant: the panel keeps the declaration.
ChangeFiltersOnly(query) ==
    /\ query # page.filters.query
    /\ page' = [page EXCEPT !.filters = [query |-> query, pageNumber |-> 1],
                            !.isLoading = TRUE, !.selected = None]
    /\ clicked' = Overtake(clicked, {"openDetail", "write", "reload"})

\* A filter changes: the first page of the new list is loaded, nothing is selected.
ChangeFilters(query) ==
    /\ query # page.filters.query
    /\ page' = [page EXCEPT !.filters = [query |-> query, pageNumber |-> 1],
                            !.isLoading = TRUE, !.selected = None, !.detail = None]
    /\ clicked' = Overtake(clicked, {"openDetail", "write", "reload"})

\* The previous or the next page: another load, but the selection stays.
TurnPage ==
    /\ ListIsThere
    /\ \E number \in (1..page.data.totalPage) \intersect
                       {page.filters.pageNumber - 1, page.filters.pageNumber + 1} :
          page' = [page EXCEPT !.filters.pageNumber = number, !.isLoading = TRUE]
    /\ clicked' = Overtake(clicked, {"write", "reload"})

\* New data: if it has fewer pages, the last of them is loaded.
Shows(data, isLoading, outdated, calls) ==
    LET beyond == data.totalPage > 0 /\ page.filters.pageNumber > data.totalPage
    IN /\ page' = [page EXCEPT !.data = data, !.outdated = outdated,
                               !.isLoading = isLoading \/ beyond,
                               !.filters.pageNumber = IF beyond THEN data.totalPage ELSE @]
       /\ clicked' = IF beyond THEN Overtake(calls, {"write", "reload"}) ELSE calls

\* loadData of the effect.
LoadArrives ==
    /\ page.isLoading
    /\ \E total \in 0..MaxPage :
          Shows([of |-> page.filters, totalPage |-> total], FALSE, FALSE, clicked)

\* The former list stays, with a message.
LoadFails ==
    /\ page.isLoading
    /\ page' = [page EXCEPT !.isLoading = FALSE, !.outdated = TRUE]
    /\ UNCHANGED clicked

\* submitLogin, syncSelectedDeclaration, runManualAutoSync, each with its own busy
\* flag and, in its closure, the filters of the moment; and the button that
\* reloads.
Click(c) ==
    /\ \/ \E write \in Writes :
             /\ page.data # None /\ ~ Busy(write)
             /\ write = "submitLogin" => ~ page.isLoading
             /\ write = "syncSelectedDeclaration" =>
                   ListIsThere /\ page.detail # None /\ ~ page.isDetailLoading
             /\ Starts(clicked, c, [does |-> "write", by |-> write,
                                    filters |-> page.filters, overtaken |-> FALSE])
       \/ Starts(clicked, c, [does |-> "reload", by |-> "refresh",
                              filters |-> page.filters, overtaken |-> FALSE])
    /\ UNCHANGED page

\* What was asked for is done: the list is loaded again.
Written(c) ==
    /\ Does(c, "write")
    /\ clicked' = [clicked EXCEPT ![c].does = "reload"]
    /\ UNCHANGED page

\* reload has its answer and shows it, whatever the filters are now.
reload(c) ==
    /\ Does(c, "reload")
    /\ \E total \in 0..MaxPage :
          Shows([of |-> clicked[c].filters, totalPage |-> total], page.isLoading,
                clicked[c].overtaken, [clicked EXCEPT ![c] = Idle])

WriteOrReloadFails(c) ==
    /\ Does(c, "write") \/ Does(c, "reload")
    /\ clicked' = [clicked EXCEPT ![c] = Idle]
    /\ UNCHANGED page

openDetail(c, d) ==
    /\ ListIsThere
    /\ Starts(Overtake(clicked, {"openDetail"}), c,
              [does |-> "openDetail", id |-> d, overtaken |-> FALSE])
    /\ page' = [page EXCEPT !.selected = d, !.isDetailLoading = TRUE]

DetailArrives(c) ==
    /\ Does(c, "openDetail")
    /\ page' = [page EXCEPT !.detail = clicked[c].id, !.isDetailLoading = FALSE,
                            !.misled = clicked[c].overtaken]
    /\ clicked' = [clicked EXCEPT ![c] = Idle]

\* The former detail stays.
DetailFails(c) ==
    /\ Does(c, "openDetail")
    /\ page' = [page EXCEPT !.isDetailLoading = FALSE, !.misled = TRUE]
    /\ clicked' = [clicked EXCEPT ![c] = Idle]

Next ==
    \/ \E query \in Queries : ChangeFilters(query)
    \/ TurnPage \/ LoadArrives \/ LoadFails
    \/ \E c \in Clicks :
          \/ Click(c) \/ Written(c) \/ reload(c) \/ WriteOrReloadFails(c)
          \/ \E d \in Declarations : openDetail(c, d)
          \/ DetailArrives(c) \/ DetailFails(c)

Spec == Init /\ [][Next]_vars

-----------------------------------------------------------------------------
(* Properties *)

\* The declaration in the panel, which its button synchronises, is the one that is
\* highlighted, unless the answer to a click came after the next click or a change
\* of the filters, or a detail could not be loaded.
SyncsTheSelected ==
    page.detail # None /\ ~ page.isDetailLoading =>
        page.detail = page.selected \/ page.misled

\* The list is that of the filters and the page number above it, unless a reload
\* was asked for before they changed or the last load failed.
ListIsAsFiltered ==
    page.data # None /\ ~ page.isLoading =>
        page.data.of = page.filters \/ page.outdated
=============================================================================
