--------------------------------- MODULE Console ---------------------------------
(***************************************************************************)
(* One signed-in tab of the console: the pages somebody visits, their      *)
(* requests, and the cache of query-provider.tsx that they are kept in.    *)
(*                                                                         *)
(* The cache is TanStack Query (version 5), modelled from how the pages    *)
(* use it.  A query that is mounted is fetched unless its entry is fresh   *)
(* or a fetch of it is under way.  To invalidate is to mark entries stale  *)
(* and to fetch the mounted ones anew; that gives up a fetch under way     *)
(* only if there is an entry already, a first load goes on, and whatever   *)
(* it brings is fresh.  Nothing that fails is tried again before its query *)
(* is mounted or invalidated again (retry: false).  An entry is "behind"   *)
(* when it lacks something this tab wrote.                                 *)
(***************************************************************************)
EXTENDS Pages, Naturals

CONSTANTS
  Role,       \* the roles people have
  Opened,     \* the pages they begin at
  Visited,    \* the pages they go on to
  MaxVisits,  \* bound: so many pages after the first
  MaxWrites,  \* bound: so many of them
  Aged,       \* the keys whose entry may get five minutes old
  Failing     \* the keys whose fetch may fail

ASSUME ConsoleAssumption ==
  /\ Role \subseteq UserRole
  /\ Opened \subseteq PageName /\ Visited \subseteq Opened
  /\ MaxVisits \in Nat /\ MaxWrites \in Nat
  /\ Aged \subseteq Keys /\ Failing \subseteq Keys

VARIABLES
  role,      \* of the user
  view,      \* the page shown, and its open panel
  cache,     \* the entry of each key
  behind,    \* the entries that lack a write of this tab
  fetch,     \* the fetch of each key
  flight,    \* the write under way
  promised,  \* the keys invalidated, while mounted, after the last write they show,
             \* but for first loads that write overtook
  visits, sent

vars == <<role, view, cache, behind, fetch, flight, promised, visits, sent>>

NoFlight == [state |-> "none"]

\* No fetch is under way: none was sent, the last one was delivered, or failed,
\* or RolesGuard turned it down.
Idle == {"no", "failed", "denied"}

UnderWay == {"asked", "answered", "outrun"}

\* The write under way is one of its page's.
FlightOK ==
  \/ flight = NoFlight
  \/ /\ flight \in [state: {"asked", "rest", "done", "refused"}, page: Opened, write: Writes]
     /\ flight.write \in PageOf[flight.page].writes

TypeOK ==
  /\ role \in Role
  /\ view \in [page: Opened, panel: Panel]
  /\ cache \in [Keys -> {"none", "fresh", "stale"}]
  /\ behind \subseteq {k \in Keys : cache[k] # "none"}
  /\ fetch \in [Keys -> Idle \cup UnderWay]
  /\ FlightOK
  /\ promised \subseteq Keys
  /\ visits \in 0..MaxVisits /\ sent \in 0..MaxWrites

MenuPages == {p \in Visited : role \in PageOf[p].roles}

Mounted == Mounts(role, view.page, view.panel)

Offered == Offers(role, view.page, view.panel)

Init ==
  /\ role \in Role
  /\ view \in [page: {p \in Opened : role \in PageOf[p].roles}, panel: {"main"}]
  /\ cache = [k \in Keys |-> "none"]
  /\ behind = {}
  /\ fetch = [k \in Keys |-> IF k \in Mounted THEN "asked" ELSE "no"]
  /\ flight = NoFlight
  /\ promised = {}
  /\ visits = 0 /\ sent = 0

-----------------------------------------------------------------------------
(* The user *)

Show(page, panel) ==
  /\ view' = [page |-> page, panel |-> panel]
  /\ \E shown \in {Mounts(role, page, panel)}, before \in {Mounted} :
       /\ fetch' = [k \in Keys |->
            IF k \in shown \ before /\ cache[k] # "fresh" /\ fetch[k] \in Idle
            THEN "asked" ELSE fetch[k]]
       /\ promised' = promised \cap shown

Visit(page) ==
  /\ page \in MenuPages \ {view.page}
  /\ visits < MaxVisits
  /\ visits' = visits + 1
  /\ Show(page, "main")
  /\ UNCHANGED <<role, cache, behind, flight, sent>>

\* A drawer is opened on a row of the list.
OpenPanel(panel) ==
  /\ view.panel = "main"
  /\ panel \in Panels(view.page) \ {"main"}
  /\ panel = "drawer" => \E k \in Lists(view.page) : cache[k] # "none"
  /\ Show(view.page, panel)
  /\ UNCHANGED <<role, cache, behind, flight, visits, sent>>

ClosePanel ==
  /\ view.panel # "main"
  /\ Show(view.page, "main")
  /\ UNCHANGED <<role, cache, behind, flight, visits, sent>>

Submit(w) ==
  /\ w \in Offered
  /\ flight = NoFlight
  /\ sent < MaxWrites
  /\ sent' = sent + 1
  /\ flight' = [state |-> "asked", page |-> view.page, write |-> w]
  /\ UNCHANGED <<role, view, cache, behind, fetch, promised, visits>>

-----------------------------------------------------------------------------
(* The server *)

Answer(k) ==
  /\ fetch[k] = "asked"
  /\ fetch' = [fetch EXCEPT ![k] =
       IF Served(role, "GET", QueryOf[k].path) THEN "answered" ELSE "denied"]
  /\ UNCHANGED <<role, view, cache, behind, flight, promised, visits, sent>>

Permitted(f) == Served(role, f.write.method, f.write.path)

\* Everything read before shows a state that is no more.
Apply ==
  /\ flight.state = "asked"
  /\ Permitted(flight)
  /\ LET changed == {k \in Keys : QueryOf[k].shows \cap flight.write.changes # {}} IN
     /\ behind' = behind \cup {k \in changed : cache[k] # "none"}
     /\ fetch' = [k \in Keys |->
          IF k \in changed /\ fetch[k] = "answered" THEN "outrun" ELSE fetch[k]]
     /\ promised' = promised \ changed
  /\ flight' = [flight EXCEPT !.state = IF flight.write.then THEN "rest" ELSE "done"]
  /\ UNCHANGED <<role, view, cache, visits, sent>>

\* By a guard, or by the service; also of what follows a first write; or the
\* answer is lost, and with it the news that the write was done.
Decline ==
  /\ flight.state \in {"asked", "rest", "done"}
  /\ flight' = [flight EXCEPT !.state = "refused"]
  /\ UNCHANGED <<role, view, cache, behind, fetch, promised, visits, sent>>

Follow ==
  /\ flight.state = "rest"
  /\ flight' = [flight EXCEPT !.state = "done"]
  /\ UNCHANGED <<role, view, cache, behind, fetch, promised, visits, sent>>

-----------------------------------------------------------------------------
(* The answers *)

Deliver(k) ==
  /\ fetch[k] \in {"answered", "outrun"}
  /\ cache' = [cache EXCEPT ![k] = "fresh"]
  /\ behind' = IF fetch[k] = "outrun" THEN behind \cup {k} ELSE behind \ {k}
  /\ fetch' = [fetch EXCEPT ![k] = "no"]
  /\ UNCHANGED <<role, view, flight, promised, visits, sent>>

\* Mutant: removeQueries.
Staled_Removed(keys) == [k \in Keys |-> IF k \in keys THEN "none" ELSE cache[k]]

Staled(keys) ==
  [k \in Keys |-> IF k \in keys /\ cache[k] # "none" THEN "stale" ELSE cache[k]]

\* The network, or an error of the server; an entry there is counts as stale.
Lose(k) ==
  /\ k \in Failing /\ fetch[k] \in UnderWay
  /\ fetch' = [fetch EXCEPT ![k] = "failed"]
  /\ cache' = Staled({k})
  /\ UNCHANGED <<role, view, behind, flight, promised, visits, sent>>

\* Mutant: keys are marked, and fetched when they are mounted next.
Refetched_Lazily(keys) == fetch

\* invalidateQueries, for the keys that are mounted: all but the first loads
\* under way, which go on.
Refetched(keys) ==
  [k \in Keys |-> IF k \in keys \cap Mounted /\ (cache[k] # "none" \/ fetch[k] \in Idle)
                  THEN "asked" ELSE fetch[k]]

\* A first load that read the rows before the write: invalidateQueries leaves it
\* alone, and its rows will pass for fresh.
Overtaken(k) == cache[k] = "none" /\ fetch[k] = "outrun"

\* onSuccess of a write that invalidates: dialogs close themselves.
Succeed ==
  /\ flight.state = "done" /\ flight.write.invalidates # {}
  /\ LET w == flight.write IN
     /\ cache' = Staled(w.invalidates)
     /\ fetch' = Refetched(w.invalidates)
     /\ promised' = promised \cup
          {k \in Mounted \cap KeysOf(flight.page) :
             QueryOf[k].shows \cap w.changes # {} /\ ~Overtaken(k)}
  /\ flight' = NoFlight
  /\ UNCHANGED <<role, view, behind, visits, sent>>

\* onSuccess of the settings, the one write that invalidates nothing: what was
\* saved is put into the entry, and a fetch of it under way goes on.
Save ==
  /\ flight.state = "done" /\ flight.write.invalidates = {}
  /\ cache' = [cache EXCEPT !["systemSettings"] = "fresh"]
  /\ behind' = behind \ {"systemSettings"}
  /\ flight' = NoFlight
  /\ UNCHANGED <<role, view, fetch, promised, visits, sent>>

\* onError: a message, and nothing is invalidated.
Fail ==
  /\ flight.state = "refused"
  /\ flight' = NoFlight
  /\ UNCHANGED <<role, view, cache, behind, fetch, promised, visits, sent>>

\* staleTime: an entry ages, and is fetched when it is mounted next.
Age(k) ==
  /\ cache[k] = "fresh"
  /\ cache' = [cache EXCEPT ![k] = "stale"]
  /\ UNCHANGED <<role, view, behind, fetch, flight, promised, visits, sent>>

-----------------------------------------------------------------------------
Settle(k) == Answer(k) \/ Lose(k) \/ Deliver(k)

Progress ==
  \/ \E k \in Keys : Settle(k)
  \/ Apply \/ Decline \/ Follow \/ Succeed \/ Save \/ Fail

Choice ==
  \/ \E page \in Visited : Visit(page)
  \/ \E panel \in Panel : OpenPanel(panel)
  \/ ClosePanel
  \/ \E w \in Offered : Submit(w)
  \/ \E k \in Aged : Age(k)

Next == Progress \/ Choice

\* Requests are answered and callbacks run, those for a mounted query that was
\* invalidated too; nobody has to use the console.
Spec ==
  Init /\ [][Next]_vars /\ WF_vars(Progress)
    /\ WF_vars(\E k \in promised : Settle(k))

-----------------------------------------------------------------------------
\* What somebody wrote is on every mounted query of the page that shows it, or on
\* its way: from the answer to the write until the page is left, an entry that
\* lacks the write is known to be stale, and a fetch that sees the write is under
\* way or has failed; none that began before brings the old rows back.  Left out
\* are first loads the write overtook, whose rows do pass for fresh, and the
\* pickers of other pages, which stay behind until they age.
OwnWriteShows ==
  \A k \in promised \cap behind :
    cache[k] # "fresh" /\ fetch[k] \in {"asked", "answered", "failed"}

\* And the refetch does come, whatever is opened and closed meanwhile, unless it
\* fails.
OwnWriteComes == []<>(\A k \in promised \cap behind : fetch[k] = "failed")

\* A page reads only what its role may: whatever it mounts is there, on its way,
\* or failed, and RolesGuard turns none of it down, but for the lists of estimates
\* and invoices, whose routes are elsewhere, and the technicians a front desk may
\* assign and not list.
PagesReadWhatTheyMay ==
  \A k \in Mounted :
    /\ cache[k] # "none" \/ fetch[k] # "no"
    /\ fetch[k] = "denied" =>
         \/ k \in {"estimates", "invoices"}
         \/ k = "branch-techs" /\ role \notin Managers

\* A button or form that is offered is not turned down by RolesGuard, but for
\* diagnoses, which the service leaves to technicians, and for the estimate and
\* invoice forms, whose routes are elsewhere.
OffersArePermitted ==
  flight # NoFlight =>
    \/ Permitted(flight)
    \/ flight.page \in {"estimates", "invoices"}
    \/ flight.write.name = "diagnose"
=============================================================================
