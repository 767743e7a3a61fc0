---------------------------------- MODULE Pages ----------------------------------
(***************************************************************************)
(* The pages of the console as tables: whom the menu shows each to, what   *)
(* it reads from the API and under which query key, and which buttons and  *)
(* forms write, with the keys they invalidate when the answer comes.       *)
(*                                                                         *)
(* A panel is a part that is opened: a dialog, a drawer.  A query is       *)
(* mounted while its panel is, for the roles it is enabled for.            *)
(***************************************************************************)
EXTENDS Gate

Office == FrontLine   \* pages check that the visitor is no technician

Query(key, panel, roles, path, shows) ==
  [key |-> key, panel |-> panel, roles |-> roles, method |-> "GET", path |-> path,
   shows |-> shows]

\* "then": a second request made when the first is answered, before anything
\* is invalidated.
Write(name, panel, roles, route, changes, invalidates) ==
  [name |-> name, panel |-> panel, roles |-> roles, method |-> route.method, path |-> route.path,
   changes |-> changes, invalidates |-> invalidates, then |-> FALSE]

Twofold(write) == [write EXCEPT !.then = TRUE]

Page(roles, queries, writes) == [roles |-> roles, queries |-> queries, writes |-> writes]

Panel == {"main", "create", "edit", "assign", "drawer"}  \* "main": none is open

-----------------------------------------------------------------------------
\* The header, over whichever page is shown.
LayoutPage == Page(UserRole,
  {Query("notifications", "main", UserRole, <<"notifications">>, {"notification"})},
  {Write("mark-all", "main", UserRole, Patch(<<"notifications", "read-all">>),
         {"notification"}, {"notifications"}),
   Write("mark", "main", UserRole, Patch(<<"notifications", ":id", "read">>),
         {"notification"}, {"notifications"}),
   Write("delete", "main", UserRole, Delete(<<"notifications", ":id">>),
         {"notification"}, {"notifications"})})

DashboardPage == Page(UserRole,
  {Query("dashboard", "main", UserRole, <<"reports", "dashboard">>,
         {"ticket", "estimate", "invoice"})},
  {})

\* Mutant: a change of status leaves the timeline in the cache.
TicketWrites_Timeline ==
  {Write("create", "create", Office, Post(<<"repair-tickets">>), {"ticket"}, {"tickets"}),
   Write("assign", "assign", Office, Post(<<"repair-tickets", ":id", "assign">>),
         {"ticket"}, {"tickets"}),
   Write("status", "drawer", UserRole, Post(<<"repair-tickets", ":id", "status">>),
         {"ticket", "history"}, {"tickets"})}

\* Assigning writes no history row; the other two do.
TicketWrites ==
  {Write("create", "create", Office, Post(<<"repair-tickets">>), {"ticket"}, {"tickets"}),
   Write("assign", "assign", Office, Post(<<"repair-tickets", ":id", "assign">>),
         {"ticket"}, {"tickets"}),
   Write("diagnose", "drawer", UserRole, Post(<<"repair-tickets", ":id", "diagnosis">>),
         {"ticket", "history"}, {"tickets", "ticket-timeline"}),
   Write("status", "drawer", UserRole, Post(<<"repair-tickets", ":id", "status">>),
         {"ticket", "history"}, {"tickets", "ticket-timeline"})}

AttachmentWrites ==
  {Write("upload", "drawer", UserRole, Post(<<"repair-tickets", ":id", "attachments">>),
         {"attachment"}, {"ticket-attachments"}),
   Write("remove", "drawer", UserRole, Delete(<<"attachments", ":id">>),
         {"attachment"}, {"ticket-attachments"})}

TicketQueries ==
  {Query("tickets", "main", UserRole, <<"repair-tickets">>, {"ticket"}),
   Query("ticket-timeline", "drawer", UserRole, <<"repair-tickets", ":id", "timeline">>,
         {"history"}),
   Query("ticket-attachments", "drawer", UserRole, <<"repair-tickets", ":id", "attachments">>,
         {"attachment"}),
   Query("customers-list", "create", UserRole, <<"customers">>, {"customer"}),
   Query("customer-devices", "create", UserRole, <<"devices">>, {"device"}),
   Query("branch-techs", "assign", UserRole, <<"users">>, {"staff"})}

TicketsPage == Page(UserRole, TicketQueries, TicketWrites \cup AttachmentWrites)

CustomersPage == Page(FrontLine,
  {Query("customers", "main", Office, <<"customers">>, {"customer"}),
   Query("customer-details", "drawer", Office, <<"customers", ":id">>,
         {"profile", "device", "ticket"})},
  {Write("create", "create", Office, Post(<<"customers">>), {"customer"}, {"customers"})})

DevicesPage == Page(FrontLine,
  {Query("devices", "main", Office, <<"devices">>, {"device"}),
   Query("customers-list-for-devices", "create", UserRole, <<"customers">>, {"customer"}),
   Query("device-history", "drawer", UserRole, <<"devices", ":id", "repair-history">>,
         {"ticket"})},
  {Write("create", "create", Office, Post(<<"customers", ":id", "devices">>),
         {"device"}, {"devices"})})

EstimatesPage == Page(FrontLine,
  {Query("estimates", "main", Office, <<"estimates">>, {"estimate"}),
   Query("tickets-for-estimates", "create", Office, <<"repair-tickets">>, {"ticket"})},
  {Write("create", "create", Office, Post(<<"repair-tickets", ":id", "estimates">>),
         {"estimate"}, {"estimates"}),
   Write("send", "drawer", Office, Post(<<"estimates", ":id", "send">>),
         {"estimate"}, {"estimates"}),
   Write("cancel", "drawer", Office, Post(<<"estimates", ":id", "cancel">>),
         {"estimate"}, {"estimates"})})

InvoicesPage == Page(FrontLine,
  {Query("invoices", "main", Office, <<"invoices">>, {"invoice"}),
   Query("tickets-for-invoices", "create", Office, <<"repair-tickets">>, {"ticket"})},
  {Write("create", "create", Office, Post(<<"repair-tickets", ":id", "invoices">>),
         {"invoice"}, {"invoices"}),
   Write("pay", "drawer", Office, Post(<<"invoices", ":id", "payments">>),
         {"invoice"}, {"invoices"}),
   Write("void", "drawer", Managers, Post(<<"invoices", ":id", "void">>),
         {"invoice"}, {"invoices"})})

ReportsPage == Page(Managers,
  {Query("reports-revenue", "main", Managers, <<"reports", "revenue">>, {"invoice"}),
   Query("reports-techs", "main", Managers, <<"reports", "technicians">>, {"ticket"}),
   Query("reports-delayed", "main", Managers, <<"reports", "delayed-tickets">>, {"ticket"})},
  {})

BranchesPage == Page(Admins,
  {Query("branches", "main", UserRole, <<"branches">>, {"branch"})},
  {Write("create", "create", Admins, Post(<<"branches">>), {"branch"}, {"branches"}),
   Write("edit", "edit", Admins, Patch(<<"branches", ":id">>), {"branch"}, {"branches"}),
   Write("toggle", "main", Admins, Patch(<<"branches", ":id", "status">>),
         {"branch"}, {"branches"})})

\* A new account is given its branches one request at a time.
UsersPage == Page(Managers,
  {Query("staff-users", "main", Managers, <<"users">>, {"staff"}),
   Query("branches-list-for-users", "create", Managers, <<"branches">>, {"branch"})},
  {Twofold(Write("create", "create", Admins, Post(<<"users">>), {"staff"}, {"staff-users"})),
   Write("toggle", "main", Admins, Patch(<<"users", ":id", "status">>),
         {"staff"}, {"staff-users"})})

\* Mutant: the menu shows it to branch managers.
AuditLogsPage_Managers == Page(Managers,
  {Query("audit-logs", "main", Managers, <<"audit-logs">>, {"log"}),
   Query("staff-list-for-audits", "main", Managers, <<"users">>, {"staff"})},
  {})

AuditLogsPage == Page(Admins,
  {Query("audit-logs", "main", Admins, <<"audit-logs">>, {"log"}),
   Query("staff-list-for-audits", "main", Admins, <<"users">>, {"staff"})},
  {})

\* Saving puts the answer itself in the cache.
SettingsPage == Page(Admins,
  {Query("systemSettings", "main", UserRole, <<"settings">>, {"settings"})},
  {Write("save", "main", Admins, Patch(<<"settings">>), {"settings"}, {})})

-----------------------------------------------------------------------------
PageName ==
  {"layout", "dashboard", "tickets", "customers", "devices", "estimates", "invoices", "reports",
   "branches", "users", "audit-logs", "settings"}

PageOf ==
  [p \in PageName |->
    CASE p = "layout"     -> LayoutPage
      [] p = "dashboard"  -> DashboardPage
      [] p = "tickets"    -> TicketsPage
      [] p = "customers"  -> CustomersPage
      [] p = "devices"    -> DevicesPage
      [] p = "estimates"  -> EstimatesPage
      [] p = "invoices"   -> InvoicesPage
      [] p = "reports"    -> ReportsPage
      [] p = "branches"   -> BranchesPage
      [] p = "users"      -> UsersPage
      [] p = "audit-logs" -> AuditLogsPage
      [] p = "settings"   -> SettingsPage]

Queries == UNION {PageOf[p].queries : p \in PageName}

Writes == UNION {PageOf[p].writes : p \in PageName}

KeysOf(page) == {q.key : q \in PageOf[page].queries}

Keys == {q.key : q \in Queries}

\* Every key is read by one page.
QueryOf == [k \in Keys |-> CHOOSE q \in Queries : q.key = k]

\* The keys that a page shows, in full or with a panel open.
Mounts(role, page, panel) ==
  {q.key : q \in {r \in PageOf[page].queries : r.panel \in {"main", panel} /\ role \in r.roles}}

\* What the role may press there.
Offers(role, page, panel) ==
  {w \in PageOf[page].writes : w.panel \in {"main", panel} /\ role \in w.roles}

\* The panels of a page.
Panels(page) == {part.panel : part \in PageOf[page].queries \cup PageOf[page].writes}

\* The list of a page: a drawer is opened on one of its rows.
Lists(page) == {q.key : q \in {r \in PageOf[page].queries : r.panel = "main"}}
=============================================================================
