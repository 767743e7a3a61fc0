------------------------------ MODULE Console_proofs ------------------------------
(***************************************************************************)
(* What holds of the console for every choice of roles, pages and bounds.  *)
(*                                                                         *)
(* The tables are read first, row by row: each key belongs to one page,    *)
(* each write invalidates what it changes there (WritesAreFelt), and each  *)
(* row's route is one its roles are let through to, or one the properties  *)
(* name.  The state machine is then reasoned about with these facts of     *)
(* its pages alone (PagesAreSound).                                        *)
(***************************************************************************)
EXTENDS Console, SequenceTheorems, TLAPS

-----------------------------------------------------------------------------
(* Routes *)

LEMMA AppendOne ==
  ASSUME NEW a, NEW b
  PROVE  <<a>> \o <<b>> = <<a, b>>
<1> DEFINE S == {a, b}
<1>1. <<a>> \in Seq(S) /\ <<b>> \in Seq(S) /\ <<a, b>> \in Seq(S)
  OBVIOUS
<1>2. <<a>> \o <<b>> \in Seq(S) /\ Len(<<a>> \o <<b>>) = 2 /\ Len(<<a, b>>) = 2
  BY <1>1
<1>3. (<<a>> \o <<b>>)[1] = a /\ (<<a>> \o <<b>>)[2] = b
  BY <1>1
<1>4. \A i \in 1..2 : (<<a>> \o <<b>>)[i] = <<a, b>>[i]
  BY <1>3
<1> HIDE DEF S
<1> QED
  BY <1>1, <1>2, <1>4, SeqEqual

LEMMA AppendTwo ==
  ASSUME NEW a, NEW b, NEW c
  PROVE  <<a>> \o <<b, c>> = <<a, b, c>>
<1> DEFINE S == {a, b, c}
<1>1. <<a>> \in Seq(S) /\ <<b, c>> \in Seq(S) /\ <<a, b, c>> \in Seq(S)
  OBVIOUS
<1>2. <<a>> \o <<b, c>> \in Seq(S) /\ Len(<<a>> \o <<b, c>>) = 3 /\ Len(<<a, b, c>>) = 3
  BY <1>1
<1>3. (<<a>> \o <<b, c>>)[1] = a /\ (<<a>> \o <<b, c>>)[2] = b /\ (<<a>> \o <<b, c>>)[3] = c
  BY <1>1
<1>4. \A i \in 1..3 : (<<a>> \o <<b, c>>)[i] = <<a, b, c>>[i]
  BY <1>3
<1> HIDE DEF S
<1> QED
  BY <1>1, <1>2, <1>4, SeqEqual

LEMMA AppendNone ==
  ASSUME NEW a
  PROVE  <<a>> \o <<>> = <<a>>
OBVIOUS

\* A handler's route under its controller's path: with a path of its own or
\* bare, for everybody or restricted.
LEMMA RouteUnder ==
  ASSUME NEW prefix, NEW routes, NEW m, NEW p, NEW roles, Route(m, p, roles) \in routes
  PROVE  Route(m, prefix \o p, roles) \in Under(prefix, routes)
<1> DEFINE r == Route(m, p, roles)
           long == prefix \o p
<1>1. r.path = p
  BY DEF Route
<1>2. [r EXCEPT !.path = prefix \o @] = [r EXCEPT !.path = long]
  BY <1>1
<1>3. [r EXCEPT !.path = long] = Route(m, long, roles)
  <2> HIDE DEF long
  <2> QED
    BY DEF Route
<1>4. [r EXCEPT !.path = prefix \o @] \in Under(prefix, routes)
  BY DEF Under
<1> QED
  BY <1>2, <1>3, <1>4

LEMMA BareUnder ==
  ASSUME NEW a, NEW routes, NEW m, NEW roles, Route(m, <<>>, roles) \in routes
  PROVE  Route(m, <<a>>, roles) \in Under(<<a>>, routes)
<1> DEFINE none == <<>>
<1>1. <<a>> \o none = <<a>>
  BY AppendNone
<1>2. Route(m, none, roles) \in routes
  OBVIOUS
<1> HIDE DEF none
<1> QED
  BY <1>1, <1>2, RouteUnder

LEMMA ForUnder ==
  ASSUME NEW prefix, NEW routes, NEW m, NEW p, NEW roles, NEW some,
         For(roles, Route(m, p, some)) \in routes
  PROVE  Route(m, prefix \o p, roles) \in Under(prefix, routes)
<1>1. For(roles, Route(m, p, some)) = Route(m, p, roles)
  BY DEF For, Route
<1> QED
  BY <1>1, RouteUnder

LEMMA BareFor ==
  ASSUME NEW a, NEW routes, NEW m, NEW roles, NEW some,
         For(roles, Route(m, <<>>, some)) \in routes
  PROVE  Route(m, <<a>>, roles) \in Under(<<a>>, routes)
<1>1. For(roles, Route(m, <<>>, some)) = Route(m, <<>>, roles)
  BY DEF For, Route
<1> QED
  BY <1>1, BareUnder

\* RolesGuard lets a declared route's roles through.
LEMMA RouteServed ==
  ASSUME NEW who, NEW m, NEW p, NEW roles, Route(m, p, roles) \in Routes,
         who \in roles \cup Unscoped
  PROVE  Served(who, m, p)
<1>1. LET r == Route(m, p, roles) IN r.method = m /\ r.path = p /\ r.roles = roles
  BY DEF Route
<1> QED
  BY <1>1 DEF Served, Found, RolesGuard

\* What each controller serves of what the pages ask for, and to whom.
LEMMA UsersServe ==
  /\ \A who \in Managers : Served(who, "GET", <<"users">>)
  /\ \A who \in Managers : Served(who, "POST", <<"users">>)
  /\ \A who \in Managers : Served(who, "PATCH", <<"users", ":id", "status">>)
<1>1. Route("GET", <<"users">>, Managers) \in UsersRoutes
  BY BareFor DEF UsersRoutes, Get
<1>2. Route("POST", <<"users">>, Managers) \in UsersRoutes
  BY BareFor DEF UsersRoutes, Post
<1>3. Route("PATCH", <<"users">> \o <<":id", "status">>, Managers) \in UsersRoutes
  BY ForUnder DEF UsersRoutes, Patch
<1> QED
  BY <1>1, <1>2, <1>3, AppendTwo, RouteServed DEF Routes

LEMMA BranchesServe ==
  /\ \A who \in UserRole : Served(who, "GET", <<"branches">>)
  /\ \A who \in Admins : Served(who, "POST", <<"branches">>)
  /\ \A who \in Admins : Served(who, "PATCH", <<"branches", ":id">>)
  /\ \A who \in Admins : Served(who, "PATCH", <<"branches", ":id", "status">>)
<1>1. Route("GET", <<"branches">>, UserRole) \in BranchesRoutes
  BY BareUnder DEF BranchesRoutes, Get
<1>2. Route("POST", <<"branches">>, Admins) \in BranchesRoutes
  BY BareFor DEF BranchesRoutes, Post
<1>3. Route("PATCH", <<"branches">> \o <<":id">>, Admins) \in BranchesRoutes
  BY ForUnder DEF BranchesRoutes, Patch
<1>4. Route("PATCH", <<"branches">> \o <<":id", "status">>, Admins) \in BranchesRoutes
  BY ForUnder DEF BranchesRoutes, Patch
<1> QED
  BY <1>1, <1>2, <1>3, <1>4, AppendOne, AppendTwo, RouteServed DEF Routes

LEMMA CustomersServe ==
  /\ \A who \in UserRole : Served(who, "GET", <<"customers">>)
  /\ \A who \in UserRole : Served(who, "GET", <<"customers", ":id">>)
  /\ \A who \in UserRole : Served(who, "POST", <<"customers">>)
<1>1. Route("GET", <<"customers">>, UserRole) \in CustomersRoutes
  BY BareUnder DEF CustomersRoutes, Get
<1>2. Route("GET", <<"customers">> \o <<":id">>, UserRole) \in CustomersRoutes
  BY RouteUnder DEF CustomersRoutes, Get
<1>3. Route("POST", <<"customers">>, UserRole) \in CustomersRoutes
  BY BareUnder DEF CustomersRoutes, Post
<1> QED
  BY <1>1, <1>2, <1>3, AppendOne, RouteServed DEF Routes

LEMMA TicketsServe ==
  /\ \A who \in UserRole : Served(who, "GET", <<"repair-tickets">>)
  /\ \A who \in UserRole : Served(who, "GET", <<"repair-tickets", ":id", "timeline">>)
  /\ \A who \in FrontLine : Served(who, "POST", <<"repair-tickets">>)
  /\ \A who \in FrontLine : Served(who, "POST", <<"repair-tickets", ":id", "assign">>)
  /\ \A who \in UserRole : Served(who, "POST", <<"repair-tickets", ":id", "status">>)
<1>1. Route("GET", <<"repair-tickets">>, UserRole) \in TicketsRoutes
  BY BareUnder DEF TicketsRoutes, Get
<1>2. Route("GET", <<"repair-tickets">> \o <<":id", "timeline">>, UserRole) \in TicketsRoutes
  BY RouteUnder DEF TicketsRoutes, Get
<1>3. Route("POST", <<"repair-tickets">>, FrontLine) \in TicketsRoutes
  BY BareFor DEF TicketsRoutes, Post
<1>4. Route("POST", <<"repair-tickets">> \o <<":id", "assign">>, FrontLine) \in TicketsRoutes
  BY ForUnder DEF TicketsRoutes, Post
<1>5. Route("POST", <<"repair-tickets">> \o <<":id", "status">>, UserRole) \in TicketsRoutes
  BY RouteUnder DEF TicketsRoutes, Post
<1> QED
  BY <1>1, <1>2, <1>3, <1>4, <1>5, AppendTwo, RouteServed DEF Routes

LEMMA NotificationsServe ==
  /\ \A who \in UserRole : Served(who, "GET", <<"notifications">>)
  /\ \A who \in UserRole : Served(who, "PATCH", <<"notifications", "read-all">>)
  /\ \A who \in UserRole : Served(who, "PATCH", <<"notifications", ":id", "read">>)
  /\ \A who \in UserRole : Served(who, "DELETE", <<"notifications", ":id">>)
<1>1. Route("GET", <<"notifications">>, UserRole) \in NotificationsRoutes
  BY BareUnder DEF NotificationsRoutes, Get
<1>2. Route("PATCH", <<"notifications">> \o <<"read-all">>, UserRole) \in NotificationsRoutes
  BY RouteUnder DEF NotificationsRoutes, Patch
<1>3. Route("PATCH", <<"notifications">> \o <<":id", "read">>, UserRole) \in NotificationsRoutes
  BY RouteUnder DEF NotificationsRoutes, Patch
<1>4. Route("DELETE", <<"notifications">> \o <<":id">>, UserRole) \in NotificationsRoutes
  BY RouteUnder DEF NotificationsRoutes, Delete
<1> QED
  BY <1>1, <1>2, <1>3, <1>4, AppendOne, AppendTwo, RouteServed DEF Routes

LEMMA ReportsServe ==
  /\ \A who \in UserRole : Served(who, "GET", <<"reports", "dashboard">>)
  /\ \A who \in Managers : Served(who, "GET", <<"reports", "revenue">>)
  /\ \A who \in Managers : Served(who, "GET", <<"reports", "technicians">>)
  /\ \A who \in Managers : Served(who, "GET", <<"reports", "delayed-tickets">>)
<1>1. Route("GET", <<"reports">> \o <<"dashboard">>, UserRole) \in ReportsRoutes
  BY RouteUnder DEF ReportsRoutes, Get
<1>2. Route("GET", <<"reports">> \o <<"revenue">>, Managers) \in ReportsRoutes
  BY ForUnder DEF ReportsRoutes, Get
<1>3. Route("GET", <<"reports">> \o <<"technicians">>, Managers) \in ReportsRoutes
  BY ForUnder DEF ReportsRoutes, Get
<1>4. Route("GET", <<"reports">> \o <<"delayed-tickets">>, Managers) \in ReportsRoutes
  BY ForUnder DEF ReportsRoutes, Get
<1> QED
  BY <1>1, <1>2, <1>3, <1>4, AppendOne, RouteServed DEF Routes

LEMMA AuditLogsServe ==
  /\ \A who \in Admins : Served(who, "GET", <<"audit-logs">>)
<1>1. Route("GET", <<"audit-logs">>, Admins) \in AuditLogsRoutes
  BY BareFor DEF AuditLogsRoutes, Get
<1> QED
  BY <1>1, RouteServed DEF Routes

LEMMA SettingsServe ==
  /\ \A who \in UserRole : Served(who, "GET", <<"settings">>)
  /\ \A who \in Admins : Served(who, "PATCH", <<"settings">>)
<1>1. Route("GET", <<"settings">>, UserRole) \in SettingsRoutes
  BY BareUnder DEF SettingsRoutes, Get
<1>2. Route("PATCH", <<"settings">>, Admins) \in SettingsRoutes
  BY BareFor DEF SettingsRoutes, Patch
<1> QED
  BY <1>1, <1>2, RouteServed DEF Routes

LEMMA DevicesServe ==
  /\ \A who \in UserRole : Served(who, "GET", <<"devices">>)
  /\ \A who \in UserRole : Served(who, "GET", <<"devices", ":id", "repair-history">>)
  /\ \A who \in UserRole : Served(who, "POST", <<"customers", ":id", "devices">>)
<1>1. Route("GET", <<"devices">>, UserRole) \in DevicesRoutes
  BY DEF DevicesRoutes, Get
<1>2. Route("GET", <<"devices", ":id", "repair-history">>, UserRole) \in DevicesRoutes
  BY DEF DevicesRoutes, Get
<1>3. Route("POST", <<"customers", ":id", "devices">>, UserRole) \in DevicesRoutes
  BY DEF DevicesRoutes, Post
<1> QED
  BY <1>1, <1>2, <1>3, RouteServed DEF Routes

LEMMA AttachmentsServe ==
  /\ \A who \in UserRole : Served(who, "GET", <<"repair-tickets", ":id", "attachments">>)
  /\ \A who \in UserRole : Served(who, "POST", <<"repair-tickets", ":id", "attachments">>)
  /\ \A who \in UserRole : Served(who, "DELETE", <<"attachments", ":id">>)
<1>1. Route("GET", <<"repair-tickets", ":id", "attachments">>, UserRole) \in AttachmentsRoutes
  BY DEF AttachmentsRoutes, Get
<1>2. Route("POST", <<"repair-tickets", ":id", "attachments">>, UserRole) \in AttachmentsRoutes
  BY DEF AttachmentsRoutes, Post
<1>3. Route("DELETE", <<"attachments", ":id">>, UserRole) \in AttachmentsRoutes
  BY DEF AttachmentsRoutes, Delete
<1> QED
  BY <1>1, <1>2, <1>3, RouteServed DEF Routes

-----------------------------------------------------------------------------
(* The tables *)

\* The fields of the rows.
LEMMA QueryParts ==
  ASSUME NEW key, NEW panel, NEW roles, NEW path, NEW shows
  PROVE  LET q == Query(key, panel, roles, path, shows) IN
         q.key = key /\ q.panel = panel /\ q.roles = roles /\ q.path = path /\ q.shows = shows
BY DEF Query

LEMMA WriteParts ==
  ASSUME NEW name, NEW panel, NEW roles, NEW method, NEW path, NEW for, NEW changes, NEW invalidates
  PROVE  LET w == Write(name, panel, roles, Route(method, path, for), changes, invalidates) IN
         /\ w.name = name /\ w.panel = panel /\ w.roles = roles /\ w.method = method
         /\ w.path = path /\ w.changes = changes /\ w.invalidates = invalidates
BY DEF Write, Route

LEMMA TwofoldParts ==
  ASSUME NEW name, NEW panel, NEW roles, NEW route, NEW changes, NEW invalidates
  PROVE  LET w == Write(name, panel, roles, route, changes, invalidates)
             v == Twofold(w) IN
         /\ v.name = w.name /\ v.panel = w.panel /\ v.roles = w.roles /\ v.method = w.method
         /\ v.path = w.path /\ v.changes = w.changes /\ v.invalidates = w.invalidates
BY DEF Twofold, Write

LEMMA Ranks ==
  Admins \subseteq Managers /\ Managers \subseteq FrontLine /\ FrontLine \subseteq UserRole
BY DEF Admins, Managers, FrontLine, UserRole

LEMMA PageParts ==
  ASSUME NEW roles, NEW queries, NEW writes
  PROVE  LET p == Page(roles, queries, writes) IN
         p.roles = roles /\ p.queries = queries /\ p.writes = writes
BY DEF Page

\* The page that reads a key.
Owner(key) ==
  CASE key = "notifications" -> "layout"
    [] key = "dashboard" -> "dashboard"
    [] key \in {"tickets", "ticket-timeline", "ticket-attachments", "customers-list",
               "customer-devices", "branch-techs"} -> "tickets"
    [] key \in {"customers", "customer-details"} -> "customers"
    [] key \in {"devices", "customers-list-for-devices", "device-history"} -> "devices"
    [] key \in {"estimates", "tickets-for-estimates"} -> "estimates"
    [] key \in {"invoices", "tickets-for-invoices"} -> "invoices"
    [] key \in {"reports-revenue", "reports-techs", "reports-delayed"} -> "reports"
    [] key = "branches" -> "branches"
    [] key \in {"staff-users", "branches-list-for-users"} -> "users"
    [] key \in {"audit-logs", "staff-list-for-audits"} -> "audit-logs"
    [] key = "systemSettings" -> "settings"

\* Its keys are its own, and each stands for one query.
KeysAreOwn(name, page) ==
  \A q \in page.queries :
    /\ Owner(q.key) = name
    /\ \A r \in page.queries : r.key = q.key => r = q

\* A write that invalidates anything invalidates what it changes on the page.
WritesAreFelt(page) ==
  \A w \in page.writes, q \in page.queries :
    w.invalidates # {} /\ q.shows \cap w.changes # {} => q.key \in w.invalidates

\* What the role may read or write, as the properties have it.
MayRead(r, q) ==
  \/ Served(r, "GET", q.path)
  \/ q.key \in {"estimates", "invoices"}
  \/ q.key = "branch-techs" /\ r \notin Managers

MayWrite(name, r, w) ==
  \/ Served(r, w.method, w.path)
  \/ name \in {"estimates", "invoices"}
  \/ w.name = "diagnose"

QueriesAreServed(page) == \A q \in page.queries : \A r \in q.roles : MayRead(r, q)

WritesAreServed(name, page) == \A w \in page.writes : \A r \in w.roles : MayWrite(name, r, w)

PageIsSound(name, page) ==
  /\ KeysAreOwn(name, page)
  /\ WritesAreFelt(page)
  /\ QueriesAreServed(page)
  /\ WritesAreServed(name, page)

\* Page by page.
LEMMA LayoutPageIsSound == PageIsSound("layout", LayoutPage)
<1>1. KeysAreOwn("layout", LayoutPage)
  BY QueryParts, PageParts DEF KeysAreOwn, Owner, LayoutPage
<1>2. WritesAreFelt(LayoutPage)
  BY QueryParts, WriteParts, PageParts
     DEF WritesAreFelt, LayoutPage, Get, Post, Patch, Delete
<1>3. ASSUME NEW q \in LayoutPage.queries, NEW r \in q.roles PROVE MayRead(r, q)
  BY QueryParts, PageParts, NotificationsServe
     DEF MayRead, Office, LayoutPage
<1>4. ASSUME NEW w \in LayoutPage.writes, NEW r \in w.roles PROVE MayWrite("layout", r, w)
  BY WriteParts, PageParts, NotificationsServe
     DEF MayWrite, Office, LayoutPage, Post, Patch, Delete
<1> QED
  BY <1>1, <1>2, <1>3, <1>4 DEF PageIsSound, QueriesAreServed, WritesAreServed

LEMMA DashboardPageIsSound == PageIsSound("dashboard", DashboardPage)
<1>1. KeysAreOwn("dashboard", DashboardPage)
  BY QueryParts, PageParts DEF KeysAreOwn, Owner, DashboardPage
<1>2. WritesAreFelt(DashboardPage)
  BY QueryParts, WriteParts, PageParts
     DEF WritesAreFelt, DashboardPage, Get, Post, Patch, Delete
<1>3. ASSUME NEW q \in DashboardPage.queries, NEW r \in q.roles PROVE MayRead(r, q)
  BY QueryParts, PageParts, ReportsServe
     DEF MayRead, Office, DashboardPage
<1>4. ASSUME NEW w \in DashboardPage.writes, NEW r \in w.roles PROVE MayWrite("dashboard", r, w)
  BY WriteParts, PageParts, ReportsServe
     DEF MayWrite, Office, DashboardPage, Post, Patch, Delete
<1> QED
  BY <1>1, <1>2, <1>3, <1>4 DEF PageIsSound, QueriesAreServed, WritesAreServed

LEMMA TicketsPageIsSound == PageIsSound("tickets", TicketsPage)
<1>1. KeysAreOwn("tickets", TicketsPage)
  BY QueryParts, PageParts DEF KeysAreOwn, Owner, TicketsPage, TicketQueries
<1>2. WritesAreFelt(TicketsPage)
  BY QueryParts, WriteParts, PageParts
     DEF WritesAreFelt, TicketsPage, TicketQueries, TicketWrites, AttachmentWrites, Get, Post,
         Patch, Delete
<1>3. ASSUME NEW q \in TicketsPage.queries, NEW r \in q.roles PROVE MayRead(r, q)
  BY QueryParts, PageParts, TicketsServe, AttachmentsServe, CustomersServe, DevicesServe,
     UsersServe, Ranks
     DEF MayRead, Office, TicketsPage, TicketQueries
<1>4. ASSUME NEW w \in TicketsPage.writes, NEW r \in w.roles PROVE MayWrite("tickets", r, w)
  BY WriteParts, PageParts, TicketsServe, AttachmentsServe, CustomersServe, DevicesServe,
     UsersServe, Ranks
     DEF MayWrite, Office, TicketsPage, TicketWrites, AttachmentWrites, Post, Patch, Delete
<1> QED
  BY <1>1, <1>2, <1>3, <1>4 DEF PageIsSound, QueriesAreServed, WritesAreServed

LEMMA CustomersPageIsSound == PageIsSound("customers", CustomersPage)
<1>1. KeysAreOwn("customers", CustomersPage)
  BY QueryParts, PageParts DEF KeysAreOwn, Owner, CustomersPage
<1>2. WritesAreFelt(CustomersPage)
  BY QueryParts, WriteParts, PageParts
     DEF WritesAreFelt, CustomersPage, Get, Post, Patch, Delete
<1>3. ASSUME NEW q \in CustomersPage.queries, NEW r \in q.roles PROVE MayRead(r, q)
  BY QueryParts, PageParts, CustomersServe, Ranks
     DEF MayRead, Office, CustomersPage
<1>4. ASSUME NEW w \in CustomersPage.writes, NEW r \in w.roles PROVE MayWrite("customers", r, w)
  BY WriteParts, PageParts, CustomersServe, Ranks
     DEF MayWrite, Office, CustomersPage, Post, Patch, Delete
<1> QED
  BY <1>1, <1>2, <1>3, <1>4 DEF PageIsSound, QueriesAreServed, WritesAreServed

LEMMA DevicesPageIsSound == PageIsSound("devices", DevicesPage)
<1>1. KeysAreOwn("devices", DevicesPage)
  BY QueryParts, PageParts DEF KeysAreOwn, Owner, DevicesPage
<1>2. WritesAreFelt(DevicesPage)
  BY QueryParts, WriteParts, PageParts
     DEF WritesAreFelt, DevicesPage, Get, Post, Patch, Delete
<1>3. ASSUME NEW q \in DevicesPage.queries, NEW r \in q.roles PROVE MayRead(r, q)
  BY QueryParts, PageParts, CustomersServe, DevicesServe, Ranks
     DEF MayRead, Office, DevicesPage
<1>4. ASSUME NEW w \in DevicesPage.writes, NEW r \in w.roles PROVE MayWrite("devices", r, w)
  BY WriteParts, PageParts, CustomersServe, DevicesServe, Ranks
     DEF MayWrite, Office, DevicesPage, Post, Patch, Delete
<1> QED
  BY <1>1, <1>2, <1>3, <1>4 DEF PageIsSound, QueriesAreServed, WritesAreServed

LEMMA EstimatesPageIsSound == PageIsSound("estimates", EstimatesPage)
<1>1. KeysAreOwn("estimates", EstimatesPage)
  BY QueryParts, PageParts DEF KeysAreOwn, Owner, EstimatesPage
<1>2. WritesAreFelt(EstimatesPage)
  BY QueryParts, WriteParts, PageParts
     DEF WritesAreFelt, EstimatesPage, Get, Post, Patch, Delete
<1>3. ASSUME NEW q \in EstimatesPage.queries, NEW r \in q.roles PROVE MayRead(r, q)
  BY QueryParts, PageParts, TicketsServe, Ranks
     DEF MayRead, Office, EstimatesPage
<1>4. ASSUME NEW w \in EstimatesPage.writes, NEW r \in w.roles PROVE MayWrite("estimates", r, w)
  BY WriteParts, PageParts, TicketsServe, Ranks
     DEF MayWrite, Office, EstimatesPage, Post, Patch, Delete
<1> QED
  BY <1>1, <1>2, <1>3, <1>4 DEF PageIsSound, QueriesAreServed, WritesAreServed

LEMMA InvoicesPageIsSound == PageIsSound("invoices", InvoicesPage)
<1>1. KeysAreOwn("invoices", InvoicesPage)
  BY QueryParts, PageParts DEF KeysAreOwn, Owner, InvoicesPage
<1>2. WritesAreFelt(InvoicesPage)
  BY QueryParts, WriteParts, PageParts
     DEF WritesAreFelt, InvoicesPage, Get, Post, Patch, Delete
<1>3. ASSUME NEW q \in InvoicesPage.queries, NEW r \in q.roles PROVE MayRead(r, q)
  BY QueryParts, PageParts, TicketsServe, Ranks
     DEF MayRead, Office, InvoicesPage
<1>4. ASSUME NEW w \in InvoicesPage.writes, NEW r \in w.roles PROVE MayWrite("invoices", r, w)
  BY WriteParts, PageParts, TicketsServe, Ranks
     DEF MayWrite, Office, InvoicesPage, Post, Patch, Delete
<1> QED
  BY <1>1, <1>2, <1>3, <1>4 DEF PageIsSound, QueriesAreServed, WritesAreServed

LEMMA ReportsPageIsSound == PageIsSound("reports", ReportsPage)
<1>1. KeysAreOwn("reports", ReportsPage)
  BY QueryParts, PageParts DEF KeysAreOwn, Owner, ReportsPage
<1>2. WritesAreFelt(ReportsPage)
  BY QueryParts, WriteParts, PageParts
     DEF WritesAreFelt, ReportsPage, Get, Post, Patch, Delete
<1>3. ASSUME NEW q \in ReportsPage.queries, NEW r \in q.roles PROVE MayRead(r, q)
  BY QueryParts, PageParts, ReportsServe, Ranks
     DEF MayRead, Office, ReportsPage
<1>4. ASSUME NEW w \in ReportsPage.writes, NEW r \in w.roles PROVE MayWrite("reports", r, w)
  BY WriteParts, PageParts, ReportsServe, Ranks
     DEF MayWrite, Office, ReportsPage, Post, Patch, Delete
<1> QED
  BY <1>1, <1>2, <1>3, <1>4 DEF PageIsSound, QueriesAreServed, WritesAreServed

LEMMA BranchesPageIsSound == PageIsSound("branches", BranchesPage)
<1>1. KeysAreOwn("branches", BranchesPage)
  BY QueryParts, PageParts DEF KeysAreOwn, Owner, BranchesPage
<1>2. WritesAreFelt(BranchesPage)
  BY QueryParts, WriteParts, PageParts
     DEF WritesAreFelt, BranchesPage, Get, Post, Patch, Delete
<1>3. ASSUME NEW q \in BranchesPage.queries, NEW r \in q.roles PROVE MayRead(r, q)
  BY QueryParts, PageParts, BranchesServe, Ranks
     DEF MayRead, Office, BranchesPage
<1>4. ASSUME NEW w \in BranchesPage.writes, NEW r \in w.roles PROVE MayWrite("branches", r, w)
  BY WriteParts, PageParts, BranchesServe, Ranks
     DEF MayWrite, Office, BranchesPage, Post, Patch, Delete
<1> QED
  BY <1>1, <1>2, <1>3, <1>4 DEF PageIsSound, QueriesAreServed, WritesAreServed

LEMMA UsersPageIsSound == PageIsSound("users", UsersPage)
<1>1. KeysAreOwn("users", UsersPage)
  BY QueryParts, PageParts DEF KeysAreOwn, Owner, UsersPage
<1>2. WritesAreFelt(UsersPage)
  BY QueryParts, WriteParts, TwofoldParts, PageParts
     DEF WritesAreFelt, UsersPage, Get, Post, Patch, Delete
<1>3. ASSUME NEW q \in UsersPage.queries, NEW r \in q.roles PROVE MayRead(r, q)
  BY QueryParts, PageParts, UsersServe, BranchesServe, Ranks
     DEF MayRead, Office, UsersPage
<1>4. ASSUME NEW w \in UsersPage.writes, NEW r \in w.roles PROVE MayWrite("users", r, w)
  BY WriteParts, TwofoldParts, PageParts, UsersServe, BranchesServe, Ranks
     DEF MayWrite, Office, UsersPage, Post, Patch, Delete
<1> QED
  BY <1>1, <1>2, <1>3, <1>4 DEF PageIsSound, QueriesAreServed, WritesAreServed

LEMMA AuditLogsPageIsSound == PageIsSound("audit-logs", AuditLogsPage)
<1>1. KeysAreOwn("audit-logs", AuditLogsPage)
  BY QueryParts, PageParts DEF KeysAreOwn, Owner, AuditLogsPage
<1>2. WritesAreFelt(AuditLogsPage)
  BY QueryParts, WriteParts, PageParts
     DEF WritesAreFelt, AuditLogsPage, Get, Post, Patch, Delete
<1>3. ASSUME NEW q \in AuditLogsPage.queries, NEW r \in q.roles PROVE MayRead(r, q)
  BY QueryParts, PageParts, AuditLogsServe, UsersServe, Ranks
     DEF MayRead, Office, AuditLogsPage
<1>4. ASSUME NEW w \in AuditLogsPage.writes, NEW r \in w.roles PROVE MayWrite("audit-logs", r, w)
  BY WriteParts, PageParts, AuditLogsServe, UsersServe, Ranks
     DEF MayWrite, Office, AuditLogsPage, Post, Patch, Delete
<1> QED
  BY <1>1, <1>2, <1>3, <1>4 DEF PageIsSound, QueriesAreServed, WritesAreServed

LEMMA SettingsPageIsSound == PageIsSound("settings", SettingsPage)
<1>1. KeysAreOwn("settings", SettingsPage)
  BY QueryParts, PageParts DEF KeysAreOwn, Owner, SettingsPage
<1>2. WritesAreFelt(SettingsPage)
  BY QueryParts, WriteParts, PageParts
     DEF WritesAreFelt, SettingsPage, Get, Post, Patch, Delete
<1>3. ASSUME NEW q \in SettingsPage.queries, NEW r \in q.roles PROVE MayRead(r, q)
  BY QueryParts, PageParts, SettingsServe, Ranks
     DEF MayRead, Office, SettingsPage
<1>4. ASSUME NEW w \in SettingsPage.writes, NEW r \in w.roles PROVE MayWrite("settings", r, w)
  BY WriteParts, PageParts, SettingsServe, Ranks
     DEF MayWrite, Office, SettingsPage, Post, Patch, Delete
<1> QED
  BY <1>1, <1>2, <1>3, <1>4 DEF PageIsSound, QueriesAreServed, WritesAreServed

-----------------------------------------------------------------------------
(* What the tables say of every page *)

LEMMA PagesAreSound == \A p \in PageName : PageIsSound(p, PageOf[p])
BY LayoutPageIsSound, DashboardPageIsSound, TicketsPageIsSound, CustomersPageIsSound,
   DevicesPageIsSound, EstimatesPageIsSound, InvoicesPageIsSound, ReportsPageIsSound,
   BranchesPageIsSound, UsersPageIsSound, AuditLogsPageIsSound, SettingsPageIsSound
   DEF PageName, PageOf

\* A key of a page stands for one of its queries.
LEMMA KeyStandsForQuery ==
  ASSUME NEW p \in PageName, NEW q \in PageOf[p].queries
  PROVE  q.key \in Keys /\ QueryOf[q.key] = q
<1>1. q \in Queries
  BY DEF Queries
<1>2. \A r \in Queries : r.key = q.key => r = q
  <2> SUFFICES ASSUME NEW o \in PageName, NEW r \in PageOf[o].queries, r.key = q.key
               PROVE  r = q
    BY DEF Queries
  <2>1. Owner(q.key) = p /\ Owner(r.key) = o
    BY PagesAreSound DEF PageIsSound, KeysAreOwn
  <2>2. o = p
    BY <2>1
  <2> QED
    BY <2>2, PagesAreSound DEF PageIsSound, KeysAreOwn
<1>3. q.key \in Keys
  BY <1>1 DEF Keys
<1>4. QueryOf[q.key] = CHOOSE r \in Queries : r.key = q.key
  BY <1>3 DEF QueryOf
<1> QED
  BY <1>1, <1>2, <1>3, <1>4

LEMMA KeyOfPage ==
  ASSUME NEW p \in PageName, NEW k \in KeysOf(p)
  PROVE  k \in Keys /\ QueryOf[k] \in PageOf[p].queries /\ QueryOf[k].key = k
<1>1. PICK q \in PageOf[p].queries : k = q.key
  BY DEF KeysOf
<1> QED
  BY <1>1, KeyStandsForQuery

LEMMA MountedKey ==
  ASSUME NEW r, NEW p \in PageName, NEW panel, NEW k \in Mounts(r, p, panel)
  PROVE  /\ k \in KeysOf(p) /\ k \in Keys
         /\ r \in QueryOf[k].roles
         /\ MayRead(r, QueryOf[k]) /\ QueryOf[k].key = k
<1>1. PICK q \in PageOf[p].queries : k = q.key /\ r \in q.roles
  BY DEF Mounts
<1>2. QueryOf[k] = q /\ k \in Keys
  BY <1>1, KeyStandsForQuery
<1>3. k \in KeysOf(p)
  BY <1>1 DEF KeysOf
<1>4. MayRead(r, q)
  BY <1>1, PagesAreSound DEF PageIsSound, QueriesAreServed
<1> QED
  BY <1>1, <1>2, <1>3, <1>4

LEMMA OfferedWrite ==
  ASSUME NEW r, NEW p \in PageName, NEW panel, NEW w \in Offers(r, p, panel)
  PROVE  w \in PageOf[p].writes /\ w \in Writes /\ MayWrite(p, r, w)
<1>1. w \in PageOf[p].writes /\ r \in w.roles
  BY DEF Offers
<1>2. w \in Writes
  BY <1>1 DEF Writes
<1> QED
  BY <1>1, <1>2, PagesAreSound DEF PageIsSound, WritesAreServed

LEMMA FeltWrite ==
  ASSUME NEW p \in PageName, NEW w \in PageOf[p].writes, NEW k \in KeysOf(p),
         w.invalidates # {}, QueryOf[k].shows \cap w.changes # {}
  PROVE  k \in w.invalidates
<1>1. QueryOf[k] \in PageOf[p].queries /\ QueryOf[k].key = k
  BY KeyOfPage
<1> QED
  BY <1>1, PagesAreSound DEF PageIsSound, WritesAreFelt

-----------------------------------------------------------------------------
(* Types *)

LEMMA OpenedPages ==
  /\ Opened \subseteq PageName /\ Visited \subseteq Opened
  /\ Aged \subseteq Keys /\ Failing \subseteq Keys
BY ConsoleAssumption DEF ConsoleAssumption

\* A flight whose state alone changes.
LEMMA FlightGoesOn ==
  ASSUME FlightOK, flight # NoFlight, NEW s \in {"asked", "rest", "done", "refused"},
         flight' = [flight EXCEPT !.state = s]
  PROVE  /\ FlightOK' /\ flight'.page = flight.page /\ flight'.write = flight.write
         /\ flight'.state = s
BY DEF FlightOK

LEMMA NoFlightState == NoFlight.state = "none"
BY DEF NoFlight

ViewOK == view \in [page: Opened, panel: Panel]

LEMMA ShowTypes ==
  ASSUME TypeOK, NEW page \in Opened, NEW panel \in Panel, Show(page, panel)
  PROVE  /\ ViewOK' /\ view'.page = page /\ view'.panel = panel
         /\ fetch' \in [Keys -> Idle \cup UnderWay]
         /\ promised' \subseteq Keys
BY DEF TypeOK, Show, ViewOK, UnderWay

LEMMA TypeInit == Init => TypeOK
<1> SUFFICES ASSUME Init PROVE TypeOK
  OBVIOUS
<1>1. role \in Role /\ view \in [page: Opened, panel: Panel]
  BY DEF Init, Panel
<1>2. visits \in 0..MaxVisits /\ sent \in 0..MaxWrites
  BY ConsoleAssumption DEF Init, ConsoleAssumption
<1> QED
  BY <1>1, <1>2 DEF Init, TypeOK, FlightOK, Idle, UnderWay

LEMMA TypeStep == TypeOK /\ [Next]_vars => TypeOK'
<1> SUFFICES ASSUME TypeOK, [Next]_vars PROVE TypeOK'
  OBVIOUS
<1> USE DEF TypeOK
<1>u. flight' = flight => FlightOK'
  BY DEF FlightOK
<1>1. ASSUME NEW page \in Visited, Visit(page) PROVE TypeOK'
  <2>1. page \in Opened /\ Show(page, "main") /\ "main" \in Panel
    BY <1>1, OpenedPages DEF Visit, Panel
  <2>2. visits' \in 0..MaxVisits
    BY <1>1, ConsoleAssumption DEF Visit, ConsoleAssumption
  <2> QED
    BY <1>1, <1>u, <2>1, <2>2, ShowTypes DEF Visit, ViewOK
<1>2. ASSUME NEW panel \in Panel, OpenPanel(panel) PROVE TypeOK'
  BY <1>2, <1>u, ShowTypes DEF OpenPanel, ViewOK
<1>3. CASE ClosePanel
  <2>1. Show(view.page, "main") /\ "main" \in Panel
    BY <1>3 DEF ClosePanel, Panel
  <2> QED
    BY <1>3, <1>u, <2>1, ShowTypes DEF ClosePanel, ViewOK
<1>4. ASSUME NEW w \in Offered, Submit(w) PROVE TypeOK'
  <2>1. view.page \in PageName /\ view.page \in Opened
    BY OpenedPages
  <2>2. w \in PageOf[view.page].writes /\ w \in Writes
    BY <2>1, OfferedWrite DEF Offered
  <2>3. FlightOK'
    BY <1>4, <2>1, <2>2 DEF Submit, FlightOK
  <2>4. sent' \in 0..MaxWrites
    BY <1>4, ConsoleAssumption DEF Submit, ConsoleAssumption
  <2> QED
    BY <1>4, <2>3, <2>4 DEF Submit
<1>5. ASSUME NEW k \in Keys, Answer(k) PROVE TypeOK'
  BY <1>5, <1>u DEF Answer, Idle, UnderWay
<1>6. ASSUME NEW k \in Keys, Deliver(k) PROVE TypeOK'
  BY <1>6, <1>u DEF Deliver, Idle
<1>f. ASSUME NEW k \in Keys, Lose(k) PROVE TypeOK'
  BY <1>f, <1>u DEF Lose, Staled, Idle
<1>7. CASE Apply
  <2>1. flight # NoFlight
    BY <1>7, NoFlightState DEF Apply
  <2>2. FlightOK'
    BY <1>7, <2>1, FlightGoesOn DEF Apply
  <2> QED
    BY <1>7, <2>2 DEF Apply, UnderWay
<1>8. CASE Decline
  <2>1. flight # NoFlight
    BY <1>8, NoFlightState DEF Decline
  <2>2. FlightOK'
    BY <1>8, <2>1, FlightGoesOn DEF Decline
  <2> QED
    BY <1>8, <2>2 DEF Decline
<1>9. CASE Follow
  <2>1. flight # NoFlight
    BY <1>9, NoFlightState DEF Follow
  <2>2. FlightOK'
    BY <1>9, <2>1, FlightGoesOn DEF Follow
  <2> QED
    BY <1>9, <2>2 DEF Follow
<1>10. CASE Succeed
  <2>1. view.page \in PageName
    BY OpenedPages
  <2>2. Mounted \subseteq Keys
    BY <2>1, MountedKey DEF Mounted
  <2> QED
    BY <1>10, <2>2 DEF Succeed, Staled, Refetched, FlightOK, UnderWay
<1>s. CASE Save
  BY <1>s DEF Save, FlightOK
<1>11. CASE Fail
  BY <1>11 DEF Fail, FlightOK
<1>12. ASSUME NEW k \in Aged, Age(k) PROVE TypeOK'
  BY <1>12, <1>u, OpenedPages DEF Age
<1>13. CASE UNCHANGED vars
  BY <1>13, <1>u DEF vars
<1> QED
  BY <1>1, <1>2, <1>3, <1>4, <1>5, <1>6, <1>f, <1>7, <1>8, <1>9, <1>10, <1>s, <1>11, <1>12, <1>13
     DEF Next, Progress, Settle, Choice

\* The state has its type throughout: what is invalidated, refetched and
\* promised are keys of the tables, and a write under way is one its page has.
THEOREM ConsoleTypeCorrect == Spec => []TypeOK
BY TypeInit, TypeStep, PTL DEF Spec

-----------------------------------------------------------------------------
(* What a page reads and what it offers *)

OfferInv == flight # NoFlight => MayWrite(flight.page, role, flight.write)

LEMMA OfferInit == Init => OfferInv
BY DEF Init, OfferInv

LEMMA OfferStep == TypeOK /\ OfferInv /\ [Next]_vars => OfferInv'
<1> SUFFICES ASSUME TypeOK, OfferInv, [Next]_vars PROVE OfferInv'
  OBVIOUS
<1>0. FlightOK
  BY DEF TypeOK
<1>1. ASSUME NEW w \in Offered, Submit(w) PROVE OfferInv'
  <2>1. view.page \in PageName
    BY OpenedPages DEF TypeOK
  <2>2. MayWrite(view.page, role, w)
    BY <2>1, OfferedWrite DEF Offered
  <2>3. flight'.page = view.page /\ flight'.write = w /\ role' = role
    BY <1>1 DEF Submit
  <2> QED
    BY <2>2, <2>3 DEF OfferInv
<1>2. CASE Apply \/ Decline \/ Follow
  <2>1. flight # NoFlight /\ role' = role
    BY <1>2, NoFlightState DEF Apply, Decline, Follow
  <2>2. flight'.page = flight.page /\ flight'.write = flight.write
    BY <1>0, <1>2, <2>1, FlightGoesOn DEF Apply, Decline, Follow
  <2> QED
    BY <2>1, <2>2 DEF OfferInv
<1>3. CASE Succeed \/ Save \/ Fail
  BY <1>3 DEF Succeed, Save, Fail, OfferInv
<1>4. ASSUME flight' = flight, role' = role PROVE OfferInv'
  BY <1>4 DEF OfferInv
<1>5. ASSUME NEW page \in Visited, Visit(page) PROVE OfferInv'
  BY <1>4, <1>5 DEF Visit
<1>6. ASSUME NEW panel \in Panel, OpenPanel(panel) PROVE OfferInv'
  BY <1>4, <1>6 DEF OpenPanel
<1>7. CASE ClosePanel
  BY <1>4, <1>7 DEF ClosePanel
<1>8. ASSUME NEW k \in Keys, Settle(k) PROVE OfferInv'
  BY <1>4, <1>8 DEF Settle, Answer, Lose, Deliver
<1>9. ASSUME NEW k \in Aged, Age(k) PROVE OfferInv'
  BY <1>4, <1>9 DEF Age
<1>10. CASE UNCHANGED vars
  BY <1>4, <1>10 DEF vars
<1> QED
  BY <1>1, <1>2, <1>3, <1>5, <1>6, <1>7, <1>8, <1>9, <1>10 DEF Next, Progress, Choice

\* Whatever a role is offered on whatever page, RolesGuard lets its request
\* through, but for the exceptions the property names.
THEOREM OffersAreHonoured == Spec => []OffersArePermitted
<1>1. OfferInv => OffersArePermitted
  BY DEF OfferInv, OffersArePermitted, MayWrite, Permitted
<1> QED
  BY <1>1, TypeInit, TypeStep, OfferInit, OfferStep, PTL DEF Spec

\* Whatever is mounted was asked for, and a fetch that was turned down is one
\* the role has no route for.
MountedIsAsked == \A k \in Mounted : cache[k] # "none" \/ fetch[k] # "no"

DeniedIsClosed ==
  \A k \in Keys : fetch[k] = "denied" => ~Served(role, "GET", QueryOf[k].path)

ReadInv == MountedIsAsked /\ DeniedIsClosed

LEMMA ReadInit == Init => ReadInv
<1> SUFFICES ASSUME Init PROVE ReadInv
  OBVIOUS
<1>1. view.page \in PageName
  BY OpenedPages DEF Init
<1>2. \A k \in Mounted : k \in Keys
  BY <1>1, MountedKey DEF Mounted
<1> QED
  BY <1>2 DEF Init, ReadInv, MountedIsAsked, DeniedIsClosed

\* What a panel or a page newly mounts is fetched unless it is there.
LEMMA ShownIsRead ==
  ASSUME TypeOK, ReadInv, NEW page \in Opened, NEW panel \in Panel,
         Show(page, panel), UNCHANGED <<role, cache>>
  PROVE  ReadInv'
<1>1. ASSUME NEW k \in Mounted' PROVE cache'[k] # "none" \/ fetch'[k] # "no"
  <2>1. k \in Mounts(role, page, panel)
    BY <1>1, ShowTypes DEF Mounted
  <2>2. k \in Keys
    BY <2>1, OpenedPages, MountedKey
  <2>3. cache[k] # "fresh" /\ fetch[k] = "no" /\ k \notin Mounted => fetch'[k] = "asked"
    BY <2>1, <2>2 DEF Show, Idle
  <2>4. fetch[k] # "no" => fetch'[k] # "no"
    BY <2>2 DEF Show
  <2> QED
    BY <2>3, <2>4 DEF ReadInv, MountedIsAsked, TypeOK
<1>2. \A k \in Keys : fetch'[k] = "denied" => fetch[k] = "denied"
  BY DEF Show
<1> QED
  BY <1>1, <1>2 DEF ReadInv, MountedIsAsked, DeniedIsClosed

\* A step that leaves the page as it is, forgets no entry, drops no fetch and
\* turns none down.
LEMMA StillRead ==
  ASSUME ReadInv, role' = role, view' = view, Mounted \subseteq Keys,
         \A k \in Keys : /\ cache[k] # "none" => cache'[k] # "none"
                         /\ fetch[k] # "no" => fetch'[k] # "no" \/ cache'[k] # "none"
                         /\ fetch'[k] = "denied" => fetch[k] = "denied"
  PROVE  ReadInv'
BY DEF ReadInv, MountedIsAsked, DeniedIsClosed, Mounted

LEMMA ReadStep == TypeOK /\ ReadInv /\ [Next]_vars => ReadInv'
<1> SUFFICES ASSUME TypeOK, ReadInv, [Next]_vars PROVE ReadInv'
  OBVIOUS
<1>p. view.page \in PageName /\ view.page \in Opened
  BY OpenedPages DEF TypeOK
<1>m. Mounted \subseteq Keys
  BY <1>p, MountedKey DEF Mounted
<1>1. ASSUME NEW page \in Visited, Visit(page) PROVE ReadInv'
  BY <1>1, OpenedPages, ShownIsRead DEF Visit, Panel
<1>2. ASSUME NEW panel \in Panel, OpenPanel(panel) PROVE ReadInv'
  BY <1>2, <1>p, ShownIsRead DEF OpenPanel
<1>3. CASE ClosePanel
  BY <1>3, <1>p, ShownIsRead DEF ClosePanel, Panel
<1>4. ASSUME NEW w \in Offered, Submit(w) PROVE ReadInv'
  BY <1>m, <1>4, StillRead DEF Submit
<1>5. CASE Decline \/ Follow \/ Fail \/ UNCHANGED vars
  BY <1>m, <1>5, StillRead DEF Decline, Follow, Fail, vars
<1>6. ASSUME NEW k \in Keys, Answer(k) PROVE ReadInv'
  <2>1. fetch'[k] = "denied" => ~Served(role, "GET", QueryOf[k].path)
    BY <1>6 DEF Answer, TypeOK
  <2>2. fetch'[k] # "no" /\ \A j \in Keys \ {k} : fetch'[j] = fetch[j]
    BY <1>6 DEF Answer, TypeOK
  <2> QED
    BY <1>6, <1>m, <2>1, <2>2 DEF Answer, ReadInv, MountedIsAsked, DeniedIsClosed, Mounted
<1>7. ASSUME NEW k \in Keys, Deliver(k) \/ Lose(k) PROVE ReadInv'
  <2>1. cache'[k] # "none" \/ fetch'[k] # "no"
    BY <1>7 DEF Deliver, Lose, TypeOK
  <2>2. fetch'[k] # "denied"
    BY <1>7 DEF Deliver, Lose, TypeOK
  <2>3. \A j \in Keys \ {k} : fetch'[j] = fetch[j]
    BY <1>7 DEF Deliver, Lose, TypeOK
  <2>4. \A j \in Keys : cache[j] # "none" => cache'[j] # "none"
    BY <1>7 DEF Deliver, Lose, Staled, TypeOK
  <2> QED
    BY <1>7, <1>m, <2>1, <2>2, <2>3, <2>4, StillRead DEF Deliver, Lose
<1>8. CASE Apply
  BY <1>m, <1>8, StillRead DEF Apply
<1>9. CASE Succeed
  BY <1>m, <1>9, StillRead DEF Succeed, Refetched, Staled
<1>10. CASE Save
  BY <1>m, <1>10, StillRead DEF Save, TypeOK
<1>11. ASSUME NEW k \in Aged, Age(k) PROVE ReadInv'
  BY <1>m, <1>11, StillRead DEF Age, TypeOK
<1> QED
  BY <1>1, <1>2, <1>3, <1>4, <1>5, <1>6, <1>7, <1>8, <1>9, <1>10, <1>11
     DEF Next, Progress, Settle, Choice

\* On every page, for every role, whatever is mounted is there, on its way or
\* failed, and RolesGuard turns no fetch of it down, but for the exceptions the
\* property names: the menu shows nobody a page whose lists are kept from them.
THEOREM PagesAreReadable == Spec => []PagesReadWhatTheyMay
<1>1. TypeOK /\ ReadInv => PagesReadWhatTheyMay
  <2> SUFFICES ASSUME TypeOK, ReadInv, NEW k \in Mounted, fetch[k] = "denied"
               PROVE  \/ k \in {"estimates", "invoices"}
                      \/ k = "branch-techs" /\ role \notin Managers
    BY DEF PagesReadWhatTheyMay, ReadInv, MountedIsAsked
  <2>1. view.page \in PageName
    BY OpenedPages DEF TypeOK
  <2>2. k \in Keys /\ QueryOf[k].key = k /\ MayRead(role, QueryOf[k])
    BY <2>1, MountedKey DEF Mounted
  <2> QED
    BY <2>2 DEF ReadInv, DeniedIsClosed, MayRead
<1> QED
  BY <1>1, TypeInit, TypeStep, ReadInit, ReadStep, PTL DEF Spec

-----------------------------------------------------------------------------
(* What a page shows of its own writes *)

\* Nothing comes of a route that is closed to the role.
ArrivalsAreServed ==
  \A k \in Keys : cache[k] # "none" \/ fetch[k] \in {"answered", "outrun"} =>
                    Served(role, "GET", QueryOf[k].path)

LEMMA ArrivalInit == Init => ArrivalsAreServed
BY DEF Init, ArrivalsAreServed

\* Everybody may read the settings, which a save puts into the cache.
LEMMA SettingsAreOpen == \A who \in Role : Served(who, "GET", QueryOf["systemSettings"].path)
<1> DEFINE q == Query("systemSettings", "main", UserRole, <<"settings">>, {"settings"})
<1>1. "settings" \in PageName /\ PageOf["settings"] = SettingsPage
  BY DEF PageName, PageOf
<1>2. q \in SettingsPage.queries
  BY PageParts DEF SettingsPage
<1>3. q.key = "systemSettings" /\ q.path = <<"settings">>
  BY QueryParts
<1> HIDE DEF q
<1>4. QueryOf["systemSettings"] = q
  BY <1>1, <1>2, <1>3, KeyStandsForQuery
<1> QED
  BY <1>3, <1>4, SettingsServe, ConsoleAssumption DEF ConsoleAssumption

LEMMA ArrivalStep == TypeOK /\ ArrivalsAreServed /\ [Next]_vars => ArrivalsAreServed'
<1> SUFFICES ASSUME TypeOK, ArrivalsAreServed, [Next]_vars, NEW k \in Keys,
                    cache'[k] # "none" \/ fetch'[k] \in {"answered", "outrun"}
             PROVE  Served(role', "GET", QueryOf[k].path)
  BY DEF ArrivalsAreServed
<1> DEFINE Goal == Served(role', "GET", QueryOf[k].path)
           Known == cache[k] # "none" \/ fetch[k] \in {"answered", "outrun"}
<1> SUFFICES Goal
  OBVIOUS
<1>k. ASSUME Known, role' = role PROVE Goal
  BY <1>k DEF ArrivalsAreServed
<1> HIDE DEF Goal
<1>s. ASSUME NEW page, NEW panel, Show(page, panel), UNCHANGED <<role, cache>> PROVE Goal
  BY <1>k, <1>s DEF Show
<1>1. ASSUME NEW page \in Visited, Visit(page) PROVE Goal
  BY <1>s, <1>1 DEF Visit
<1>2. ASSUME NEW panel \in Panel, OpenPanel(panel) PROVE Goal
  BY <1>s, <1>2 DEF OpenPanel
<1>3. CASE ClosePanel
  BY <1>s, <1>3 DEF ClosePanel
<1>4. ASSUME NEW w \in Offered, Submit(w) PROVE Goal
  BY <1>k, <1>4 DEF Submit
<1>5. CASE Decline \/ Follow \/ Fail \/ UNCHANGED vars
  BY <1>k, <1>5 DEF Decline, Follow, Fail, vars
<1>6. ASSUME NEW j \in Keys, Answer(j) PROVE Goal
  <2>1. CASE j = k
    BY <1>k, <1>6, <2>1 DEF Answer, TypeOK, Goal
  <2>2. CASE j # k
    BY <1>k, <1>6, <2>2 DEF Answer, TypeOK
  <2> QED
    BY <2>1, <2>2
<1>7. ASSUME NEW j \in Keys, Deliver(j) \/ Lose(j) PROVE Goal
  BY <1>k, <1>7 DEF Deliver, Lose, Staled, TypeOK
<1>8. CASE Apply
  BY <1>k, <1>8 DEF Apply, TypeOK
<1>9. CASE Succeed
  BY <1>k, <1>9 DEF Succeed, Refetched, Staled
<1>11. CASE Save
  <2>1. CASE k = "systemSettings"
    BY <1>11, <2>1, SettingsAreOpen DEF Save, TypeOK, Goal
  <2>2. CASE k # "systemSettings"
    BY <1>k, <1>11, <2>2 DEF Save, TypeOK
  <2> QED
    BY <2>1, <2>2
<1>10. ASSUME NEW j \in Aged, Age(j) PROVE Goal
  BY <1>k, <1>10, OpenedPages DEF Age, TypeOK
<1> QED
  BY <1>1, <1>2, <1>3, <1>4, <1>5, <1>6, <1>7, <1>8, <1>9, <1>11, <1>10
     DEF Next, Progress, Settle, Choice

\* A promise is never kept by a fetch that began before the write.
Kept(k) ==
  /\ fetch[k] # "outrun"
  /\ k \in behind => cache[k] # "fresh" /\ fetch[k] \in {"asked", "answered", "failed"}

PromisesAreKept == \A k \in promised : Kept(k)

LEMMA PromiseInit == Init => PromisesAreKept
BY DEF Init, PromisesAreKept

LEMMA PromiseStep ==
  TypeOK /\ ArrivalsAreServed /\ PromisesAreKept /\ [Next]_vars => PromisesAreKept'
<1> SUFFICES ASSUME TypeOK, ArrivalsAreServed, PromisesAreKept, [Next]_vars,
                    NEW k \in promised'
             PROVE  Kept(k)'
  BY DEF PromisesAreKept
<1> DEFINE Goal == Kept(k)'
<1> SUFFICES Goal
  OBVIOUS
<1>k. k \in promised => k \in Keys /\ Kept(k)
  BY DEF TypeOK, PromisesAreKept
<1>e. ASSUME k \in promised, UNCHANGED <<cache, behind, fetch>> PROVE Goal
  BY <1>e, <1>k DEF Kept
<1>s. ASSUME NEW page, NEW panel, Show(page, panel), UNCHANGED <<cache, behind>> PROVE Goal
  BY <1>k, <1>s DEF Show, Kept
<1> HIDE DEF Goal
<1>1. ASSUME NEW page \in Visited, Visit(page) PROVE Goal
  BY <1>s, <1>1 DEF Visit
<1>2. ASSUME NEW panel \in Panel, OpenPanel(panel) PROVE Goal
  BY <1>s, <1>2 DEF OpenPanel
<1>3. CASE ClosePanel
  BY <1>s, <1>3 DEF ClosePanel
<1>4. ASSUME NEW w \in Offered, Submit(w) PROVE Goal
  BY <1>e, <1>4 DEF Submit
<1>5. CASE Decline \/ Follow \/ Fail \/ UNCHANGED vars
  BY <1>e, <1>5 DEF Decline, Follow, Fail, vars
<1>6. ASSUME NEW j \in Keys, Answer(j) PROVE Goal
  <2>1. k \in promised /\ UNCHANGED <<cache, behind>>
    BY <1>6 DEF Answer
  <2>2. k \in behind => Served(role, "GET", QueryOf[k].path)
    BY <1>k, <2>1 DEF TypeOK, ArrivalsAreServed
  <2>3. CASE j = k
    BY <1>6, <1>k, <2>1, <2>2, <2>3 DEF Answer, Kept, TypeOK, Goal
  <2>4. CASE j # k
    BY <1>6, <1>k, <2>1, <2>4 DEF Answer, Kept, TypeOK, Goal
  <2> QED
    BY <2>3, <2>4
<1>7. ASSUME NEW j \in Keys, Deliver(j) PROVE Goal
  <2>1. CASE j = k
    BY <1>7, <1>k, <2>1 DEF Deliver, Kept, TypeOK, Goal
  <2>2. CASE j # k
    BY <1>7, <1>k, <2>2 DEF Deliver, Kept, TypeOK, Goal
  <2> QED
    BY <2>1, <2>2
<1>11. ASSUME NEW j \in Keys, Lose(j) PROVE Goal
  BY <1>11, <1>k DEF Lose, Staled, Kept, TypeOK, Goal
<1>12. CASE Save
  BY <1>12, <1>k DEF Save, Kept, TypeOK, Goal
<1>8. CASE Apply
  BY <1>8, <1>k DEF Apply, Kept, TypeOK, Goal
<1>9. CASE Succeed
  <2>1. flight # NoFlight /\ flight.page \in PageName
        /\ flight.write \in PageOf[flight.page].writes
    BY <1>9, NoFlightState, OpenedPages DEF Succeed, TypeOK, FlightOK
  <2>2. CASE k \in promised
    BY <1>9, <1>k, <2>2 DEF Succeed, Staled, Refetched, Kept, TypeOK, Goal
  <2>3. CASE k \notin promised
    <3>1. /\ k \in Mounted /\ k \in KeysOf(flight.page) /\ flight.write.invalidates # {}
          /\ QueryOf[k].shows \cap flight.write.changes # {} /\ ~Overtaken(k)
      BY <1>9, <2>3 DEF Succeed
    <3>2. k \in Keys /\ k \in flight.write.invalidates
      BY <2>1, <3>1, KeyOfPage, FeltWrite
    <3>3. CASE cache[k] # "none" \/ fetch[k] \in Idle
      <4>1. fetch'[k] = "asked"
        BY <1>9, <3>1, <3>2, <3>3 DEF Succeed, Refetched
      <4>2. cache'[k] # "fresh"
        BY <1>9, <3>2 DEF Succeed, Staled
      <4> QED
        BY <4>1, <4>2 DEF Kept, Goal
    <3>4. CASE cache[k] = "none" /\ fetch[k] \in UnderWay
      <4>1. k \notin behind' /\ fetch'[k] = fetch[k]
        BY <1>9, <3>2, <3>4 DEF Succeed, Refetched, Idle, UnderWay, TypeOK
      <4>2. fetch[k] # "outrun"
        BY <3>1, <3>4 DEF Overtaken
      <4> QED
        BY <4>1, <4>2 DEF Kept, Goal
    <3> QED
      BY <3>2, <3>3, <3>4 DEF TypeOK
  <2> QED
    BY <2>2, <2>3
<1>10. ASSUME NEW j \in Aged, Age(j) PROVE Goal
  BY <1>10, <1>k DEF Age, Kept, TypeOK, Goal
<1> QED
  BY <1>1, <1>2, <1>3, <1>4, <1>5, <1>6, <1>7, <1>8, <1>9, <1>10, <1>11, <1>12
     DEF Next, Progress, Settle, Choice

\* From the answer to a write until the page is left, whatever mounted query of
\* the page shows what was written shows it, or is known to be stale and fetched
\* by a request that began after the write, or that failed, on every page, in any
\* order of answers and failures, but for first loads the write overtook
\* (invalidateQueries in the onSuccess handlers, with the staleTime of
\* query-provider.tsx).
THEOREM OwnWritesAreShown == Spec => []OwnWriteShows
<1>1. PromisesAreKept => OwnWriteShows
  BY DEF PromisesAreKept, Kept, OwnWriteShows
<1> QED
  BY <1>1, TypeInit, TypeStep, ArrivalInit, ArrivalStep, PromiseInit, PromiseStep, PTL DEF Spec
=============================================================================
