---------------------------------- MODULE Gate ----------------------------------
(***************************************************************************)
(* The surface of the API: the routes its controllers declare, and whom    *)
(* RolesGuard lets through.  A path is the sequence of its segments; a     *)
(* segment with a colon stands for any one.  A controller's own path comes *)
(* before those of its handlers.                                           *)
(***************************************************************************)
EXTENDS Lifecycle, Sequences

Admins    == {"SYSTEM_ADMIN", "OWNER"}
Managers  == Admins \cup {"BRANCH_MANAGER"}
FrontLine == Managers \cup {"FRONT_DESK"}

Route(method, path, roles) == [method |-> method, path |-> path, roles |-> roles]

\* Handlers without @Roles are for everybody JwtAuthGuard lets in.
Get(path)    == Route("GET", path, UserRole)
Post(path)   == Route("POST", path, UserRole)
Patch(path)  == Route("PATCH", path, UserRole)
Delete(path) == Route("DELETE", path, UserRole)

For(roles, route) == [route EXCEPT !.roles = roles]

Under(prefix, routes) == {[r EXCEPT !.path = prefix \o @] : r \in routes}

-----------------------------------------------------------------------------
AuthRoutes == Under(<<"auth">>,
  {Get(<<"me">>), Get(<<"sessions">>), Delete(<<"sessions", ":id">>)})

UsersRoutes == Under(<<"users">>,
  {For(Managers, r) :
     r \in {Post(<<>>), Get(<<>>), Get(<<":id">>), Patch(<<":id">>), Patch(<<":id", "status">>),
            Post(<<":id", "branches">>), Delete(<<":id", "branches", ":branchId">>)}}
  \cup {For(Admins, Patch(<<":id", "role">>))})

BranchesRoutes == Under(<<"branches">>,
  {Get(<<>>), Get(<<":id">>)}
  \cup {For(Admins, r) : r \in {Post(<<>>), Patch(<<":id">>), Patch(<<":id", "status">>)}})

CustomersRoutes == Under(<<"customers">>,
  {Post(<<>>), Get(<<>>), Get(<<":id">>), Patch(<<":id">>), Get(<<":id", "devices">>),
   Get(<<":id", "repair-history">>)})

DevicesRoutes ==
  {Get(<<"devices">>), Post(<<"customers", ":id", "devices">>), Get(<<"devices", ":id">>),
   Patch(<<"devices", ":id">>), Get(<<"devices", ":id", "repair-history">>)}

\* Mutant: assigning is left to managers.
TicketsRoutes_Managers == Under(<<"repair-tickets">>,
  {Get(<<>>), Get(<<":id">>), Post(<<":id", "status">>), Get(<<":id", "timeline">>),
   Get(<<":id", "diagnosis">>),
   For({"SYSTEM_ADMIN", "TECHNICIAN"}, Post(<<":id", "diagnosis">>))}
  \cup {For(Managers, r) : r \in {Post(<<":id", "assign">>), Post(<<":id", "reassign">>)}}
  \cup {For(FrontLine, r) : r \in {Post(<<>>), Post(<<":id", "reopen">>), Post(<<":id", "deliver">>)}})

TicketsRoutes == Under(<<"repair-tickets">>,
  {Get(<<>>), Get(<<":id">>), Post(<<":id", "status">>), Get(<<":id", "timeline">>),
   Get(<<":id", "diagnosis">>),
   For({"SYSTEM_ADMIN", "TECHNICIAN"}, Post(<<":id", "diagnosis">>)),
   For(Managers, Post(<<":id", "reassign">>))}
  \cup {For(FrontLine, r) :
          r \in {Post(<<>>), Post(<<":id", "assign">>), Post(<<":id", "reopen">>),
                 Post(<<":id", "deliver">>)}})

\* The handlers of the next two repeat what their controller says already.
EstimatesRoutes == Under(<<"estimates">>,
  {Get(<<"estimates">>), Get(<<"estimates", ":id">>),
   For(Managers, Post(<<"estimates", ":id", "cancel">>))}
  \cup {For(FrontLine, r) :
          r \in {Post(<<"repair-tickets", ":id", "estimates">>), Post(<<"estimates", ":id", "send">>)}})

InvoicesRoutes == Under(<<"invoices">>,
  {Get(<<"invoices">>), Get(<<"invoices", ":id">>), Get(<<"invoices", ":id", "payments">>),
   Get(<<"invoices", ":id", "pdf">>), For(Managers, Post(<<"invoices", ":id", "void">>))}
  \cup {For(FrontLine, r) :
          r \in {Post(<<"repair-tickets", ":id", "invoices">>), Post(<<"invoices", ":id", "payments">>)}})

AttachmentsRoutes ==
  {Post(<<"repair-tickets", ":id", "attachments">>), Get(<<"repair-tickets", ":id", "attachments">>),
   Get(<<"attachments", "file", ":storageKey">>), Delete(<<"attachments", ":id">>)}

NotificationsRoutes == Under(<<"notifications">>,
  {Get(<<>>), Patch(<<"read-all">>), Patch(<<":id", "read">>), Delete(<<":id">>)})

ReportsRoutes == Under(<<"reports">>,
  {Get(<<"dashboard">>), For(Admins, Get(<<"branches">>))}
  \cup {For(Managers, Get(<<report>>)) :
          report \in {"revenue", "technicians", "delayed-tickets", "estimate-decisions",
                      "device-categories", "export"}})

AuditLogsRoutes == Under(<<"audit-logs">>, {For(Admins, r) : r \in {Get(<<>>), Get(<<":id">>)}})

SettingsRoutes == Under(<<"settings">>, {Get(<<>>), For(Admins, Patch(<<>>))})

Routes ==
  UNION {AuthRoutes, UsersRoutes, BranchesRoutes, CustomersRoutes, DevicesRoutes, TicketsRoutes,
         EstimatesRoutes, InvoicesRoutes, AttachmentsRoutes, NotificationsRoutes, ReportsRoutes,
         AuditLogsRoutes, SettingsRoutes}

\* RolesGuard: the roles of the handler, and administrators whatever it says.
RolesGuard(role, route) == role \in route.roles \cup Unscoped

Found(method, path) == {r \in Routes : r.method = method /\ r.path = path}

Served(role, method, path) == \E r \in Found(method, path) : RolesGuard(role, r)
=============================================================================
