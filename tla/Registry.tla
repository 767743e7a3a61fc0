-------------------------------- MODULE Registry --------------------------------
(***************************************************************************)
(* What a shop keeps on record: branches and their staff, customers and    *)
(* their devices, the tickets opened for them and the files attached; with *)
(* the audit trail, and the migration that gave customers and devices the  *)
(* branch they belong to.                                                  *)
(*                                                                         *)
(* A Worker is a request in flight.  Begin actions read and check; then a  *)
(* transaction writes a row and its audit row, checked by nothing but the  *)
(* unique indexes.  Files are outside of transactions.  Technicians, whose *)
(* tickets are checked too, are in RepairTickets.                          *)
(***************************************************************************)
EXTENDS Gate, Naturals

CONSTANTS
  Branch, Staff, Customer, Device, Ticket, Key,   \* the ids rows can take; the storage keys
  Worker,
  RoleOf,        \* each user's role
  Oldest,        \* the branch that was opened first
  Phone, Email, Serial, Name,  \* what the columns can hold
  Blank,         \* the empty string, which forms send for no e-mail or number
  Null,
  Old,           \* the databases there may be before the migration
  MaxRequests,   \* bound: so many requests
  MaxFaults      \* bound: so many crashes and failed transactions

ASSUME RegistryAssumption ==
  /\ RoleOf \in [Staff -> UserRole \ {"TECHNICIAN"}]
  /\ Oldest \in Branch
  /\ Blank \notin Phone \cup Email \cup Serial
  /\ Null \notin Phone \cup Email \cup Serial \cup {Blank}
  /\ MaxRequests \in Nat /\ MaxFaults \in Nat

VARIABLES
  branches,     \* Branch rows
  members,      \* UserBranch rows: the branches of each user
  customers,    \* Customer rows, by id
  devices,      \* Device rows
  tickets,      \* RepairTicket rows, with what places them
  trail,        \* AuditLog: the last word that the rows about an entity have on each column
  attachments,  \* Attachment rows: the ticket of each storage key
  disk,         \* the files of the upload directory
  req,          \* what each worker is doing
  begun, faults,
  issued,       \* history: the keys ever drawn, no two of which are alike
  lost          \* history: the keys that a fault left between disk and table

rows == <<branches, members, customers, devices, tickets, trail>>
files == <<attachments, disk, issued, lost>>
vars == <<rows, files, req, begun, faults>>

Idle == [op |-> "idle"]

Nothing == <<>>

OrBlank(S) == S \cup {Null, Blank}

TypeOK ==
  /\ branches \in [Branch -> [isActive: BOOLEAN, name: Name]]
  /\ members \in [Staff -> SUBSET Branch]
  /\ DOMAIN customers \subseteq Customer
  /\ \A c \in DOMAIN customers :
       customers[c] \in [branch: Branch, phone: Phone, email: OrBlank(Email)]
  /\ DOMAIN devices \subseteq Device
  /\ \A d \in DOMAIN devices :
       devices[d] \in [customer: DOMAIN customers, branch: Branch, serial: OrBlank(Serial)]
  /\ DOMAIN tickets \subseteq Ticket
  /\ \A t \in DOMAIN tickets :
       tickets[t] \in [customer: DOMAIN customers, device: DOMAIN devices, branch: Branch]
  /\ DOMAIN attachments \cup disk \cup lost \subseteq issued /\ issued \subseteq Key
  /\ \A k \in DOMAIN attachments : attachments[k] \in DOMAIN tickets
  /\ begun \in 0..MaxRequests /\ faults \in 0..MaxFaults

-----------------------------------------------------------------------------
(* The unique indexes: null is like no other value, the empty string is not *)

Unique(table, id, row, columns) ==
  \A other \in DOMAIN table \ {id}, k \in columns :
    table[other].branch = row.branch /\ row[k] # Null => table[other][k] # row[k]

CustomerKeys == {"phone", "email"}

DeviceKeys == {"serial"}

-----------------------------------------------------------------------------
(* The migration *)

BranchesSeen(old, c) == {old.tickets[t].branch : t \in {x \in DOMAIN old.tickets :
                                                         old.tickets[x].customer = c}}

\* COALESCE: the branch of any ticket, or the oldest branch.
Backfilled(old, c) ==
  IF BranchesSeen(old, c) = {} THEN Oldest ELSE CHOOSE b \in BranchesSeen(old, c) : TRUE

\* "Cannot migrate automatically: % customers belong to multiple branches."
Unambiguous(old) ==
  \A c \in DOMAIN old.customers : \A a, b \in BranchesSeen(old, c) : a = b

MigratedCustomers(old) ==
  [c \in DOMAIN old.customers |->
    [branch |-> Backfilled(old, c), phone |-> old.customers[c].phone, email |-> old.customers[c].email]]

MigratedDevices(old) ==
  [d \in DOMAIN old.devices |->
    [customer |-> old.devices[d].customer, branch |-> Backfilled(old, old.devices[d].customer),
     serial |-> old.devices[d].serial]]

\* Foreign keys, and create's check that a device is its customer's.
ASSUME DatabaseAssumption ==
  \A old \in Old :
    /\ DOMAIN old.customers \subseteq Customer
    /\ \A c \in DOMAIN old.customers :
         old.customers[c] \in [phone: Phone, email: OrBlank(Email)]
    /\ DOMAIN old.devices \subseteq Device
    /\ \A d \in DOMAIN old.devices :
         old.devices[d] \in [customer: DOMAIN old.customers, serial: OrBlank(Serial)]
    /\ DOMAIN old.tickets \subseteq Ticket
    /\ \A t \in DOMAIN old.tickets :
         /\ old.tickets[t] \in
              [customer: DOMAIN old.customers, device: DOMAIN old.devices, branch: Branch]
         /\ old.devices[old.tickets[t].device].customer = old.tickets[t].customer

\* An audit row names the kind of its row with the id: no two rows are taken for one.
Kinds == <<Branch, Customer, Device, Ticket, Staff \X Branch>>

ASSUME TrailAssumption ==
  \A i, j \in 1..5 : i # j => Kinds[i] \cap Kinds[j] = {}

\* The indexes it ends with refuse what is not unique, and all is undone.
Indexed(table, columns) == \A id \in DOMAIN table : Unique(table, id, table[id], columns)

Init ==
  /\ \E old \in Old :
       /\ Unambiguous(old)
       /\ Indexed(MigratedCustomers(old), CustomerKeys)
       /\ Indexed(MigratedDevices(old), DeviceKeys)
       /\ customers = MigratedCustomers(old)
       /\ devices = MigratedDevices(old)
       /\ tickets = old.tickets
  /\ \E name \in Name : branches = [b \in Branch |-> [isActive |-> TRUE, name |-> name]]
  /\ members = [u \in Staff |-> {Oldest}]
  /\ trail = [e \in UNION {Kinds[i] : i \in 1..5} |-> Nothing]
  /\ attachments = Nothing /\ disk = {} /\ issued = {} /\ lost = {}
  /\ req = [w \in Worker |-> Idle]
  /\ begun = 0 /\ faults = 0

-----------------------------------------------------------------------------
(* What the handlers share *)

Within(u, b) == RoleOf[u] \in Unscoped \/ b \in members[u]

Receive(w, r) ==
  /\ req[w] = Idle
  /\ begun < MaxRequests
  /\ begun' = begun + 1
  /\ req' = [req EXCEPT ![w] = r]
  /\ UNCHANGED <<rows, files, faults>>

Serves(w, op) == req[w].op = op

Answer(w) == req' = [req EXCEPT ![w] = Idle] /\ UNCHANGED <<begun, faults>>

\* P2002, P2025: the transaction is undone and the request answered with an error.
Refuse(w) == Answer(w) /\ UNCHANGED <<rows, files>>

\* The columns that a change has replace those of a row; the others stay.
Over(change, row) ==
  [k \in DOMAIN change \cup DOMAIN row |-> IF k \in DOMAIN change THEN change[k] ELSE row[k]]

\* Mutant: the new values are worked out from the row that was read.
Logged_AsRead(e, was, change, row) ==
  trail' = [trail EXCEPT ![e] = Over(change, Over(was, trail[e]))]

\* The audit row of a transaction: the columns of the row after it.
Logged(e, was, change, row) == trail' = [trail EXCEPT ![e] = Over(row, trail[e])]

With(table, id, row) == [x \in DOMAIN table \cup {id} |-> IF x = id THEN row ELSE table[x]]

Fresh(ids, table) == CHOOSE id \in ids : id \notin DOMAIN table

OrNull(value) == IF value = Blank THEN Null ELSE value

-----------------------------------------------------------------------------
(* Customers *)

\* create: the branch is open and the actor's.
BeginCreateCustomer(w, u, b, phone, email) ==
  /\ branches[b].isActive
  /\ Within(u, b)
  /\ Receive(w, [op |-> "createCustomer",
                 row |-> [branch |-> b, phone |-> phone, email |-> OrNull(email)]])

CreateCustomer(w) ==
  /\ Serves(w, "createCustomer")
  /\ DOMAIN customers # Customer
  /\ LET row == req[w].row
         id  == Fresh(Customer, customers)
     IN IF Unique(customers, id, row, CustomerKeys)
        THEN /\ customers' = With(customers, id, row)
             /\ Logged(id, Nothing, row, row)
             /\ Answer(w)
             /\ UNCHANGED <<branches, members, devices, tickets, files>>
        ELSE Refuse(w)

\* updateCustomerSchema: any of the columns, never the branch.
CustomerChanges ==
  [phone: Phone] \cup [email: Email \cup {Blank}] \cup [phone: Phone, email: Email \cup {Blank}]

BeginUpdateCustomer(w, u, c, change) ==
  /\ Within(u, customers[c].branch)
  /\ Receive(w, [op |-> "updateCustomer", id |-> c, was |-> customers[c], change |-> change])

\* The columns of the request replace those of the row, as they are.
UpdateCustomer(w) ==
  /\ Serves(w, "updateCustomer")
  /\ LET r   == req[w]
         row == Over(r.change, customers[r.id])
     IN IF Unique(customers, r.id, row, CustomerKeys)
        THEN /\ customers' = [customers EXCEPT ![r.id] = row]
             /\ Logged(r.id, r.was, r.change, row)
             /\ Answer(w)
             /\ UNCHANGED <<branches, members, devices, tickets, files>>
        ELSE Refuse(w)

-----------------------------------------------------------------------------
(* Devices *)

\* Mutant: the device is not given the branch of its customer.
NewDevice_Unplaced(c, serial) == [customer |-> c, branch |-> Null, serial |-> OrNull(serial)]

NewDevice(c, serial) ==
  [customer |-> c, branch |-> customers[c].branch, serial |-> OrNull(serial)]

BeginRegisterDevice(w, u, c, serial) ==
  /\ Within(u, customers[c].branch)
  /\ Receive(w, [op |-> "registerDevice", row |-> NewDevice(c, serial)])

RegisterDevice(w) ==
  /\ Serves(w, "registerDevice")
  /\ DOMAIN devices # Device
  /\ LET row == req[w].row
         id  == Fresh(Device, devices)
     IN IF Unique(devices, id, row, DeviceKeys)
        THEN /\ devices' = With(devices, id, row)
             /\ Logged(id, Nothing, row, row)
             /\ Answer(w)
             /\ UNCHANGED <<branches, members, customers, tickets, files>>
        ELSE Refuse(w)

BeginUpdateDevice(w, u, d, serial) ==
  /\ Within(u, devices[d].branch)
  /\ Receive(w, [op |-> "updateDevice", id |-> d, was |-> devices[d],
                 change |-> [serial |-> serial]])

UpdateDevice(w) ==
  /\ Serves(w, "updateDevice")
  /\ LET r   == req[w]
         row == Over(r.change, devices[r.id])
     IN IF Unique(devices, r.id, row, DeviceKeys)
        THEN /\ devices' = [devices EXCEPT ![r.id] = row]
             /\ Logged(r.id, r.was, r.change, row)
             /\ Answer(w)
             /\ UNCHANGED <<branches, members, customers, tickets, files>>
        ELSE Refuse(w)

-----------------------------------------------------------------------------
(* Tickets: where they are opened *)

\* Mutant: the device is looked up by its branch alone.
Checks_AnyDevice(b, c, d) == customers[c].branch = b /\ devices[d].branch = b

\* "The device must belong to the selected customer and branch"
Checks(b, c, d) ==
  /\ customers[c].branch = b
  /\ devices[d].customer = c
  /\ devices[d].branch = b

BeginCreateTicket(w, u, b, c, d) ==
  /\ Within(u, b)
  /\ branches[b].isActive
  /\ Checks(b, c, d)
  /\ Receive(w, [op |-> "createTicket", row |-> [customer |-> c, device |-> d, branch |-> b]])

CreateTicket(w) ==
  /\ Serves(w, "createTicket")
  /\ DOMAIN tickets # Ticket
  /\ LET row == req[w].row
         id  == Fresh(Ticket, tickets)
     IN /\ tickets' = With(tickets, id, row)
        /\ Logged(id, Nothing, row, row)
  /\ Answer(w)
  /\ UNCHANGED <<branches, members, customers, devices, files>>

-----------------------------------------------------------------------------
(* Branches and who works in them *)

BeginUpdateBranch(w, u, b, name) ==
  /\ RoleOf[u] \in Admins
  /\ Receive(w, [op |-> "updateBranch", id |-> b, was |-> branches[b], change |-> [name |-> name]])

UpdateBranch(w) ==
  /\ Serves(w, "updateBranch")
  /\ LET r   == req[w]
         row == Over(r.change, branches[r.id])
     IN branches' = [branches EXCEPT ![r.id] = row] /\ Logged(r.id, r.was, r.change, row)
  /\ Answer(w)
  /\ UNCHANGED <<members, customers, devices, tickets, files>>

BeginToggleStatus(w, u, b, isActive) ==
  /\ RoleOf[u] \in Admins
  /\ Receive(w, [op |-> "toggleStatus", id |-> b, was |-> branches[b],
                 change |-> [isActive |-> isActive]])

\* Only this column is put into the audit row.
ToggleStatus(w) ==
  /\ Serves(w, "toggleStatus")
  /\ LET r   == req[w]
         row == Over(r.change, branches[r.id])
     IN /\ branches' = [branches EXCEPT ![r.id] = row]
        /\ Logged(r.id, [isActive |-> r.was.isActive], r.change, [isActive |-> row.isActive])
  /\ Answer(w)
  /\ UNCHANGED <<members, customers, devices, tickets, files>>

CanAssignBranch(u, b) ==
  \/ RoleOf[u] \in Admins
  \/ RoleOf[u] = "BRANCH_MANAGER" /\ b \in members[u]

\* canManageUser(.., "ASSIGN_BRANCH"), and the branch that BranchAccessGuard has them share.
CanManageUser(u, staff) ==
  /\ u # staff
  /\ \/ RoleOf[u] = "SYSTEM_ADMIN"
     \/ RoleOf[u] = "OWNER" /\ RoleOf[staff] \notin Admins
     \/ /\ RoleOf[u] = "BRANCH_MANAGER"
        /\ RoleOf[staff] \notin Managers
        /\ members[staff] \cap members[u] # {}

BeginAssignBranch(w, u, staff, b) ==
  /\ CanAssignBranch(u, b) /\ CanManageUser(u, staff)
  /\ b \notin members[staff]
  /\ Receive(w, [op |-> "assignBranch", id |-> <<staff, b>>])

\* A second row of one user and branch breaks the primary key.
AssignBranch(w) ==
  /\ Serves(w, "assignBranch")
  /\ LET staff == req[w].id[1]
         b     == req[w].id[2]
     IN IF b \in members[staff]
        THEN Refuse(w)
        ELSE /\ members' = [members EXCEPT ![staff] = @ \cup {b}]
             /\ Logged(<<staff, b>>, Nothing, Nothing, [assigned |-> TRUE])
             /\ Answer(w)
             /\ UNCHANGED <<branches, customers, devices, tickets, files>>

BeginRemoveBranch(w, u, staff, b) ==
  /\ CanAssignBranch(u, b) /\ CanManageUser(u, staff)
  /\ b \in members[staff]
  /\ Receive(w, [op |-> "removeBranch", id |-> <<staff, b>>])

RemoveBranch(w) ==
  /\ Serves(w, "removeBranch")
  /\ LET staff == req[w].id[1]
         b     == req[w].id[2]
     IN IF b \notin members[staff]
        THEN Refuse(w)
        ELSE /\ members' = [members EXCEPT ![staff] = @ \ {b}]
             /\ Logged(<<staff, b>>, Nothing, Nothing, [assigned |-> FALSE])
             /\ Answer(w)
             /\ UNCHANGED <<branches, customers, devices, tickets, files>>

-----------------------------------------------------------------------------
(* Files: on the disk outside of any transaction *)

BeginUpload(w, u, t) ==
  /\ Within(u, tickets[t].branch)
  /\ Receive(w, [op |-> "writeFile", ticket |-> t])

\* A fresh name; then writeFileSync.
WriteFile(w) ==
  /\ Serves(w, "writeFile")
  /\ \E k \in Key \ issued :
       /\ issued' = issued \cup {k}
       /\ disk' = disk \cup {k}
       /\ req' = [req EXCEPT ![w] = [op |-> "storeRow", ticket |-> req[w].ticket, key |-> k]]
  /\ UNCHANGED <<rows, attachments, lost, begun, faults>>

StoreRow(w) ==
  /\ Serves(w, "storeRow")
  /\ attachments' = With(attachments, req[w].key, req[w].ticket)
  /\ Answer(w)
  /\ UNCHANGED <<rows, disk, issued, lost>>

BeginRemove(w, u, k) ==
  /\ Within(u, tickets[attachments[k]].branch)
  /\ Receive(w, [op |-> "deleteRow", key |-> k])

Without(k) == [x \in DOMAIN attachments \ {k} |-> attachments[x]]

\* Mutant: the file goes first.
DeleteRow_FileFirst(w) ==
  /\ Serves(w, "deleteRow")
  /\ disk' = disk \ {req[w].key}
  /\ req' = [req EXCEPT ![w] = [op |-> "unlink", key |-> req[w].key]]
  /\ UNCHANGED <<rows, attachments, issued, lost, begun, faults>>

\* A row that is gone already cannot be deleted, and its file is left alone.
DeleteRow(w) ==
  /\ Serves(w, "deleteRow")
  /\ IF req[w].key \notin DOMAIN attachments
     THEN Refuse(w)
     ELSE /\ attachments' = Without(req[w].key)
          /\ req' = [req EXCEPT ![w] = [op |-> "unlink", key |-> req[w].key]]
          /\ UNCHANGED <<rows, disk, issued, lost, begun, faults>>

\* Mutant: the file is kept.
Unlink_Kept(w) ==
  /\ Serves(w, "unlink")
  /\ Answer(w)
  /\ UNCHANGED <<rows, files>>

Unlink(w) ==
  /\ Serves(w, "unlink")
  /\ disk' = disk \ {req[w].key}
  /\ Answer(w)
  /\ UNCHANGED <<rows, attachments, issued, lost>>

-----------------------------------------------------------------------------
(* Faults *)

\* The keys a request has between the disk and the table.
Held(r) == IF r.op \in {"storeRow", "unlink"} THEN {r.key} ELSE {}

Fault(ws) ==
  /\ faults < MaxFaults
  /\ faults' = faults + 1
  /\ lost' = lost \cup UNION {Held(req[w]) : w \in ws}
  /\ req' = [w \in Worker |-> IF w \in ws THEN Idle ELSE req[w]]
  /\ UNCHANGED <<rows, attachments, disk, issued, begun>>

\* The statement or the call that a request is at fails.
Fail(w) == req[w] # Idle /\ Fault({w})

\* The server stops, with all that it was doing, and is started again.
Crash == Fault(Worker)

-----------------------------------------------------------------------------
Next ==
  \/ \E w \in Worker, u \in Staff, b \in Branch, p \in Phone, e \in Email \cup {Blank} :
       BeginCreateCustomer(w, u, b, p, e)
  \/ \E w \in Worker : CreateCustomer(w)
  \/ \E w \in Worker, u \in Staff, c \in DOMAIN customers, change \in CustomerChanges :
       BeginUpdateCustomer(w, u, c, change)
  \/ \E w \in Worker : UpdateCustomer(w)
  \/ \E w \in Worker, u \in Staff, c \in DOMAIN customers, serial \in Serial \cup {Blank} :
       BeginRegisterDevice(w, u, c, serial)
  \/ \E w \in Worker : RegisterDevice(w)
  \/ \E w \in Worker, u \in Staff, d \in DOMAIN devices, serial \in OrBlank(Serial) :
       BeginUpdateDevice(w, u, d, serial)
  \/ \E w \in Worker : UpdateDevice(w)
  \/ \E w \in Worker, u \in Staff, b \in Branch, c \in DOMAIN customers, d \in DOMAIN devices :
       BeginCreateTicket(w, u, b, c, d)
  \/ \E w \in Worker : CreateTicket(w)
  \/ \E w \in Worker, u \in Staff, b \in Branch, name \in Name : BeginUpdateBranch(w, u, b, name)
  \/ \E w \in Worker : UpdateBranch(w)
  \/ \E w \in Worker, u \in Staff, b \in Branch, isActive \in BOOLEAN :
       BeginToggleStatus(w, u, b, isActive)
  \/ \E w \in Worker : ToggleStatus(w)
  \/ \E w \in Worker, u, staff \in Staff, b \in Branch : BeginAssignBranch(w, u, staff, b)
  \/ \E w \in Worker : AssignBranch(w)
  \/ \E w \in Worker, u, staff \in Staff, b \in Branch : BeginRemoveBranch(w, u, staff, b)
  \/ \E w \in Worker : RemoveBranch(w)
  \/ \E w \in Worker, u \in Staff, t \in DOMAIN tickets : BeginUpload(w, u, t)
  \/ \E w \in Worker : WriteFile(w)
  \/ \E w \in Worker : StoreRow(w)
  \/ \E w \in Worker, u \in Staff, k \in DOMAIN attachments : BeginRemove(w, u, k)
  \/ \E w \in Worker : DeleteRow(w)
  \/ \E w \in Worker : Unlink(w)
  \/ \E w \in Worker : Fail(w)
  \/ Crash

Spec == Init /\ [][Next]_vars

-----------------------------------------------------------------------------
\* A ticket, its customer and its device are of one branch, and the device is the
\* customer's: what every branch check of a ticket takes for granted.  The checks
\* are made on rows read before the insertion, the migration had to guess the
\* branches of old rows, and no foreign key ties a ticket to them.
PlacesAgree ==
  /\ \A t \in DOMAIN tickets :
       /\ customers[tickets[t].customer].branch = tickets[t].branch
       /\ devices[tickets[t].device].branch = tickets[t].branch
       /\ devices[tickets[t].device].customer = tickets[t].customer
  /\ \A d \in DOMAIN devices : devices[d].branch = customers[devices[d].customer].branch

RowOf(e) ==
  CASE e \in Branch -> branches[e]
    [] e \in Customer -> customers[e]
    [] e \in Device -> devices[e]
    [] e \in Ticket -> tickets[e]
    [] OTHER -> [assigned |-> e[2] \in members[e[1]]]

\* Whatever two requests for one row do in between each other, the last word of
\* the audit trail on a column is what the row holds: an inspection of the trail
\* alone gives the records.
TrailTellsRows ==
  \A e \in DOMAIN trail : \A column \in DOMAIN trail[e] : trail[e][column] = RowOf(e)[column]

\* An attachment that a ticket lists can be opened, whatever fails or stops
\* between the statement and the call that store it or take it away.
EveryRowHasItsFile == DOMAIN attachments \subseteq disk

\* A file that no row names is one that a request is at, or one that a fault left:
\* uploads and removals that meet leave none.
OrphansComeFromFaults ==
  disk \subseteq DOMAIN attachments \cup lost \cup UNION {Held(req[w]) : w \in Worker}
=============================================================================
