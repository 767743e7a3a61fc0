----------------------------- MODULE Registry_proofs -----------------------------
(***************************************************************************)
(* What holds of Registry for every set of rows, users, keys and requests, *)
(* and any number of crashes.                                              *)
(***************************************************************************)
EXTENDS Registry, TLAPS

-----------------------------------------------------------------------------
(* Files: nothing that a request does to the rows of another table matters *)

\* What uploads and removals in flight know of the key they hold: it was drawn,
\* its file is not that of a row, and no other request is to store it.  A request
\* that is to store a row has written the file.
KeysAreHeld ==
  /\ disk \subseteq issued
  /\ \A w \in Worker : Held(req[w]) \subseteq issued /\ Held(req[w]) \cap DOMAIN attachments = {}
  /\ \A w \in Worker : req[w].op = "storeRow" => req[w].key \in disk
  /\ \A v, w \in Worker :
       v # w /\ req[v].op = "storeRow" => req[v].key \notin Held(req[w])

FilesInv ==
  /\ DOMAIN req = Worker
  /\ EveryRowHasItsFile
  /\ OrphansComeFromFaults
  /\ KeysAreHeld

FileOps == {"storeRow", "unlink"}

LEMMA InitFiles == Init => FilesInv
BY DEF Init, FilesInv, EveryRowHasItsFile, OrphansComeFromFaults, KeysAreHeld, Held, Idle, Nothing

\* A request that comes in, and one that is answered without having held a key.
LEMMA ReceiveFiles ==
  ASSUME FilesInv, NEW w \in Worker, NEW r, r.op \notin FileOps, Receive(w, r)
  PROVE  FilesInv'
<1>1. Held(r) = {} /\ Held(Idle) = {}
  BY DEF Held, FileOps, Idle
<1>2. req'[w] = r /\ \A v \in Worker \ {w} : req'[v] = req[v]
  BY DEF Receive, FilesInv
<1>3. Held(req[w]) = {} /\ \A v \in Worker : Held(req'[v]) = Held(req[v])
  BY <1>1, <1>2 DEF Receive
<1>4. r.op # "storeRow"
  BY DEF FileOps
<1>5. DOMAIN req' = Worker
  BY DEF Receive, FilesInv
<1>6. UNCHANGED files
  BY DEF Receive
<1>7. EveryRowHasItsFile' /\ OrphansComeFromFaults'
  BY <1>3, <1>6 DEF FilesInv, EveryRowHasItsFile, OrphansComeFromFaults, files
<1>8. \A v \in Worker : req'[v].op = "storeRow" => req[v].op = "storeRow" /\ req'[v] = req[v]
  BY <1>2, <1>4
<1>9. KeysAreHeld'
  BY <1>3, <1>6, <1>8 DEF FilesInv, KeysAreHeld, files
<1>10. QED BY <1>5, <1>7, <1>9 DEF FilesInv

LEMMA AnswerFiles ==
  ASSUME FilesInv, NEW w \in Worker, Held(req[w]) = {}, Answer(w), UNCHANGED files
  PROVE  FilesInv'
<1>1. Held(Idle) = {} /\ Idle.op # "storeRow"
  BY DEF Held, Idle
<1>2. req'[w] = Idle /\ \A v \in Worker \ {w} : req'[v] = req[v]
  BY DEF Answer, FilesInv
<1>3. \A v \in Worker : Held(req'[v]) = Held(req[v])
  BY <1>1, <1>2
<1>4. DOMAIN req' = Worker
  BY DEF Answer, FilesInv
<1>5. EveryRowHasItsFile' /\ OrphansComeFromFaults'
  BY <1>3 DEF FilesInv, EveryRowHasItsFile, OrphansComeFromFaults, files
<1>6. \A v \in Worker : req'[v].op = "storeRow" => req[v].op = "storeRow" /\ req'[v] = req[v]
  BY <1>1, <1>2
<1>7. KeysAreHeld'
  BY <1>3, <1>6 DEF FilesInv, KeysAreHeld, files
<1>8. QED BY <1>4, <1>5, <1>7 DEF FilesInv

\* The transactions on rows leave the files alone, whether they commit or not.
RowStep(w) ==
  \/ CreateCustomer(w) \/ UpdateCustomer(w) \/ RegisterDevice(w) \/ UpdateDevice(w)
  \/ CreateTicket(w) \/ UpdateBranch(w) \/ ToggleStatus(w) \/ AssignBranch(w) \/ RemoveBranch(w)

LEMMA RowStepFiles ==
  ASSUME FilesInv, NEW w \in Worker, RowStep(w)
  PROVE  FilesInv'
<1>1. req[w].op \notin FileOps
  BY DEF RowStep, FileOps, Serves, CreateCustomer, UpdateCustomer, RegisterDevice, UpdateDevice,
         CreateTicket, UpdateBranch, ToggleStatus, AssignBranch, RemoveBranch
<1>2. Held(req[w]) = {}
  BY <1>1 DEF Held, FileOps
<1>3. Answer(w) /\ UNCHANGED files
  BY DEF RowStep, Refuse, CreateCustomer, UpdateCustomer, RegisterDevice, UpdateDevice,
         CreateTicket, UpdateBranch, ToggleStatus, AssignBranch, RemoveBranch
<1>4. QED BY <1>2, <1>3, AnswerFiles

\* A key that was never drawn is nobody's.
LEMMA WriteFileFiles ==
  ASSUME FilesInv, NEW w \in Worker, WriteFile(w)
  PROVE  FilesInv'
<1>1. PICK k \in Key \ issued :
        /\ issued' = issued \cup {k}
        /\ disk' = disk \cup {k}
        /\ req' = [req EXCEPT ![w] = [op |-> "storeRow", ticket |-> req[w].ticket, key |-> k]]
  BY DEF WriteFile
<1>2. UNCHANGED <<attachments, lost>>
  BY DEF WriteFile
<1>3. DOMAIN req' = Worker /\ \A v \in Worker \ {w} : req'[v] = req[v]
  BY <1>1 DEF FilesInv
<1>4. req'[w].op = "storeRow" /\ req'[w].key = k /\ Held(req'[w]) = {k}
  BY <1>1 DEF FilesInv, Held
<1>5. Held(req[w]) = {}
  BY DEF WriteFile, Serves, Held
<1>6. \A v \in Worker : Held(req[v]) \subseteq Held(req'[v])
  BY <1>3, <1>5
<1>7. k \notin DOMAIN attachments /\ \A v \in Worker : k \notin Held(req[v])
  BY <1>1 DEF FilesInv, KeysAreHeld, EveryRowHasItsFile
<1>8. EveryRowHasItsFile'
  BY <1>1, <1>2 DEF FilesInv, EveryRowHasItsFile
<1>9. OrphansComeFromFaults'
  BY <1>1, <1>2, <1>4, <1>6 DEF FilesInv, OrphansComeFromFaults
<1>10. KeysAreHeld'
  <2>1. disk' \subseteq issued'
    BY <1>1 DEF FilesInv, KeysAreHeld
  <2>2. \A v \in Worker : Held(req'[v]) \subseteq issued' /\ Held(req'[v]) \cap DOMAIN attachments' = {}
    BY <1>1, <1>2, <1>3, <1>4, <1>7 DEF FilesInv, KeysAreHeld
  <2>3. \A v \in Worker : req'[v].op = "storeRow" => req'[v].key \in disk'
    BY <1>1, <1>3, <1>4 DEF FilesInv, KeysAreHeld
  <2>4. ASSUME NEW v \in Worker, NEW x \in Worker, v # x, req'[v].op = "storeRow"
        PROVE  req'[v].key \notin Held(req'[x])
    <3>1. CASE v = w BY <2>4, <3>1, <1>3, <1>4, <1>7
    <3>2. CASE v # w
      <4>1. req[v].key \in Held(req[v])
        BY <2>4, <3>2, <1>3 DEF Held
      <4>2. QED BY <2>4, <3>2, <4>1, <1>3, <1>4, <1>7 DEF FilesInv, KeysAreHeld
    <3>3. QED BY <3>1, <3>2
  <2>5. QED BY <2>1, <2>2, <2>3, <2>4 DEF KeysAreHeld
<1>11. QED BY <1>3, <1>8, <1>9, <1>10 DEF FilesInv

LEMMA StoreRowFiles ==
  ASSUME FilesInv, NEW w \in Worker, StoreRow(w)
  PROVE  FilesInv'
<1> DEFINE k == req[w].key
<1>1. req[w].op = "storeRow" /\ Held(req[w]) = {k}
  BY DEF StoreRow, Serves, Held
<1>2. DOMAIN attachments' = DOMAIN attachments \cup {k}
  BY DEF StoreRow, With
<1>3. UNCHANGED <<disk, issued, lost>>
  BY DEF StoreRow
<1>4. DOMAIN req' = Worker /\ req'[w] = Idle /\ \A v \in Worker \ {w} : req'[v] = req[v]
  BY DEF FilesInv, StoreRow, Answer
<1>5. Held(Idle) = {} /\ Idle.op # "storeRow"
  BY DEF Held, Idle
<1>6. k \in disk /\ \A v \in Worker \ {w} : k \notin Held(req[v])
  BY <1>1 DEF FilesInv, KeysAreHeld
<1>7. EveryRowHasItsFile'
  BY <1>2, <1>3, <1>6 DEF FilesInv, EveryRowHasItsFile
<1>8. OrphansComeFromFaults'
  BY <1>1, <1>2, <1>3, <1>4 DEF FilesInv, OrphansComeFromFaults
<1>9. KeysAreHeld'
  BY <1>2, <1>3, <1>4, <1>5, <1>6 DEF FilesInv, KeysAreHeld
<1>10. QED BY <1>4, <1>7, <1>8, <1>9 DEF FilesInv

LEMMA DeleteRowFiles ==
  ASSUME FilesInv, NEW w \in Worker, DeleteRow(w)
  PROVE  FilesInv'
<1> DEFINE k == req[w].key
<1>1. req[w].op = "deleteRow" /\ Held(req[w]) = {}
  BY DEF DeleteRow, Serves, Held
<1>2. CASE k \notin DOMAIN attachments
  BY <1>1, <1>2, AnswerFiles DEF DeleteRow, Refuse
<1>3. CASE k \in DOMAIN attachments
  <2>1. DOMAIN attachments' = DOMAIN attachments \ {k}
    BY <1>3 DEF DeleteRow, Without
  <2>2. UNCHANGED <<disk, issued, lost>>
    BY <1>3 DEF DeleteRow
  <2>3. DOMAIN req' = Worker /\ req'[w] = [op |-> "unlink", key |-> k]
        /\ \A v \in Worker \ {w} : req'[v] = req[v]
    BY <1>3 DEF FilesInv, DeleteRow
  <2>4. req'[w].op # "storeRow" /\ Held(req'[w]) = {k}
    BY <2>3 DEF Held
  <2>5. k \in disk /\ k \in issued /\ \A v \in Worker : k \notin Held(req[v])
    BY <1>3 DEF FilesInv, EveryRowHasItsFile, KeysAreHeld
  <2>6. EveryRowHasItsFile'
    BY <2>1, <2>2 DEF FilesInv, EveryRowHasItsFile
  <2>7. \A v \in Worker : Held(req[v]) \subseteq Held(req'[v])
    BY <1>1, <2>3
  <2>8. OrphansComeFromFaults'
    BY <2>1, <2>2, <2>4, <2>7 DEF FilesInv, OrphansComeFromFaults
  <2>9. \A v \in Worker : req'[v].op = "storeRow" => req'[v] = req[v] /\ req[v].key \in Held(req[v])
    BY <2>3, <2>4 DEF Held
  <2>10. KeysAreHeld'
    BY <2>1, <2>2, <2>3, <2>4, <2>5, <2>9 DEF FilesInv, KeysAreHeld
  <2>11. QED BY <2>3, <2>6, <2>8, <2>10 DEF FilesInv
<1>4. QED BY <1>2, <1>3

LEMMA UnlinkFiles ==
  ASSUME FilesInv, NEW w \in Worker, Unlink(w)
  PROVE  FilesInv'
<1> DEFINE k == req[w].key
<1>1. req[w].op = "unlink" /\ Held(req[w]) = {k}
  BY DEF Unlink, Serves, Held
<1>2. disk' = disk \ {k} /\ UNCHANGED <<attachments, issued, lost>>
  BY DEF Unlink
<1>3. DOMAIN req' = Worker /\ req'[w] = Idle /\ \A v \in Worker \ {w} : req'[v] = req[v]
  BY DEF FilesInv, Unlink, Answer
<1>4. Held(Idle) = {} /\ Idle.op # "storeRow"
  BY DEF Held, Idle
<1>5. k \notin DOMAIN attachments
  BY <1>1 DEF FilesInv, KeysAreHeld
<1>6. EveryRowHasItsFile'
  BY <1>2, <1>5 DEF FilesInv, EveryRowHasItsFile
<1>7. OrphansComeFromFaults'
  BY <1>1, <1>2, <1>3 DEF FilesInv, OrphansComeFromFaults
<1>8. KeysAreHeld'
  BY <1>1, <1>2, <1>3, <1>4 DEF FilesInv, KeysAreHeld
<1>9. QED BY <1>3, <1>6, <1>7, <1>8 DEF FilesInv

\* What a fault takes from a request, it leaves on the disk as lost.
LEMMA FaultFiles ==
  ASSUME FilesInv, NEW ws \in SUBSET Worker, Fault(ws)
  PROVE  FilesInv'
<1>1. UNCHANGED <<attachments, disk, issued>>
  BY DEF Fault
<1>2. DOMAIN req' = Worker /\ \A v \in Worker : req'[v] = IF v \in ws THEN Idle ELSE req[v]
  BY DEF Fault
<1>3. Held(Idle) = {} /\ Idle.op # "storeRow"
  BY DEF Held, Idle
<1>4. EveryRowHasItsFile'
  BY <1>1 DEF FilesInv, EveryRowHasItsFile
<1>5. lost \subseteq lost' /\ \A v \in ws : Held(req[v]) \subseteq lost'
  BY DEF Fault
<1>6. OrphansComeFromFaults'
  BY <1>1, <1>2, <1>5 DEF FilesInv, OrphansComeFromFaults
<1>7. KeysAreHeld'
  BY <1>1, <1>2, <1>3 DEF FilesInv, KeysAreHeld
<1>8. QED BY <1>2, <1>4, <1>6, <1>7 DEF FilesInv

\* The requests that come in are told apart by their first step.
BeginStep(w) ==
  \/ \E u \in Staff, b \in Branch, p \in Phone, e \in Email \cup {Blank} : BeginCreateCustomer(w, u, b, p, e)
  \/ \E u \in Staff, c \in DOMAIN customers, change \in CustomerChanges : BeginUpdateCustomer(w, u, c, change)
  \/ \E u \in Staff, c \in DOMAIN customers, serial \in Serial \cup {Blank} : BeginRegisterDevice(w, u, c, serial)
  \/ \E u \in Staff, d \in DOMAIN devices, serial \in OrBlank(Serial) : BeginUpdateDevice(w, u, d, serial)
  \/ \E u \in Staff, b \in Branch, c \in DOMAIN customers, d \in DOMAIN devices : BeginCreateTicket(w, u, b, c, d)
  \/ \E u \in Staff, b \in Branch, name \in Name : BeginUpdateBranch(w, u, b, name)
  \/ \E u \in Staff, b \in Branch, isActive \in BOOLEAN : BeginToggleStatus(w, u, b, isActive)
  \/ \E u, staff \in Staff, b \in Branch : BeginAssignBranch(w, u, staff, b)
  \/ \E u, staff \in Staff, b \in Branch : BeginRemoveBranch(w, u, staff, b)
  \/ \E u \in Staff, t \in DOMAIN tickets : BeginUpload(w, u, t)
  \/ \E u \in Staff, k \in DOMAIN attachments : BeginRemove(w, u, k)

LEMMA Steps ==
  Next <=> \/ \E w \in Worker : BeginStep(w)
           \/ \E w \in Worker : RowStep(w)
           \/ \E w \in Worker : WriteFile(w) \/ StoreRow(w) \/ DeleteRow(w) \/ Unlink(w)
           \/ \E w \in Worker : Fail(w)
           \/ Crash
BY DEF Next, BeginStep, RowStep

LEMMA BeginStepFiles ==
  ASSUME FilesInv, NEW w \in Worker, BeginStep(w)
  PROVE  FilesInv'
<1> USE ReceiveFiles DEF FileOps
<1>1. ASSUME NEW u \in Staff, NEW b \in Branch, NEW p, NEW e, BeginCreateCustomer(w, u, b, p, e)
      PROVE  FilesInv'
  BY <1>1 DEF BeginCreateCustomer
<1>2. ASSUME NEW u \in Staff, NEW c, NEW change, BeginUpdateCustomer(w, u, c, change)
      PROVE  FilesInv'
  BY <1>2 DEF BeginUpdateCustomer
<1>3. ASSUME NEW u \in Staff, NEW c, NEW serial, BeginRegisterDevice(w, u, c, serial)
      PROVE  FilesInv'
  BY <1>3 DEF BeginRegisterDevice
<1>4. ASSUME NEW u \in Staff, NEW d, NEW serial, BeginUpdateDevice(w, u, d, serial)
      PROVE  FilesInv'
  BY <1>4 DEF BeginUpdateDevice
<1>5. ASSUME NEW u \in Staff, NEW b, NEW c, NEW d, BeginCreateTicket(w, u, b, c, d)
      PROVE  FilesInv'
  BY <1>5 DEF BeginCreateTicket
<1>6. ASSUME NEW u \in Staff, NEW b, NEW name, BeginUpdateBranch(w, u, b, name)
      PROVE  FilesInv'
  BY <1>6 DEF BeginUpdateBranch
<1>7. ASSUME NEW u \in Staff, NEW b, NEW isActive, BeginToggleStatus(w, u, b, isActive)
      PROVE  FilesInv'
  BY <1>7 DEF BeginToggleStatus
<1>8. ASSUME NEW u \in Staff, NEW staff, NEW b, BeginAssignBranch(w, u, staff, b) \/ BeginRemoveBranch(w, u, staff, b)
      PROVE  FilesInv'
  BY <1>8 DEF BeginAssignBranch, BeginRemoveBranch
<1>9. ASSUME NEW u \in Staff, NEW t, BeginUpload(w, u, t)
      PROVE  FilesInv'
  BY <1>9 DEF BeginUpload
<1>10. ASSUME NEW u \in Staff, NEW k, BeginRemove(w, u, k)
       PROVE  FilesInv'
  BY <1>10 DEF BeginRemove
<1>11. QED
  BY <1>1, <1>2, <1>3, <1>4, <1>5, <1>6, <1>7, <1>8, <1>9, <1>10 DEF BeginStep

LEMMA NextFiles == FilesInv /\ [Next]_vars => FilesInv'
<1> SUFFICES ASSUME FilesInv, [Next]_vars PROVE FilesInv'
  OBVIOUS
<1>1. ASSUME NEW w \in Worker, WriteFile(w) \/ StoreRow(w) \/ DeleteRow(w) \/ Unlink(w)
      PROVE  FilesInv'
  BY <1>1, WriteFileFiles, StoreRowFiles, DeleteRowFiles, UnlinkFiles
<1>2. ASSUME NEW w \in Worker, Fail(w) PROVE FilesInv'
  BY <1>2, FaultFiles DEF Fail
<1>3. CASE Crash
  BY <1>3, FaultFiles DEF Crash
<1>4. CASE UNCHANGED vars
  BY <1>4 DEF vars, files, FilesInv, EveryRowHasItsFile, OrphansComeFromFaults, KeysAreHeld
<1>5. QED BY <1>1, <1>2, <1>3, <1>4, Steps, BeginStepFiles, RowStepFiles

LEMMA AlwaysFiles == Spec => []FilesInv
BY InitFiles, NextFiles, PTL DEF Spec

\* Every attachment that a ticket lists has its file: for any number of overlapping
\* uploads and removals, and any number of crashes.
THEOREM RowsHaveFiles == Spec => []EveryRowHasItsFile
<1>1. FilesInv => EveryRowHasItsFile
  BY DEF FilesInv
<1>2. QED BY <1>1, AlwaysFiles, PTL

\* No file is without a row but for a request under way or a fault.
THEOREM OrphansHaveCauses == Spec => []OrphansComeFromFaults
<1>1. FilesInv => OrphansComeFromFaults
  BY DEF FilesInv
<1>2. QED BY <1>1, AlwaysFiles, PTL

-----------------------------------------------------------------------------
(* Places *)

CustomerRow == [branch: Branch, phone: Phone, email: OrBlank(Email)]

DeviceRow(cs) == [customer: cs, branch: Branch, serial: OrBlank(Serial)]

TicketRow(cs, ds) == [customer: cs, device: ds, branch: Branch]

\* A device row that is where its customer is, and a ticket row where both are.
DevicePlaced(row, cs) == row.branch = cs[row.customer].branch

TicketPlaced(row, cs, ds) ==
  /\ cs[row.customer].branch = row.branch
  /\ ds[row.device].branch = row.branch
  /\ ds[row.device].customer = row.customer

\* What a request in flight carries, beside the rows of customers, devices and
\* tickets: it was read from rows that may have changed, but never in their place.
RequestOK(r, cs, ds, ts, ks) ==
  /\ r.op = "createCustomer" => r.row \in CustomerRow
  /\ r.op = "updateCustomer" => r.id \in DOMAIN cs /\ r.change \in CustomerChanges
  /\ r.op = "registerDevice" => r.row \in DeviceRow(DOMAIN cs) /\ DevicePlaced(r.row, cs)
  /\ r.op = "updateDevice" => r.id \in DOMAIN ds /\ r.change \in [serial: OrBlank(Serial)]
  /\ r.op = "createTicket" => r.row \in TicketRow(DOMAIN cs, DOMAIN ds) /\ TicketPlaced(r.row, cs, ds)
  /\ r.op = "updateBranch" => r.id \in Branch /\ r.change \in [name: Name]
  /\ r.op = "toggleStatus" => r.id \in Branch /\ r.change \in [isActive: BOOLEAN]
  /\ r.op \in {"assignBranch", "removeBranch"} => r.id[1] \in Staff /\ r.id[2] \in Branch
  /\ r.op = "writeFile" => r.ticket \in DOMAIN ts
  /\ r.op = "storeRow" => r.ticket \in DOMAIN ts
  /\ r.op \in FileOps => r.key \in ks

RequestsOK ==
  /\ DOMAIN req = Worker
  /\ \A w \in Worker : RequestOK(req[w], customers, devices, tickets, issued)

PlacesInv == TypeOK /\ RequestsOK /\ PlacesAgree

\* Rows are added, and no customer or device is moved.
Grows(cs, ds, ts, ks, cs2, ds2, ts2, ks2) ==
  /\ DOMAIN cs \subseteq DOMAIN cs2 /\ DOMAIN ds \subseteq DOMAIN ds2
  /\ DOMAIN ts \subseteq DOMAIN ts2 /\ ks \subseteq ks2
  /\ \A c \in DOMAIN cs : cs2[c].branch = cs[c].branch
  /\ \A d \in DOMAIN ds : ds2[d].branch = ds[d].branch /\ ds2[d].customer = ds[d].customer

LEMMA RequestStays ==
  ASSUME NEW cs, NEW ds, NEW ts, NEW ks, NEW cs2, NEW ds2, NEW ts2, NEW ks2,
         Grows(cs, ds, ts, ks, cs2, ds2, ts2, ks2),
         NEW r, RequestOK(r, cs, ds, ts, ks)
  PROVE  RequestOK(r, cs2, ds2, ts2, ks2)
<1>1. r.op = "registerDevice" => r.row \in DeviceRow(DOMAIN cs2) /\ DevicePlaced(r.row, cs2)
  BY DEF RequestOK, Grows, DeviceRow, DevicePlaced
<1>2. r.op = "createTicket" => r.row \in TicketRow(DOMAIN cs2, DOMAIN ds2) /\ TicketPlaced(r.row, cs2, ds2)
  BY DEF RequestOK, Grows, TicketRow, TicketPlaced
<1>3. QED BY <1>1, <1>2 DEF RequestOK, Grows

\* A step that ends one request, or takes it on, and adds rows.
LEMMA RequestsStay ==
  ASSUME RequestsOK, NEW w \in Worker, NEW r,
         Grows(customers, devices, tickets, issued, customers', devices', tickets', issued'),
         req' = [req EXCEPT ![w] = r],
         RequestOK(r, customers', devices', tickets', issued')
  PROVE  RequestsOK'
<1>1. DOMAIN req' = Worker /\ req'[w] = r /\ \A v \in Worker \ {w} : req'[v] = req[v]
  BY DEF RequestsOK
<1>2. \A v \in Worker : RequestOK(req[v], customers', devices', tickets', issued')
  BY RequestStays DEF RequestsOK
<1>3. QED BY <1>1, <1>2 DEF RequestsOK

LEMMA IdleOK == \A cs, ds, ts, ks : RequestOK(Idle, cs, ds, ts, ks)
BY DEF RequestOK, FileOps, Idle

LEMMA FreshIsNew ==
  ASSUME NEW ids, NEW table, DOMAIN table \subseteq ids, DOMAIN table # ids
  PROVE  Fresh(ids, table) \in ids \ DOMAIN table
BY DEF Fresh

\* The columns of an update are those of the row, and never its place.
LEMMA UpdatedCustomer ==
  ASSUME NEW row \in CustomerRow, NEW change \in CustomerChanges
  PROVE  Over(change, row) \in CustomerRow /\ Over(change, row).branch = row.branch
<1>1. ASSUME change \in [phone: Phone] PROVE Over(change, row) \in CustomerRow /\ Over(change, row).branch = row.branch
  BY <1>1 DEF CustomerRow, Over, OrBlank
<1>2. ASSUME change \in [email: Email \cup {Blank}] PROVE Over(change, row) \in CustomerRow /\ Over(change, row).branch = row.branch
  BY <1>2 DEF CustomerRow, Over, OrBlank
<1>3. ASSUME change \in [phone: Phone, email: Email \cup {Blank}]
      PROVE  Over(change, row) \in CustomerRow /\ Over(change, row).branch = row.branch
  BY <1>3 DEF CustomerRow, Over, OrBlank
<1>4. QED BY <1>1, <1>2, <1>3 DEF CustomerChanges

LEMMA UpdatedDevice ==
  ASSUME NEW cs, NEW row \in DeviceRow(cs), NEW change \in [serial: OrBlank(Serial)]
  PROVE  /\ Over(change, row) \in DeviceRow(cs)
         /\ Over(change, row).branch = row.branch /\ Over(change, row).customer = row.customer
BY DEF DeviceRow, Over

LEMMA UpdatedBranch ==
  ASSUME NEW row \in [isActive: BOOLEAN, name: Name],
         NEW change \in [name: Name] \cup [isActive: BOOLEAN]
  PROVE  Over(change, row) \in [isActive: BOOLEAN, name: Name]
<1>1. ASSUME change \in [name: Name] PROVE Over(change, row) \in [isActive: BOOLEAN, name: Name]
  BY <1>1 DEF Over
<1>2. ASSUME change \in [isActive: BOOLEAN] PROVE Over(change, row) \in [isActive: BOOLEAN, name: Name]
  BY <1>2 DEF Over
<1>3. QED BY <1>1, <1>2

-----------------------------------------------------------------------------
(* The migration puts everything in its place *)

LEMMA BackfilledBranch ==
  ASSUME NEW old \in Old, NEW c
  PROVE  Backfilled(old, c) \in Branch
<1>1. BranchesSeen(old, c) \subseteq Branch
  BY DatabaseAssumption DEF BranchesSeen
<1>2. QED BY <1>1, RegistryAssumption DEF Backfilled

\* With one branch per customer the guess is the branch of every ticket.
LEMMA BackfilledAgrees ==
  ASSUME NEW old \in Old, Unambiguous(old), NEW t \in DOMAIN old.tickets
  PROVE  Backfilled(old, old.tickets[t].customer) = old.tickets[t].branch
<1> DEFINE c == old.tickets[t].customer
<1>1. old.tickets[t].branch \in BranchesSeen(old, c)
  BY DEF BranchesSeen
<1>2. c \in DOMAIN old.customers
  BY DatabaseAssumption
<1>3. \A a, b \in BranchesSeen(old, c) : a = b
  BY <1>2 DEF Unambiguous
<1>4. QED BY <1>1, <1>3 DEF Backfilled

LEMMA InitPlaces == Init => PlacesInv
<1> SUFFICES ASSUME Init PROVE PlacesInv
  OBVIOUS
<1>1. PICK old \in Old : /\ Unambiguous(old)
                         /\ customers = MigratedCustomers(old)
                         /\ devices = MigratedDevices(old)
                         /\ tickets = old.tickets
  BY DEF Init
<1>2. DOMAIN customers = DOMAIN old.customers /\ DOMAIN devices = DOMAIN old.devices
  BY <1>1 DEF MigratedCustomers, MigratedDevices
<1>3. \A c \in DOMAIN customers : customers[c] \in CustomerRow /\ customers[c].branch = Backfilled(old, c)
  BY <1>1, <1>2, BackfilledBranch, DatabaseAssumption DEF MigratedCustomers, CustomerRow
<1>4. \A d \in DOMAIN devices :
        /\ devices[d] \in DeviceRow(DOMAIN customers)
        /\ devices[d].customer = old.devices[d].customer
        /\ devices[d].branch = Backfilled(old, old.devices[d].customer)
  BY <1>1, <1>2, BackfilledBranch, DatabaseAssumption DEF MigratedDevices, DeviceRow
<1>5. \A t \in DOMAIN tickets : tickets[t] \in TicketRow(DOMAIN customers, DOMAIN devices)
  BY <1>1, <1>2, DatabaseAssumption DEF TicketRow
<1>6. PlacesAgree
  <2>1. ASSUME NEW d \in DOMAIN devices PROVE devices[d].branch = customers[devices[d].customer].branch
    BY <1>3, <1>4 DEF DeviceRow
  <2>2. ASSUME NEW t \in DOMAIN tickets
        PROVE  /\ customers[tickets[t].customer].branch = tickets[t].branch
               /\ devices[tickets[t].device].branch = tickets[t].branch
               /\ devices[tickets[t].device].customer = tickets[t].customer
    <3>1. tickets[t].customer \in DOMAIN customers /\ tickets[t].device \in DOMAIN devices
      BY <1>5 DEF TicketRow
    <3>2. old.devices[tickets[t].device].customer = tickets[t].customer
      BY <1>1, DatabaseAssumption
    <3>3. Backfilled(old, tickets[t].customer) = tickets[t].branch
      BY <1>1, BackfilledAgrees
    <3>4. QED BY <3>1, <3>2, <3>3, <1>3, <1>4
  <2>3. QED BY <2>1, <2>2 DEF PlacesAgree
<1>7. branches \in [Branch -> [isActive: BOOLEAN, name: Name]] /\ members \in [Staff -> SUBSET Branch]
  BY RegistryAssumption DEF Init
<1>8. attachments = Nothing /\ disk = {} /\ issued = {} /\ lost = {} /\ begun = 0 /\ faults = 0
  BY DEF Init
<1>9. DOMAIN attachments = {}
  BY <1>8 DEF Nothing
<1>10. DOMAIN customers \subseteq Customer /\ DOMAIN devices \subseteq Device /\ DOMAIN tickets \subseteq Ticket
  BY <1>1, <1>2, DatabaseAssumption
<1>11. TypeOK
  BY <1>3, <1>4, <1>5, <1>7, <1>8, <1>9, <1>10, RegistryAssumption DEF TypeOK, CustomerRow, DeviceRow, TicketRow
<1>12. RequestsOK
  BY IdleOK DEF RequestsOK, Init
<1>13. QED BY <1>6, <1>11, <1>12 DEF PlacesInv

-----------------------------------------------------------------------------
(* Steps *)

\* A step that leaves customers, devices and tickets alone.
LEMMA Unmoved ==
  ASSUME PlacesInv, NEW w \in Worker, NEW r,
         UNCHANGED <<customers, devices, tickets>>, issued \subseteq issued',
         req' = [req EXCEPT ![w] = r],
         RequestOK(r, customers, devices, tickets, issued'),
         TypeOK'
  PROVE  PlacesInv'
<1>1. Grows(customers, devices, tickets, issued, customers', devices', tickets', issued')
  BY DEF Grows
<1>2. RequestsOK'
  BY <1>1, RequestsStay DEF PlacesInv
<1>3. PlacesAgree'
  BY DEF PlacesInv, PlacesAgree
<1>4. QED BY <1>2, <1>3 DEF PlacesInv

LEMMA ReceivePlaces ==
  ASSUME PlacesInv, NEW w \in Worker, NEW r, Receive(w, r),
         RequestOK(r, customers, devices, tickets, issued)
  PROVE  PlacesInv'
<1>1. UNCHANGED <<rows, files, faults>> /\ begun' = begun + 1 /\ begun < MaxRequests
  BY DEF Receive
<1>2. begun' \in 0..MaxRequests
  BY <1>1, RegistryAssumption DEF PlacesInv, TypeOK
<1>3. TypeOK'
  BY <1>1, <1>2 DEF PlacesInv, TypeOK, rows, files
<1>4. QED BY <1>1, <1>3, Unmoved DEF Receive, rows, files

LEMMA RefusePlaces ==
  ASSUME PlacesInv, NEW w \in Worker, Refuse(w)
  PROVE  PlacesInv'
<1>1. TypeOK'
  BY DEF PlacesInv, TypeOK, Refuse, Answer, rows, files
<1>2. QED BY <1>1, Unmoved, IdleOK DEF Refuse, Answer, rows, files

LEMMA BeginStepPlaces ==
  ASSUME PlacesInv, NEW w \in Worker, BeginStep(w)
  PROVE  PlacesInv'
<1> USE ReceivePlaces DEF RequestOK, FileOps
<1>1. ASSUME NEW u \in Staff, NEW b \in Branch, NEW p \in Phone, NEW e \in Email \cup {Blank},
             BeginCreateCustomer(w, u, b, p, e)
      PROVE  PlacesInv'
  BY <1>1 DEF BeginCreateCustomer, CustomerRow, OrNull, OrBlank
<1>2. ASSUME NEW u \in Staff, NEW c \in DOMAIN customers, NEW change \in CustomerChanges,
             BeginUpdateCustomer(w, u, c, change)
      PROVE  PlacesInv'
  BY <1>2 DEF BeginUpdateCustomer
<1>3. ASSUME NEW u \in Staff, NEW c \in DOMAIN customers, NEW serial \in Serial \cup {Blank},
             BeginRegisterDevice(w, u, c, serial)
      PROVE  PlacesInv'
  <2>1. customers[c].branch \in Branch
    BY DEF PlacesInv, TypeOK
  <2>2. NewDevice(c, serial) \in DeviceRow(DOMAIN customers) /\ DevicePlaced(NewDevice(c, serial), customers)
    BY <2>1 DEF NewDevice, DeviceRow, DevicePlaced, OrNull, OrBlank
  <2>3. QED BY <1>3, <2>2 DEF BeginRegisterDevice
<1>4. ASSUME NEW u \in Staff, NEW d \in DOMAIN devices, NEW serial \in OrBlank(Serial),
             BeginUpdateDevice(w, u, d, serial)
      PROVE  PlacesInv'
  BY <1>4 DEF BeginUpdateDevice
<1>5. ASSUME NEW u \in Staff, NEW b \in Branch, NEW c \in DOMAIN customers, NEW d \in DOMAIN devices,
             BeginCreateTicket(w, u, b, c, d)
      PROVE  PlacesInv'
  BY <1>5 DEF BeginCreateTicket, Checks, TicketRow, TicketPlaced
<1>6. ASSUME NEW u \in Staff, NEW b \in Branch, NEW name \in Name, BeginUpdateBranch(w, u, b, name)
      PROVE  PlacesInv'
  BY <1>6 DEF BeginUpdateBranch
<1>7. ASSUME NEW u \in Staff, NEW b \in Branch, NEW isActive \in BOOLEAN, BeginToggleStatus(w, u, b, isActive)
      PROVE  PlacesInv'
  BY <1>7 DEF BeginToggleStatus
<1>8. ASSUME NEW u \in Staff, NEW staff \in Staff, NEW b \in Branch,
             BeginAssignBranch(w, u, staff, b) \/ BeginRemoveBranch(w, u, staff, b)
      PROVE  PlacesInv'
  BY <1>8 DEF BeginAssignBranch, BeginRemoveBranch
<1>9. ASSUME NEW u \in Staff, NEW t \in DOMAIN tickets, BeginUpload(w, u, t)
      PROVE  PlacesInv'
  BY <1>9 DEF BeginUpload
<1>10. ASSUME NEW u \in Staff, NEW k \in DOMAIN attachments, BeginRemove(w, u, k)
       PROVE  PlacesInv'
  BY <1>10 DEF BeginRemove
<1>11. QED
  BY <1>1, <1>2, <1>3, <1>4, <1>5, <1>6, <1>7, <1>8, <1>9, <1>10 DEF BeginStep

-----------------------------------------------------------------------------
(* The transactions that add or change rows with a place *)

\* What a transaction on customers writes, be the row a new one or not.
LEMMA CustomerWritten ==
  ASSUME PlacesInv, NEW w \in Worker, CreateCustomer(w) \/ UpdateCustomer(w), ~Refuse(w)
  PROVE  \E id \in Customer, row \in CustomerRow :
           /\ customers' = With(customers, id, row)
           /\ id \in DOMAIN customers => row.branch = customers[id].branch
           /\ trail' = [trail EXCEPT ![id] = Over(row, trail[id])]
           /\ Answer(w) /\ UNCHANGED <<branches, members, devices, tickets, files>>
<1>1. CASE CreateCustomer(w)
  <2> DEFINE row == req[w].row
             id == Fresh(Customer, customers)
  <2>1. row \in CustomerRow
    BY <1>1 DEF PlacesInv, RequestsOK, RequestOK, CreateCustomer, Serves
  <2>2. id \in Customer \ DOMAIN customers
    BY <1>1, FreshIsNew DEF CreateCustomer, PlacesInv, TypeOK
  <2>3. customers' = With(customers, id, row) /\ trail' = [trail EXCEPT ![id] = Over(row, trail[id])]
        /\ Answer(w) /\ UNCHANGED <<branches, members, devices, tickets, files>>
    BY <1>1 DEF CreateCustomer, Logged
  <2> HIDE DEF row, id
  <2>4. QED BY <2>1, <2>2, <2>3
<1>2. CASE UpdateCustomer(w)
  <2> DEFINE id == req[w].id
             row == Over(req[w].change, customers[id])
  <2>1. id \in DOMAIN customers /\ req[w].change \in CustomerChanges
    BY <1>2 DEF PlacesInv, RequestsOK, RequestOK, UpdateCustomer, Serves
  <2>2. customers[id] \in CustomerRow /\ id \in Customer
    BY <2>1 DEF PlacesInv, TypeOK, CustomerRow
  <2>3. row \in CustomerRow /\ row.branch = customers[id].branch
    BY <2>1, <2>2, UpdatedCustomer
  <2>4. customers' = [customers EXCEPT ![id] = row] /\ trail' = [trail EXCEPT ![id] = Over(row, trail[id])]
        /\ Answer(w) /\ UNCHANGED <<branches, members, devices, tickets, files>>
    BY <1>2 DEF UpdateCustomer, Logged
  <2> HIDE DEF row, id
  <2>5. customers' = With(customers, id, row)
    BY <2>1, <2>4 DEF With
  <2>6. QED BY <2>1, <2>2, <2>3, <2>4, <2>5
<1>3. QED BY <1>1, <1>2

LEMMA CustomerPlaces ==
  ASSUME PlacesInv, NEW w \in Worker, CreateCustomer(w) \/ UpdateCustomer(w), ~Refuse(w)
  PROVE  PlacesInv'
<1>1. PICK id \in Customer, row \in CustomerRow :
        /\ customers' = With(customers, id, row)
        /\ id \in DOMAIN customers => row.branch = customers[id].branch
        /\ Answer(w) /\ UNCHANGED <<branches, members, devices, tickets, files>>
  BY CustomerWritten
<1>2. /\ DOMAIN customers' = DOMAIN customers \cup {id}
      /\ \A c \in DOMAIN customers' : customers'[c] = IF c = id THEN row ELSE customers[c]
  BY <1>1 DEF With
<1>3. \A c \in DOMAIN customers : customers'[c].branch = customers[c].branch
  BY <1>1, <1>2
<1>4. TypeOK'
  <2>1. \A c \in DOMAIN customers' : customers'[c] \in CustomerRow
    BY <1>2 DEF PlacesInv, TypeOK, CustomerRow
  <2>2. QED BY <1>1, <1>2, <2>1 DEF PlacesInv, TypeOK, CustomerRow, files, Answer
<1>5. Grows(customers, devices, tickets, issued, customers', devices', tickets', issued')
  BY <1>1, <1>2, <1>3 DEF Grows, files
<1>6. RequestsOK'
  BY <1>1, <1>5, RequestsStay, IdleOK DEF PlacesInv, Answer
<1>7. PlacesAgree'
  <2>1. (\A d \in DOMAIN devices : devices[d].customer \in DOMAIN customers)
        /\ \A t \in DOMAIN tickets : tickets[t].customer \in DOMAIN customers
    BY DEF PlacesInv, TypeOK
  <2>2. QED BY <1>1, <1>3, <2>1 DEF PlacesInv, PlacesAgree
<1>8. QED BY <1>4, <1>6, <1>7 DEF PlacesInv

\* What a transaction on devices writes, be the row a new one or not.
LEMMA DeviceWritten ==
  ASSUME PlacesInv, NEW w \in Worker, RegisterDevice(w) \/ UpdateDevice(w), ~Refuse(w)
  PROVE  \E id \in Device, row \in DeviceRow(DOMAIN customers) :
           /\ devices' = With(devices, id, row)
           /\ DevicePlaced(row, customers)
           /\ id \in DOMAIN devices => row.branch = devices[id].branch /\ row.customer = devices[id].customer
           /\ trail' = [trail EXCEPT ![id] = Over(row, trail[id])]
           /\ Answer(w) /\ UNCHANGED <<branches, members, customers, tickets, files>>
<1>1. CASE RegisterDevice(w)
  <2> DEFINE row == req[w].row
             id == Fresh(Device, devices)
  <2>1. row \in DeviceRow(DOMAIN customers) /\ DevicePlaced(row, customers)
    BY <1>1 DEF PlacesInv, RequestsOK, RequestOK, RegisterDevice, Serves
  <2>2. id \in Device \ DOMAIN devices
    BY <1>1, FreshIsNew DEF RegisterDevice, PlacesInv, TypeOK
  <2>3. devices' = With(devices, id, row) /\ trail' = [trail EXCEPT ![id] = Over(row, trail[id])]
        /\ Answer(w) /\ UNCHANGED <<branches, members, customers, tickets, files>>
    BY <1>1 DEF RegisterDevice, Logged
  <2> HIDE DEF row, id
  <2>4. QED BY <2>1, <2>2, <2>3
<1>2. CASE UpdateDevice(w)
  <2> DEFINE id == req[w].id
             row == Over(req[w].change, devices[id])
  <2>1. id \in DOMAIN devices /\ req[w].change \in [serial: OrBlank(Serial)]
    BY <1>2 DEF PlacesInv, RequestsOK, RequestOK, UpdateDevice, Serves
  <2>2. devices[id] \in DeviceRow(DOMAIN customers) /\ id \in Device
    BY <2>1 DEF PlacesInv, TypeOK, DeviceRow
  <2>3. row \in DeviceRow(DOMAIN customers) /\ row.branch = devices[id].branch /\ row.customer = devices[id].customer
    BY <2>1, <2>2, UpdatedDevice
  <2>4. devices' = [devices EXCEPT ![id] = row] /\ trail' = [trail EXCEPT ![id] = Over(row, trail[id])]
        /\ Answer(w) /\ UNCHANGED <<branches, members, customers, tickets, files>>
    BY <1>2 DEF UpdateDevice, Logged
  <2> HIDE DEF row, id
  <2>5. devices' = With(devices, id, row)
    BY <2>1, <2>4 DEF With
  <2>6. QED BY <2>1, <2>2, <2>3, <2>4, <2>5 DEF PlacesInv, PlacesAgree, DevicePlaced
<1>3. QED BY <1>1, <1>2

LEMMA DevicePlaces ==
  ASSUME PlacesInv, NEW w \in Worker, RegisterDevice(w) \/ UpdateDevice(w), ~Refuse(w)
  PROVE  PlacesInv'
<1>1. PICK id \in Device, row \in DeviceRow(DOMAIN customers) :
        /\ devices' = With(devices, id, row)
        /\ DevicePlaced(row, customers)
        /\ id \in DOMAIN devices => row.branch = devices[id].branch /\ row.customer = devices[id].customer
        /\ Answer(w) /\ UNCHANGED <<branches, members, customers, tickets, files>>
  BY DeviceWritten
<1>2. /\ DOMAIN devices' = DOMAIN devices \cup {id}
      /\ \A d \in DOMAIN devices' : devices'[d] = IF d = id THEN row ELSE devices[d]
  BY <1>1 DEF With
<1>3. \A d \in DOMAIN devices :
        devices'[d].branch = devices[d].branch /\ devices'[d].customer = devices[d].customer
  BY <1>1, <1>2
<1>4. TypeOK'
  <2>1. \A d \in DOMAIN devices' : devices'[d] \in DeviceRow(DOMAIN customers)
    BY <1>2 DEF PlacesInv, TypeOK, DeviceRow
  <2>2. \A t \in DOMAIN tickets : tickets[t] \in TicketRow(DOMAIN customers, DOMAIN devices')
    BY <1>2 DEF PlacesInv, TypeOK, TicketRow
  <2>3. QED BY <1>1, <1>2, <2>1, <2>2 DEF PlacesInv, TypeOK, DeviceRow, TicketRow, files, Answer
<1>5. Grows(customers, devices, tickets, issued, customers', devices', tickets', issued')
  BY <1>1, <1>2, <1>3 DEF Grows, files
<1>6. RequestsOK'
  BY <1>1, <1>5, RequestsStay, IdleOK DEF PlacesInv, Answer
<1>7. PlacesAgree'
  <2>1. \A t \in DOMAIN tickets : tickets[t].device \in DOMAIN devices
    BY DEF PlacesInv, TypeOK
  <2>2. \A d \in DOMAIN devices' : devices'[d].branch = customers[devices'[d].customer].branch
    BY <1>1, <1>2 DEF PlacesInv, PlacesAgree, DevicePlaced
  <2>3. QED BY <1>1, <1>2, <1>3, <2>1, <2>2 DEF PlacesInv, PlacesAgree
<1>8. QED BY <1>4, <1>6, <1>7 DEF PlacesInv

\* The checks of an intake still hold when its ticket is inserted.
LEMMA TicketWritten ==
  ASSUME PlacesInv, NEW w \in Worker, CreateTicket(w)
  PROVE  \E id \in Ticket \ DOMAIN tickets, row \in TicketRow(DOMAIN customers, DOMAIN devices) :
           /\ tickets' = With(tickets, id, row)
           /\ TicketPlaced(row, customers, devices)
           /\ trail' = [trail EXCEPT ![id] = Over(row, trail[id])]
           /\ Answer(w) /\ UNCHANGED <<branches, members, customers, devices, files>>
<1> DEFINE row == req[w].row
           id == Fresh(Ticket, tickets)
<1>1. tickets' = With(tickets, id, row) /\ trail' = [trail EXCEPT ![id] = Over(row, trail[id])]
      /\ Answer(w) /\ UNCHANGED <<branches, members, customers, devices, files>>
  BY DEF CreateTicket, Logged
<1>2. row \in TicketRow(DOMAIN customers, DOMAIN devices) /\ TicketPlaced(row, customers, devices)
  BY DEF PlacesInv, RequestsOK, RequestOK, CreateTicket, Serves
<1>3. id \in Ticket \ DOMAIN tickets
  BY FreshIsNew DEF CreateTicket, PlacesInv, TypeOK
<1> HIDE DEF row, id
<1>4. QED BY <1>1, <1>2, <1>3

LEMMA TicketPlaces ==
  ASSUME PlacesInv, NEW w \in Worker, CreateTicket(w)
  PROVE  PlacesInv'
<1>1. PICK id \in Ticket \ DOMAIN tickets, row \in TicketRow(DOMAIN customers, DOMAIN devices) :
        /\ tickets' = With(tickets, id, row)
        /\ TicketPlaced(row, customers, devices)
        /\ Answer(w) /\ UNCHANGED <<branches, members, customers, devices, files>>
  BY TicketWritten
<1>2. /\ DOMAIN tickets' = DOMAIN tickets \cup {id}
      /\ \A t \in DOMAIN tickets' : tickets'[t] = IF t = id THEN row ELSE tickets[t]
  BY <1>1 DEF With
<1>3. TypeOK'
  <2>1. \A t \in DOMAIN tickets' : tickets'[t] \in TicketRow(DOMAIN customers, DOMAIN devices)
    BY <1>2 DEF PlacesInv, TypeOK, TicketRow
  <2>2. QED BY <1>1, <1>2, <2>1 DEF PlacesInv, TypeOK, TicketRow, files, Answer
<1>4. Grows(customers, devices, tickets, issued, customers', devices', tickets', issued')
  BY <1>1, <1>2 DEF Grows, files
<1>5. RequestsOK'
  BY <1>1, <1>4, RequestsStay, IdleOK DEF PlacesInv, Answer
<1>6. PlacesAgree'
  BY <1>1, <1>2 DEF PlacesInv, PlacesAgree, TicketPlaced
<1>7. QED BY <1>3, <1>5, <1>6 DEF PlacesInv

-----------------------------------------------------------------------------
(* The other steps move nothing *)

LEMMA UpdateBranchPlaces ==
  ASSUME PlacesInv, NEW w \in Worker, UpdateBranch(w) \/ ToggleStatus(w)
  PROVE  PlacesInv'
<1> DEFINE id == req[w].id
           row == Over(req[w].change, branches[id])
<1>1. branches' = [branches EXCEPT ![id] = row] /\ Answer(w)
      /\ UNCHANGED <<members, customers, devices, tickets, files>>
  BY DEF UpdateBranch, ToggleStatus
<1>2. id \in Branch /\ req[w].change \in [name: Name] \cup [isActive: BOOLEAN]
  BY DEF PlacesInv, RequestsOK, RequestOK, UpdateBranch, ToggleStatus, Serves
<1>3. branches[id] \in [isActive: BOOLEAN, name: Name]
  BY <1>2 DEF PlacesInv, TypeOK
<1>4. row \in [isActive: BOOLEAN, name: Name]
  BY <1>2, <1>3, UpdatedBranch
<1> HIDE DEF row, id
<1>5. branches' \in [Branch -> [isActive: BOOLEAN, name: Name]]
  BY <1>1, <1>2, <1>4 DEF PlacesInv, TypeOK
<1>6. TypeOK'
  BY <1>1, <1>5 DEF PlacesInv, TypeOK, files, Answer
<1>7. QED BY <1>1, <1>6, Unmoved, IdleOK DEF Answer, files

LEMMA AssignBranchPlaces ==
  ASSUME PlacesInv, NEW w \in Worker, AssignBranch(w) \/ RemoveBranch(w), ~Refuse(w)
  PROVE  PlacesInv'
<1> DEFINE staff == req[w].id[1]
           b == req[w].id[2]
<1>1. staff \in Staff /\ b \in Branch
  BY DEF PlacesInv, RequestsOK, RequestOK, AssignBranch, RemoveBranch, Serves
<1>2. Answer(w) /\ UNCHANGED <<branches, customers, devices, tickets, files>>
  BY DEF AssignBranch, RemoveBranch
<1>3. \/ members' = [members EXCEPT ![staff] = members[staff] \cup {b}]
      \/ members' = [members EXCEPT ![staff] = members[staff] \ {b}]
  BY DEF AssignBranch, RemoveBranch
<1> HIDE DEF staff, b
<1>4. members' \in [Staff -> SUBSET Branch]
  BY <1>1, <1>3 DEF PlacesInv, TypeOK
<1>5. TypeOK'
  BY <1>2, <1>4 DEF PlacesInv, TypeOK, files, Answer
<1>6. QED BY <1>2, <1>5, Unmoved, IdleOK DEF Answer, files

LEMMA RowStepPlaces ==
  ASSUME PlacesInv, NEW w \in Worker, RowStep(w)
  PROVE  PlacesInv'
BY RefusePlaces, CustomerPlaces, DevicePlaces, TicketPlaces, UpdateBranchPlaces, AssignBranchPlaces DEF RowStep

LEMMA FileStepPlaces ==
  ASSUME PlacesInv, NEW w \in Worker, WriteFile(w) \/ StoreRow(w) \/ DeleteRow(w) \/ Unlink(w)
  PROVE  PlacesInv'
<1> USE DEF PlacesInv, TypeOK
<1>1. CASE WriteFile(w)
  <2>1. PICK k \in Key \ issued :
          /\ issued' = issued \cup {k}
          /\ disk' = disk \cup {k}
          /\ req' = [req EXCEPT ![w] = [op |-> "storeRow", ticket |-> req[w].ticket, key |-> k]]
    BY <1>1 DEF WriteFile
  <2>2. UNCHANGED <<rows, attachments, lost, begun, faults>>
    BY <1>1 DEF WriteFile
  <2>3. req[w].ticket \in DOMAIN tickets
    BY <1>1 DEF WriteFile, Serves, RequestsOK, RequestOK
  <2>4. RequestOK([op |-> "storeRow", ticket |-> req[w].ticket, key |-> k],
                  customers, devices, tickets, issued')
    BY <2>1, <2>3 DEF RequestOK, FileOps
  <2>5. TypeOK'
    BY <2>1, <2>2 DEF rows
  <2>6. QED BY <2>1, <2>2, <2>4, <2>5, Unmoved DEF rows
<1>2. CASE StoreRow(w)
  <2>1. req[w].ticket \in DOMAIN tickets /\ req[w].key \in issued
    BY <1>2 DEF StoreRow, Serves, RequestsOK, RequestOK, FileOps
  <2>2. /\ DOMAIN attachments' = DOMAIN attachments \cup {req[w].key}
        /\ \A k \in DOMAIN attachments' : attachments'[k] \in {attachments[x] : x \in DOMAIN attachments} \cup {req[w].ticket}
    BY <1>2 DEF StoreRow, With
  <2>3. UNCHANGED <<rows, disk, issued, lost>> /\ Answer(w)
    BY <1>2 DEF StoreRow
  <2>4. TypeOK'
    BY <2>1, <2>2, <2>3 DEF rows, Answer
  <2>5. QED BY <2>3, <2>4, Unmoved, IdleOK DEF rows, Answer
<1>3. CASE DeleteRow(w)
  <2>1. CASE req[w].key \notin DOMAIN attachments
    BY <1>3, <2>1, RefusePlaces DEF DeleteRow
  <2>2. CASE req[w].key \in DOMAIN attachments
    <3>1. attachments' = Without(req[w].key)
          /\ req' = [req EXCEPT ![w] = [op |-> "unlink", key |-> req[w].key]]
          /\ UNCHANGED <<rows, disk, issued, lost, begun, faults>>
      BY <1>3, <2>2 DEF DeleteRow
    <3>2. RequestOK([op |-> "unlink", key |-> req[w].key], customers, devices, tickets, issued')
      BY <2>2, <3>1 DEF RequestOK, FileOps
    <3>3. TypeOK'
      BY <3>1 DEF Without, rows
    <3>4. QED BY <3>1, <3>2, <3>3, Unmoved DEF rows
  <2>3. QED BY <2>1, <2>2
<1>4. CASE Unlink(w)
  <2>1. disk' = disk \ {req[w].key} /\ Answer(w) /\ UNCHANGED <<rows, attachments, issued, lost>>
    BY <1>4 DEF Unlink
  <2>2. TypeOK'
    BY <2>1 DEF rows, Answer
  <2>3. QED BY <2>1, <2>2, Unmoved, IdleOK DEF rows, Answer
<1>5. QED BY <1>1, <1>2, <1>3, <1>4

LEMMA FaultPlaces ==
  ASSUME PlacesInv, NEW ws \in SUBSET Worker, Fault(ws)
  PROVE  PlacesInv'
<1>1. UNCHANGED <<rows, attachments, disk, issued, begun>>
  BY DEF Fault
<1>2. faults' \in 0..MaxFaults
  BY RegistryAssumption DEF Fault, PlacesInv, TypeOK
<1>3. \A w \in Worker : Held(req[w]) \subseteq issued
  BY DEF PlacesInv, RequestsOK, RequestOK, Held, FileOps
<1>4. lost' \subseteq issued
  BY <1>3 DEF Fault, PlacesInv, TypeOK
<1>5. TypeOK'
  BY <1>1, <1>2, <1>4 DEF PlacesInv, TypeOK, rows
<1>6. RequestsOK'
  BY <1>1, IdleOK DEF PlacesInv, RequestsOK, Fault, rows
<1>7. PlacesAgree'
  BY <1>1 DEF PlacesInv, PlacesAgree, rows
<1>8. QED BY <1>5, <1>6, <1>7 DEF PlacesInv

LEMMA NextPlaces == PlacesInv /\ [Next]_vars => PlacesInv'
<1> SUFFICES ASSUME PlacesInv, [Next]_vars PROVE PlacesInv'
  OBVIOUS
<1>1. ASSUME NEW w \in Worker, Fail(w) PROVE PlacesInv'
  BY <1>1, FaultPlaces DEF Fail
<1>2. CASE Crash
  BY <1>2, FaultPlaces DEF Crash
<1>3. CASE UNCHANGED vars
  BY <1>3 DEF vars, files, rows, PlacesInv, TypeOK, RequestsOK, PlacesAgree
<1>4. QED BY <1>1, <1>2, <1>3, Steps, BeginStepPlaces, RowStepPlaces, FileStepPlaces

LEMMA AlwaysPlaces == Spec => []PlacesInv
BY InitPlaces, NextPlaces, PTL DEF Spec

\* Every row that refers to another refers to one that there is, after the
\* migration and whatever requests overlap.
THEOREM TypeCorrect == Spec => []TypeOK
<1>1. PlacesInv => TypeOK
  BY DEF PlacesInv
<1>2. QED BY <1>1, AlwaysPlaces, PTL

\* A ticket, its customer and its device stay in one branch: from any database the
\* migration accepts, for any number of requests.
THEOREM PlacesAlwaysAgree == Spec => []PlacesAgree
<1>1. PlacesInv => PlacesAgree
  BY DEF PlacesInv
<1>2. QED BY <1>1, AlwaysPlaces, PTL

-----------------------------------------------------------------------------
(* The audit trail *)

\* What a trail says of a row is in the row.
Told(word, row) == DOMAIN word \subseteq DOMAIN row /\ \A k \in DOMAIN word : word[k] = row[k]

Assignment(ms, p) == [assigned |-> p[2] \in ms[p[1]]]

\* Of every row that there is, and nothing of one that there is not: an id that a
\* new row is given has an empty trail.
TrailInv ==
  /\ DOMAIN trail = Branch \cup Customer \cup Device \cup Ticket \cup (Staff \X Branch)
  /\ \A b \in Branch : Told(trail[b], branches[b])
  /\ \A c \in Customer :
       IF c \in DOMAIN customers THEN Told(trail[c], customers[c]) ELSE trail[c] = Nothing
  /\ \A d \in Device :
       IF d \in DOMAIN devices THEN Told(trail[d], devices[d]) ELSE trail[d] = Nothing
  /\ \A t \in Ticket :
       IF t \in DOMAIN tickets THEN Told(trail[t], tickets[t]) ELSE trail[t] = Nothing
  /\ \A p \in Staff \X Branch : Told(trail[p], Assignment(members, p))

LEMMA KindsApart ==
  /\ Branch \cap Customer = {} /\ Branch \cap Device = {} /\ Branch \cap Ticket = {}
  /\ Branch \cap (Staff \X Branch) = {} /\ Customer \cap Device = {} /\ Customer \cap Ticket = {}
  /\ Customer \cap (Staff \X Branch) = {} /\ Device \cap Ticket = {}
  /\ Device \cap (Staff \X Branch) = {} /\ Ticket \cap (Staff \X Branch) = {}
<1> DEFINE K(i) == Kinds[i]
<1>1. \A i, j \in 1..5 : i # j => K(i) \cap K(j) = {}
  BY TrailAssumption
<1>2. K(1) = Branch /\ K(2) = Customer /\ K(3) = Device /\ K(4) = Ticket /\ K(5) = Staff \X Branch
  BY DEF Kinds
<1> HIDE DEF K
<1>3. /\ K(1) \cap K(2) = {} /\ K(1) \cap K(3) = {} /\ K(1) \cap K(4) = {} /\ K(1) \cap K(5) = {}
      /\ K(2) \cap K(3) = {} /\ K(2) \cap K(4) = {} /\ K(2) \cap K(5) = {}
      /\ K(3) \cap K(4) = {} /\ K(3) \cap K(5) = {} /\ K(4) \cap K(5) = {}
  BY <1>1
<1>4. QED BY <1>2, <1>3

\* A whole row in an audit row says all of it, whatever was said before.
LEMMA ToldWhole ==
  ASSUME NEW word, NEW row, DOMAIN word \subseteq DOMAIN row
  PROVE  Told(Over(row, word), row)
BY DEF Told, Over

\* One column of it leaves the others as they were said.
LEMMA ToldColumn ==
  ASSUME NEW word, NEW row \in [isActive: BOOLEAN, name: Name], Told(word, row), NEW v \in BOOLEAN
  PROVE  Told(Over([isActive |-> v], word), Over([isActive |-> v], row))
BY DEF Told, Over

LEMMA InitTrail == Init => TrailInv
<1> SUFFICES ASSUME Init PROVE TrailInv
  OBVIOUS
<1>1. DOMAIN trail = Branch \cup Customer \cup Device \cup Ticket \cup (Staff \X Branch)
      /\ \A e \in DOMAIN trail : trail[e] = Nothing
  <2> DEFINE K(i) == Kinds[i]
  <2>1. K(1) = Branch /\ K(2) = Customer /\ K(3) = Device /\ K(4) = Ticket /\ K(5) = Staff \X Branch
    BY DEF Kinds
  <2>2. trail = [e \in UNION {K(i) : i \in 1..5} |-> Nothing]
    BY DEF Init
  <2> HIDE DEF K
  <2>3. UNION {K(i) : i \in 1..5} = K(1) \cup K(2) \cup K(3) \cup K(4) \cup K(5)
    OBVIOUS
  <2>4. QED BY <2>1, <2>2, <2>3
<1>2. DOMAIN Nothing = {}
  BY DEF Nothing
<1>3. QED BY <1>1, <1>2 DEF TrailInv, Told

LEMMA CustomerTrail ==
  ASSUME PlacesInv, TrailInv, NEW w \in Worker, CreateCustomer(w) \/ UpdateCustomer(w), ~Refuse(w)
  PROVE  TrailInv'
<1>1. PICK id \in Customer, row \in CustomerRow :
        /\ customers' = With(customers, id, row)
        /\ trail' = [trail EXCEPT ![id] = Over(row, trail[id])]
        /\ UNCHANGED <<branches, members, devices, tickets>>
  BY CustomerWritten
<1>2. /\ DOMAIN customers' = DOMAIN customers \cup {id}
      /\ \A c \in DOMAIN customers' : customers'[c] = IF c = id THEN row ELSE customers[c]
  BY <1>1 DEF With
<1>3. DOMAIN trail[id] \subseteq DOMAIN row
  BY DEF TrailInv, Told, Nothing, PlacesInv, TypeOK, CustomerRow
<1>4. Told(Over(row, trail[id]), row)
  BY <1>3, ToldWhole
<1>5. DOMAIN trail' = DOMAIN trail /\ trail'[id] = Over(row, trail[id])
      /\ \A e \in DOMAIN trail \ {id} : trail'[e] = trail[e]
  BY <1>1 DEF TrailInv
<1>6. QED BY <1>1, <1>2, <1>4, <1>5, KindsApart DEF TrailInv

LEMMA DeviceTrail ==
  ASSUME PlacesInv, TrailInv, NEW w \in Worker, RegisterDevice(w) \/ UpdateDevice(w), ~Refuse(w)
  PROVE  TrailInv'
<1>1. PICK id \in Device, row \in DeviceRow(DOMAIN customers) :
        /\ devices' = With(devices, id, row)
        /\ trail' = [trail EXCEPT ![id] = Over(row, trail[id])]
        /\ UNCHANGED <<branches, members, customers, tickets>>
  BY DeviceWritten
<1>2. /\ DOMAIN devices' = DOMAIN devices \cup {id}
      /\ \A d \in DOMAIN devices' : devices'[d] = IF d = id THEN row ELSE devices[d]
  BY <1>1 DEF With
<1>3. DOMAIN trail[id] \subseteq DOMAIN row
  BY DEF TrailInv, Told, Nothing, PlacesInv, TypeOK, DeviceRow
<1>4. Told(Over(row, trail[id]), row)
  BY <1>3, ToldWhole
<1>5. DOMAIN trail' = DOMAIN trail /\ trail'[id] = Over(row, trail[id])
      /\ \A e \in DOMAIN trail \ {id} : trail'[e] = trail[e]
  BY <1>1 DEF TrailInv
<1>6. QED BY <1>1, <1>2, <1>4, <1>5, KindsApart DEF TrailInv

LEMMA TicketTrail ==
  ASSUME PlacesInv, TrailInv, NEW w \in Worker, CreateTicket(w)
  PROVE  TrailInv'
<1>1. PICK id \in Ticket \ DOMAIN tickets, row \in TicketRow(DOMAIN customers, DOMAIN devices) :
        /\ tickets' = With(tickets, id, row)
        /\ trail' = [trail EXCEPT ![id] = Over(row, trail[id])]
        /\ UNCHANGED <<branches, members, customers, devices>>
  BY TicketWritten
<1>2. /\ DOMAIN tickets' = DOMAIN tickets \cup {id}
      /\ \A t \in DOMAIN tickets' : tickets'[t] = IF t = id THEN row ELSE tickets[t]
  BY <1>1 DEF With
<1>3. DOMAIN trail[id] \subseteq DOMAIN row
  BY DEF TrailInv, Nothing
<1>4. Told(Over(row, trail[id]), row)
  BY <1>3, ToldWhole
<1>5. DOMAIN trail' = DOMAIN trail /\ trail'[id] = Over(row, trail[id])
      /\ \A e \in DOMAIN trail \ {id} : trail'[e] = trail[e]
  BY <1>1 DEF TrailInv
<1>6. QED BY <1>1, <1>2, <1>4, <1>5, KindsApart DEF TrailInv

\* toggleStatus puts one column into its audit row, update the whole row.
LEMMA BranchTrail ==
  ASSUME PlacesInv, TrailInv, NEW w \in Worker, UpdateBranch(w) \/ ToggleStatus(w)
  PROVE  TrailInv'
<1> DEFINE id == req[w].id
           row == Over(req[w].change, branches[id])
           word == trail'[id]
<1>1. branches' = [branches EXCEPT ![id] = row]
      /\ UNCHANGED <<members, customers, devices, tickets>>
  BY DEF UpdateBranch, ToggleStatus
<1>2. id \in Branch /\ branches[id] \in [isActive: BOOLEAN, name: Name] /\ Told(trail[id], branches[id])
  BY DEF PlacesInv, RequestsOK, RequestOK, TypeOK, UpdateBranch, ToggleStatus, Serves, TrailInv
<1>3. DOMAIN trail' = DOMAIN trail /\ \A e \in DOMAIN trail \ {id} : trail'[e] = trail[e]
  BY <1>2 DEF UpdateBranch, ToggleStatus, Logged, TrailInv
<1>4. Told(word, row)
  <2>1. CASE UpdateBranch(w)
    <3>1. trail'[id] = Over(row, trail[id])
      BY <2>1, <1>2 DEF UpdateBranch, Logged, TrailInv
    <3>2. DOMAIN trail[id] \subseteq DOMAIN row
      BY <1>2 DEF Told, Over
    <3>3. QED BY <3>1, <3>2, ToldWhole
  <2>2. CASE ToggleStatus(w)
    <3>1. PICK v \in BOOLEAN : req[w].change = [isActive |-> v]
      BY <2>2 DEF PlacesInv, RequestsOK, RequestOK, ToggleStatus, Serves
    <3>2. row.isActive = v
      BY <3>1 DEF Over
    <3>3. trail'[id] = Over([isActive |-> v], trail[id])
      BY <2>2, <1>2, <3>2 DEF ToggleStatus, Logged, TrailInv
    <3>4. QED BY <1>2, <3>1, <3>3, ToldColumn
  <2>3. QED BY <2>1, <2>2
<1>5. branches'[id] = row /\ \A b \in Branch \ {id} : branches'[b] = branches[b]
  BY <1>1, <1>2 DEF PlacesInv, TypeOK
<1>6. Told(trail'[id], branches'[id])
  BY <1>4, <1>5
<1> HIDE DEF id, row, word
<1>7. QED BY <1>1, <1>2, <1>3, <1>5, <1>6, KindsApart DEF TrailInv

\* An assignment is said as it is, and those of others are as they were.
LEMMA MemberTrail ==
  ASSUME PlacesInv, TrailInv, NEW w \in Worker, AssignBranch(w) \/ RemoveBranch(w), ~Refuse(w)
  PROVE  TrailInv'
<1> DEFINE staff == req[w].id[1]
           b == req[w].id[2]
           p == <<staff, b>>
<1>1. staff \in Staff /\ b \in Branch /\ p \in Staff \X Branch /\ p[1] = staff /\ p[2] = b
  BY DEF PlacesInv, RequestsOK, RequestOK, AssignBranch, RemoveBranch, Serves
<1>2. UNCHANGED <<branches, customers, devices, tickets>>
  BY DEF AssignBranch, RemoveBranch
<1>3. \/ /\ members' = [members EXCEPT ![staff] = members[staff] \cup {b}]
         /\ trail' = [trail EXCEPT ![p] = Over([assigned |-> TRUE], trail[p])]
      \/ /\ members' = [members EXCEPT ![staff] = members[staff] \ {b}]
         /\ trail' = [trail EXCEPT ![p] = Over([assigned |-> FALSE], trail[p])]
  BY DEF AssignBranch, RemoveBranch, Logged
<1>4. members \in [Staff -> SUBSET Branch]
  BY DEF PlacesInv, TypeOK
<1>5. Told(trail[p], Assignment(members, p))
  BY <1>1 DEF TrailInv
<1> HIDE DEF staff, b, p
<1>6. \A q \in (Staff \X Branch) \ {p} : Assignment(members', q) = Assignment(members, q)
  <2> SUFFICES ASSUME NEW q \in (Staff \X Branch) \ {p} PROVE q[2] \in members'[q[1]] <=> q[2] \in members[q[1]]
    BY DEF Assignment
  <2>1. q[1] # staff \/ q[2] # b
    BY <1>1 DEF p
  <2>2. QED BY <1>3, <1>4, <2>1
<1>7. DOMAIN trail' = DOMAIN trail /\ \A e \in DOMAIN trail \ {p} : trail'[e] = trail[e]
  BY <1>3 DEF TrailInv
<1>8. Told(trail'[p], Assignment(members', p))
  <2>1. DOMAIN trail[p] \subseteq {"assigned"}
    BY <1>5 DEF Told, Assignment
  <2>2. trail'[p] = Over(Assignment(members', p), trail[p])
    <3>1. CASE members' = [members EXCEPT ![staff] = members[staff] \cup {b}]
               /\ trail' = [trail EXCEPT ![p] = Over([assigned |-> TRUE], trail[p])]
      <4>1. (p[2] \in members'[p[1]]) = TRUE
        BY <1>1, <1>4, <3>1
      <4>2. Assignment(members', p) = [assigned |-> TRUE]
        BY <4>1 DEF Assignment
      <4>3. QED BY <1>1, <3>1, <4>2 DEF TrailInv
    <3>2. CASE members' = [members EXCEPT ![staff] = members[staff] \ {b}]
               /\ trail' = [trail EXCEPT ![p] = Over([assigned |-> FALSE], trail[p])]
      <4>1. (p[2] \in members'[p[1]]) = FALSE
        BY <1>1, <1>4, <3>2
      <4>2. Assignment(members', p) = [assigned |-> FALSE]
        BY <4>1 DEF Assignment
      <4>3. QED BY <1>1, <3>2, <4>2 DEF TrailInv
    <3>3. QED BY <1>3, <3>1, <3>2
  <2>3. QED BY <2>1, <2>2, ToldWhole DEF Assignment
<1>9. QED BY <1>1, <1>2, <1>6, <1>7, <1>8, KindsApart DEF TrailInv

LEMMA NextTrail == PlacesInv /\ TrailInv /\ [Next]_vars => TrailInv'
<1> SUFFICES ASSUME PlacesInv, TrailInv, [Next]_vars PROVE TrailInv'
  OBVIOUS
<1>1. ASSUME UNCHANGED rows PROVE TrailInv'
  BY <1>1 DEF rows, TrailInv
<1>2. ASSUME NEW w \in Worker, BeginStep(w) PROVE TrailInv'
  <2>1. UNCHANGED rows
    BY <1>2 DEF BeginStep, Receive, BeginCreateCustomer, BeginUpdateCustomer, BeginRegisterDevice,
         BeginUpdateDevice, BeginCreateTicket, BeginUpdateBranch, BeginToggleStatus, BeginAssignBranch,
         BeginRemoveBranch, BeginUpload, BeginRemove
  <2>2. QED BY <1>1, <2>1
<1>3. ASSUME NEW w \in Worker, RowStep(w) PROVE TrailInv'
  <2>1. CASE Refuse(w)
    BY <2>1, <1>1 DEF Refuse
  <2>2. CASE ~Refuse(w)
    BY <1>3, <2>2, CustomerTrail, DeviceTrail, TicketTrail, BranchTrail, MemberTrail DEF RowStep
  <2>3. QED BY <2>1, <2>2
<1>4. ASSUME NEW w \in Worker, WriteFile(w) \/ StoreRow(w) \/ DeleteRow(w) \/ Unlink(w) PROVE TrailInv'
  BY <1>1, <1>4 DEF WriteFile, StoreRow, DeleteRow, Unlink, Refuse
<1>5. ASSUME NEW ws, Fault(ws) PROVE TrailInv'
  BY <1>1, <1>5 DEF Fault
<1>6. CASE UNCHANGED vars
  BY <1>1, <1>6 DEF vars
<1>7. QED BY <1>2, <1>3, <1>4, <1>5, <1>6, Steps DEF Fail, Crash

LEMMA TrailTells == PlacesInv /\ TrailInv => TrailTellsRows
<1> SUFFICES ASSUME PlacesInv, TrailInv, NEW e \in DOMAIN trail, NEW column \in DOMAIN trail[e]
             PROVE  trail[e][column] = RowOf(e)[column]
  BY DEF TrailTellsRows
<1>1. DOMAIN Nothing = {}
  BY DEF Nothing
<1>2. CASE e \in Branch
  BY <1>2, KindsApart DEF TrailInv, Told, RowOf
<1>3. CASE e \in Customer
  BY <1>1, <1>3, KindsApart DEF TrailInv, Told, RowOf
<1>4. CASE e \in Device
  BY <1>1, <1>4, KindsApart DEF TrailInv, Told, RowOf
<1>5. CASE e \in Ticket
  BY <1>1, <1>5, KindsApart DEF TrailInv, Told, RowOf
<1>6. CASE e \in Staff \X Branch
  BY <1>6, KindsApart DEF TrailInv, Told, RowOf, Assignment
<1>7. QED BY <1>2, <1>3, <1>4, <1>5, <1>6 DEF TrailInv

\* The audit trail alone tells what customers, devices, tickets, branches and their
\* staff are now, however many requests overlap on one row.
THEOREM TrailAlwaysTells == Spec => []TrailTellsRows
<1>1. Spec => []TrailInv
  BY InitTrail, NextTrail, AlwaysPlaces, PTL DEF Spec
<1>2. QED BY <1>1, AlwaysPlaces, TrailTells, PTL
=============================================================================
