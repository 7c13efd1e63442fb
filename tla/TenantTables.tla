---------------------------- MODULE TenantTables ----------------------------
(***************************************************************************)
(* One tenant's users, data sources and schema documents: the functions of *)
(* isched_DatabaseManager.cpp over its database and the resolvers of       *)
(* isched_GqlExecutor.cpp that call them.                                  *)
(*                                                                         *)
(* Each function takes a connection from the tenant's pool, whichever is   *)
(* free; each statement is atomic; update_user and delete_user run two on  *)
(* one connection without a transaction.  A replace_schema_document whose  *)
(* COMMIT fails gives its connection back inside the transaction: that one *)
(* is called "open" here, the others "clean".  Until the process ends it   *)
(* keeps the write lock, and what it writes, tables included, is its own.  *)
(*                                                                         *)
(* Each table has one row, whose value is the number of the request that   *)
(* wrote it last.                                                          *)
(***************************************************************************)
EXTENDS Naturals, FiniteSets

CONSTANTS Threads, MaxRequests, MaxFaults, MaxRestarts

ASSUME TenantAssumption ==
    /\ IsFiniteSet(Threads)
    /\ MaxRequests \in Nat /\ MaxFaults \in Nat /\ MaxRestarts \in Nat

Rows  == {"user", "source", "document"}
Conns == {"clean", "open"}
Absent == 0

VARIABLES
    tables,    \* tables that are there
    db,        \* the committed rows
    txn,       \* a connection of the pool is inside a transaction ...
    view,      \* ... and sees these rows; the committed ones otherwise
    made,      \* tables made inside it
    call,      \* the request each thread is serving
    applied,   \* history: requests whose write was committed
    granted,   \* history: requests answered with success, their write included
    refused,   \* history: requests answered with an error that says nothing was written
    missed,    \* history: updateUsers whose user was deleted between their statements ...
    reborn,    \* ... and then made again before it was read back
    created,   \* history: how often the data source was created
    deleted,   \* history: deletions of it answered with success
    poisoned,  \* history: a COMMIT has failed
    requests, faults, restarts

data    == <<tables, db, txn, view, made>>
history == <<applied, granted, refused, missed, reborn, created, deleted, poisoned>>
bounds  == <<faults, restarts>>
vars    == <<data, call, history, requests, bounds>>

Values == 0..MaxRequests

Idle == [op |-> "idle"]

Call == {Idle}
   \cup [op : {"users", "sources", "documents"}]
   \cup [op : {"update", "delete"}, n : Values, conn : Conns]
   \cup [op : {"insert", "replace"}, n : Values, overwrite : BOOLEAN]
   \cup [op : {"fetch"}, n : Values, row : Rows]

TypeOK ==
    /\ tables \subseteq Rows /\ made \subseteq Rows
    /\ db \in [Rows -> Values] /\ view \in [Rows -> Values]
    /\ txn \in BOOLEAN /\ poisoned \in BOOLEAN
    /\ call \in [Threads -> Call]
    /\ applied \subseteq Values /\ granted \subseteq Values /\ refused \subseteq Values
    /\ missed \subseteq Values /\ reborn \subseteq Values
    /\ created \in Values /\ deleted \in Values
    /\ requests \in Values /\ faults \in 0..MaxFaults /\ restarts \in 0..MaxRestarts

Init ==
    /\ tables = {} /\ db = [r \in Rows |-> Absent] /\ txn = FALSE /\ view = db /\ made = {}
    /\ call = [t \in Threads |-> Idle]
    /\ applied = {} /\ granted = {} /\ refused = {} /\ poisoned = FALSE
    /\ missed = {} /\ reborn = {} /\ created = 0 /\ deleted = 0
    /\ requests = 0 /\ faults = 0 /\ restarts = 0

-----------------------------------------------------------------------------
(* Connections and statements                                              *)

Goto(t, c) == call' = [call EXCEPT ![t] = c]

\* The number of the request that begins.
Request(t) == call[t] = Idle /\ requests < MaxRequests /\ requests' = requests + 1

Fault == faults < MaxFaults /\ faults' = faults + 1

\* A thread keeps its connection between the statements of one function.
Holds(t, c) == call[t].op \in {"update", "delete"} /\ call[t].conn = c

Free(c) == c = "clean" \/ (txn /\ ~\E t \in Threads : Holds(t, c))

Tables(c) == IF c = "open" THEN tables \cup made ELSE tables

Read(c, r) == IF c = "open" THEN view[r] ELSE db[r]

\* The table is there, and no other connection holds the write lock.
CanWrite(c, r) == r \in Tables(c) /\ (c = "clean" => ~txn)

\* History: what a committed write of users does to the updates of others.
Note ==
    /\ missed' = IF db["user"] # Absent /\ db'["user"] = Absent
                 THEN missed \cup {call[t].n : t \in {u \in Threads : call[u].op = "update"}}
                 ELSE missed
    /\ reborn' = IF db["user"] = Absent /\ db'["user"] # Absent
                 THEN reborn \cup {n \in missed : \E t \in Threads : call[t].op = "fetch" /\ call[t].n = n}
                 ELSE reborn

\* Row r becomes v for all, or for the open transaction only.
Write(c, r, v, n) ==
    /\ view' = [view EXCEPT ![r] = v]
    /\ db' = IF c = "open" THEN db ELSE view'
    /\ applied' = IF c = "open" THEN applied ELSE applied \cup {n}
    /\ created' = IF r = "source" /\ Read(c, r) = Absent /\ v # Absent THEN created + 1 ELSE created
    /\ Note

NoWrite == UNCHANGED <<view, db, applied, created, missed, reborn>>

\* A request that ends with an error.
Refuse(t, n) == Goto(t, Idle) /\ refused' = refused \cup {n}

FetchRow(t, n, r) == Goto(t, [op |-> "fetch", n |-> n, row |-> r])

-----------------------------------------------------------------------------
(* Tables: initialize_tenant makes one after the other, ignoring failures  *)

\* CREATE TABLE IF NOT EXISTS on any connection.  A table that is not there cannot be made
\* beside an open transaction, and one made inside it is not there for the others.
Ensure(r) ==
    \E c \in Conns :
       /\ Free(c)
       /\ \/ /\ c = "clean" /\ ~txn
             /\ tables' = tables \cup {r}
             /\ UNCHANGED <<made, faults>>
          \/ /\ c = "clean" /\ txn
             /\ UNCHANGED <<tables, made, faults>>
          \/ /\ c = "open"
             /\ made' = made \cup ({r} \ tables)
             /\ UNCHANGED <<tables, faults>>
          \/ Fault /\ UNCHANGED <<tables, made>>

InitializeTenant(t) ==
    /\ Request(t)
    /\ Goto(t, [op |-> "users"])
    /\ UNCHANGED <<data, history, bounds>>

EnsureUsersTable(t) ==
    /\ call[t].op = "users"
    /\ Ensure("user")
    /\ Goto(t, [op |-> "sources"])
    /\ UNCHANGED <<db, txn, view, history, requests, restarts>>

EnsureDataSourcesTable(t) ==
    /\ call[t].op = "sources"
    /\ Ensure("source")
    /\ Goto(t, [op |-> "documents"])
    /\ UNCHANGED <<db, txn, view, history, requests, restarts>>

EnsureSchemaDocumentsTable(t) ==
    /\ call[t].op = "documents"
    /\ Ensure("document")
    /\ Goto(t, Idle)
    /\ UNCHANGED <<db, txn, view, history, requests, restarts>>

-----------------------------------------------------------------------------
(* Creation                                                                *)

\* Mutant: a duplicate key is not an error.
InsertAnyway(t, c, r, n) ==
    IF CanWrite(c, r)
    THEN /\ IF Read(c, r) = Absent THEN Write(c, r, n, n) ELSE NoWrite
         /\ FetchRow(t, n, r)
         /\ UNCHANGED refused
    ELSE Refuse(t, n) /\ NoWrite

\* An INSERT: a key that is there, or an error of SQLite, ends the request.
Insert(t, c, r, n) ==
    IF CanWrite(c, r) /\ Read(c, r) = Absent
    THEN /\ Write(c, r, n, n)
         /\ FetchRow(t, n, r)
         /\ UNCHANGED refused
    ELSE Refuse(t, n) /\ NoWrite

create_user(t, c, n) == Insert(t, c, "user", n)
create_data_source(t, c, n) == Insert(t, c, "source", n)
insert_schema_document(t, c, n) == Insert(t, c, "document", n)

\* createUser: the id is a hash of organization and email.
CreateUser(t) ==
    /\ Request(t)
    /\ \E c \in Conns : Free(c) /\ create_user(t, c, requests')
    /\ UNCHANGED <<tables, txn, made, granted, deleted, poisoned, bounds>>

\* createDataSource: the id is a hash of organization, name and URL.
CreateDataSource(t) ==
    /\ Request(t)
    /\ \E c \in Conns : Free(c) /\ create_data_source(t, c, requests')
    /\ UNCHANGED <<tables, txn, made, granted, deleted, poisoned, bounds>>

\* The row is read back for the answer.  One that is gone, or cannot be read, gives an
\* error that says the write was done.
Fetched(t, c, r) ==
    /\ call[t].op = "fetch" /\ call[t].row = r
    /\ Free(c)
    /\ \/ /\ granted' = IF Read(c, r) = Absent THEN granted ELSE granted \cup {call[t].n}
          /\ UNCHANGED faults
       \/ Fault /\ UNCHANGED granted
    /\ Goto(t, Idle)
    /\ UNCHANGED <<data, applied, refused, missed, reborn, created, deleted, poisoned, requests, restarts>>

\* get_user_by_id, get_data_source_by_id and get_schema_document_by_name.
FetchUser(t)     == \E c \in Conns : Fetched(t, c, "user")
FetchSource(t)   == \E c \in Conns : Fetched(t, c, "source")
FetchDocument(t) == \E c \in Conns : Fetched(t, c, "document")

-----------------------------------------------------------------------------
(* Users                                                                   *)

\* The first statement of update_user and delete_user.
Checked(t, c, op) ==
    /\ Free(c)
    /\ IF "user" \in Tables(c) /\ Read(c, "user") # Absent
       THEN /\ Goto(t, [op |-> op, n |-> requests', conn |-> c])
            /\ UNCHANGED refused
       ELSE Refuse(t, requests')

\* updateUser with something to set; one with nothing to set reads the row only.
UpdateUser(t) ==
    /\ Request(t)
    /\ \E c \in Conns : Checked(t, c, "update")
    /\ UNCHANGED <<data, applied, granted, missed, reborn, created, deleted, poisoned, bounds>>

DeleteUser(t) ==
    /\ Request(t)
    /\ \E c \in Conns : Checked(t, c, "delete")
    /\ UNCHANGED <<data, applied, granted, missed, reborn, created, deleted, poisoned, bounds>>

\* The second: a row that is gone by now is no error.
UpdateUserWrite(t) ==
    /\ call[t].op = "update"
    /\ LET c == call[t].conn
           found == Read(c, "user") # Absent
       IN  IF CanWrite(c, "user")
           THEN /\ IF found THEN Write(c, "user", call[t].n, call[t].n) ELSE NoWrite
                /\ FetchRow(t, call[t].n, "user")
                /\ UNCHANGED refused
           ELSE Refuse(t, call[t].n) /\ NoWrite
    /\ UNCHANGED <<tables, txn, made, granted, deleted, poisoned, requests, bounds>>

DeleteUserWrite(t) ==
    /\ call[t].op = "delete"
    /\ LET c == call[t].conn
       IN  IF CanWrite(c, "user")
           THEN /\ Write(c, "user", Absent, call[t].n)
                /\ granted' = granted \cup {call[t].n}
                /\ Goto(t, Idle) /\ UNCHANGED refused
           ELSE Refuse(t, call[t].n) /\ NoWrite /\ UNCHANGED granted
    /\ UNCHANGED <<tables, txn, made, deleted, poisoned, requests, bounds>>

-----------------------------------------------------------------------------
(* Data sources                                                            *)

\* One statement, and NotFound when it changed nothing.  An update without values only
\* looks whether the row is there.
update_data_source(t, c, n) ==
    IF CanWrite(c, "source") /\ Read(c, "source") # Absent
    THEN /\ Write(c, "source", n, n)
         /\ FetchRow(t, n, "source")
         /\ UNCHANGED refused
    ELSE Refuse(t, n) /\ NoWrite

UpdateDataSource(t) ==
    /\ Request(t)
    /\ \E c \in Conns : Free(c) /\ update_data_source(t, c, requests')
    /\ UNCHANGED <<tables, txn, made, granted, deleted, poisoned, bounds>>

delete_data_source(t, c, n) ==
    IF CanWrite(c, "source") /\ Read(c, "source") # Absent
    THEN /\ Write(c, "source", Absent, n)
         /\ deleted' = deleted + 1
         /\ granted' = granted \cup {n}
         /\ Goto(t, Idle) /\ UNCHANGED refused
    ELSE Refuse(t, n) /\ NoWrite /\ UNCHANGED <<deleted, granted>>

DeleteDataSource(t) ==
    /\ Request(t)
    /\ \E c \in Conns : Free(c) /\ delete_data_source(t, c, requests')
    /\ UNCHANGED <<tables, txn, made, poisoned, bounds>>

-----------------------------------------------------------------------------
(* uploadSchemaDocument                                                    *)

\* The table is made if need be; a document that exists is a conflict unless it is to be
\* overwritten.  A document that cannot be looked up counts as one that is not there.
Upload(t, overwrite) ==
    /\ Request(t)
    /\ Ensure("document")
    /\ \E c \in Conns :
          /\ Free(c)
          /\ LET exists == "document" \in Tables(c)' /\ Read(c, "document") # Absent
             IN  IF exists /\ ~overwrite
                 THEN Refuse(t, requests')
                 ELSE /\ Goto(t, [op |-> IF exists THEN "replace" ELSE "insert",
                                  n |-> requests', overwrite |-> overwrite])
                      /\ UNCHANGED refused
    /\ UNCHANGED <<db, txn, view, applied, granted, missed, reborn, created, deleted, poisoned, restarts>>

\* The queries schemaDocuments and schemaDocument make the table too.
SchemaDocuments(t) ==
    /\ Request(t)
    /\ Ensure("document")
    /\ UNCHANGED <<db, txn, view, call, history, restarts>>

\* Mutant: INSERT OR REPLACE.
UploadInsertReplaces(t) ==
    /\ call[t].op = "insert"
    /\ \E c \in Conns :
          /\ Free(c)
          /\ IF CanWrite(c, "document")
             THEN /\ Write(c, "document", call[t].n, call[t].n)
                  /\ FetchRow(t, call[t].n, "document")
                  /\ UNCHANGED refused
             ELSE Refuse(t, call[t].n) /\ NoWrite
    /\ UNCHANGED <<tables, txn, made, granted, deleted, poisoned, requests, bounds>>

\* insert_schema_document: another upload may have been faster.
UploadInsert(t) ==
    /\ call[t].op = "insert"
    /\ \E c \in Conns : Free(c) /\ insert_schema_document(t, c, call[t].n)
    /\ UNCHANGED <<tables, txn, made, granted, deleted, poisoned, requests, bounds>>

\* replace_schema_document: BEGIN IMMEDIATE fails inside a transaction and while
\* another connection holds the write lock; a failing UPDATE is rolled back.
UploadReplace(t) ==
    /\ call[t].op = "replace"
    /\ \E c \in Conns :
          /\ Free(c)
          /\ \/ /\ c = "clean" /\ CanWrite(c, "document")
                /\ Write(c, "document", call[t].n, call[t].n)
                /\ FetchRow(t, call[t].n, "document")
                /\ UNCHANGED <<refused, faults>>
             \/ /\ IF txn THEN UNCHANGED faults ELSE Fault
                /\ Refuse(t, call[t].n) /\ NoWrite
    /\ UNCHANGED <<tables, txn, made, granted, deleted, poisoned, requests, restarts>>

\* Mutant: the failed transaction's rows are there for all.
UploadCommitFailsHalf(t) ==
    /\ call[t].op = "replace" /\ CanWrite("clean", "document")
    /\ Fault
    /\ Write("clean", "document", call[t].n, call[t].n)
    /\ Refuse(t, call[t].n)
    /\ UNCHANGED <<tables, txn, made, granted, deleted, poisoned, requests, restarts>>

\* COMMIT fails and the function returns: where SQLite has not rolled back by itself,
\* the connection goes back to the pool inside its transaction.
UploadCommitFails(t) ==
    /\ call[t].op = "replace" /\ CanWrite("clean", "document")
    /\ Fault
    /\ txn' = TRUE /\ poisoned' = TRUE
    /\ view' = [view EXCEPT !["document"] = call[t].n]
    /\ Refuse(t, call[t].n)
    /\ UNCHANGED <<tables, made, db, applied, granted, missed, reborn, created, deleted, requests, restarts>>

-----------------------------------------------------------------------------

\* The process dies and comes back: what was not committed is gone.
Restart ==
    /\ restarts < MaxRestarts
    /\ restarts' = restarts + 1
    /\ txn' = FALSE /\ view' = db /\ made' = {}
    /\ call' = [t \in Threads |-> Idle]
    /\ UNCHANGED <<tables, db, history, requests, faults>>

Begin(t) ==
    \/ InitializeTenant(t)
    \/ CreateUser(t) \/ UpdateUser(t) \/ DeleteUser(t)
    \/ CreateDataSource(t) \/ UpdateDataSource(t) \/ DeleteDataSource(t)
    \/ \E overwrite \in BOOLEAN : Upload(t, overwrite)
    \/ SchemaDocuments(t)

Continue(t) ==
    \/ EnsureUsersTable(t) \/ EnsureDataSourcesTable(t) \/ EnsureSchemaDocumentsTable(t)
    \/ UpdateUserWrite(t) \/ DeleteUserWrite(t)
    \/ UploadInsert(t) \/ UploadReplace(t) \/ UploadCommitFails(t)
    \/ FetchUser(t) \/ FetchSource(t) \/ FetchDocument(t)

Next == (\E t \in Threads : Begin(t) \/ Continue(t)) \/ Restart

Spec == Init /\ [][Next]_vars

-----------------------------------------------------------------------------
(* Properties                                                              *)

\* A document that is there is only ever changed by an upload that asked to overwrite:
\* not by one that found no document and was overtaken by another.
NoSilentOverwrite ==
    [][(db["document"] # Absent /\ db'["document"] # db["document"])
       => \E t \in Threads : call[t].op = "replace" /\ call[t].overwrite
                               /\ call[t].n = db'["document"]]_vars

\* A request answered with success, a deletion too, has its write in the committed database,
\* but for a COMMIT that failed before, and for an updateUser whose user was deleted between
\* its two statements and made again before it read the row back.
SuccessIsCommitted == ~poisoned => granted \subseteq applied \cup reborn

\* Each data source that was deleted was deleted by exactly one of the requests that
\* answered so, however many overlapped.
DeletedOnce == ~poisoned => deleted + (IF db["source"] = Absent THEN 0 ELSE 1) = created

\* Nobody reads what a request wrote that answered with an error, unless its COMMIT
\* failed and the connection inside its transaction is still in the pool.
ErrorLeavesNothing ==
    \A r \in Rows : db[r] \notin refused /\ (view[r] \in refused => txn)

\* What a successful answer means, in every state: the types, a committed write, and one
\* deletion for each row of delete_data_source.
SuccessInv == TypeOK /\ SuccessIsCommitted /\ DeletedOnce
=============================================================================
