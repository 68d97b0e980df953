--------------------------- MODULE ClientService ---------------------------
(***************************************************************************)
(* The client registry (ClientService.java).  Every method is synchronized *)
(* and saves before it returns, so each is one step of the registry; what  *)
(* is not one step, a mutation and its audit entry, is in ApiHandlers.     *)
(*                                                                         *)
(* A record is the serial number of the request that wrote its             *)
(* authorization: id, secret hash, name and createdAt never change.        *)
(***************************************************************************)
EXTENDS Integers

CONSTANT ClientIds   \* the ids the random generator may return

VARIABLES
  clients,      \* ClientService.clients: per id, the record, or 0
  clientsFile,  \* the clients document
  minted        \* every client id generated so far

registry == <<clients, clientsFile, minted>>

NoClients == [c \in ClientIds |-> 0]

ClientsInit == clients = NoClients /\ clientsFile = NoClients /\ minted = {}

\* The constructor loads the document; a crash forgets what it loaded.
ClientsLoad == clients' = clientsFile /\ UNCHANGED <<clientsFile, minted>>
ClientsForget == clients' = NoClients /\ UNCHANGED <<clientsFile, minted>>

\* Mutant of Persist: the mutation is not saved.
PersistNothing == UNCHANGED clientsFile

\* persist() returns, or throws before or after the new document is in place.
Persist == clientsFile' = clients'
PersistFails == clientsFile' \in {clientsFile, clients'}

\* The mutations, each up to its persist().
Register(c, serial) ==
  /\ c \notin minted
  /\ minted' = minted \union {c}
  /\ clients' = [clients EXCEPT ![c] = serial]

\* Mutant of Remove: marks the record instead of removing it.
RemoveMarks(c) ==
  /\ clients[c] # 0
  /\ clients' = [clients EXCEPT ![c] = -1]
  /\ UNCHANGED minted

Remove(c) ==
  /\ clients[c] # 0
  /\ clients' = [clients EXCEPT ![c] = 0]
  /\ UNCHANGED minted

SetAuthorization(c, serial) ==
  /\ clients[c] # 0
  /\ clients' = [clients EXCEPT ![c] = serial]
  /\ UNCHANGED minted

\* Mutant of Authenticates: any id once handed out will do.
AuthenticatesMinted(c) == c \in minted

\* authenticate() with the client's secret finds it (no caller disables one).
Authenticates(c) == clients[c] # 0

=============================================================================
