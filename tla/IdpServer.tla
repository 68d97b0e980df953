----------------------------- MODULE IdpServer -----------------------------
(***************************************************************************)
(* The server process: ServerMain.run resolves the configuration and the   *)
(* admin token, IdpServer.create builds the services over the documents of *)
(* the data directory and binds, and requests are routed until it stops.   *)
(* Any step of the start can end the process.                              *)
(*                                                                         *)
(* A document is absent, good, or garbled, that is one that Jackson or the *)
(* constructor fails on.  That of the signing keys may also be keyless:    *)
(* readable, but with no active key, as {} is, or what a hand edit leaves. *)
(* Whoever looks after the data directory may edit it while the process is *)
(* down.                                                                   *)
(***************************************************************************)
EXTENDS ServerConfig, Router

VARIABLES
  phase,   \* how far the process is
  built,   \* the number of services it has built
  files,   \* the documents on disk
  before,  \* history: the documents when the process started
  exit     \* how the last start failed, 0 if it did not

processVars == <<phase, built, files, before, exit>>
serverVars == <<processVars, configVars, exchange>>

Phases == {"down", "resolving", "authenticating", "building", "binding", "serving"}

\* What a document may be.
Contents(d) ==
  {"absent", "good", "garbled"} \union (IF d = "signing-keys" THEN {"keyless"} ELSE {})

\* What SigningKeyService mints a key over.
NoActiveKey == {"absent", "keyless"}

-----------------------------------------------------------------------------
ServerInit ==
  /\ phase = "down" /\ built = 0 /\ exit = 0
  /\ files = [d \in Documents |-> "absent"]
  /\ before = files
  /\ ConfigInit
  /\ exchange = NoExchange

\* What the rest of the model does not read any more.
DropConfig ==
  /\ env' = [o \in Options |-> Absent] /\ args' = <<>> /\ given' = env'
  /\ config' = Unresolved

\* The process ends; only the documents remain, and the code it exits with.
End(code) ==
  /\ phase' = "down" /\ built' = 0 /\ exit' = code
  /\ DropConfig
  /\ exchange' = NoExchange

\* An operator deletes, damages, restores or empties a document.
Edit(d, content) ==
  /\ phase = "down"
  /\ files' = [files EXCEPT ![d] = content]
  /\ before' = files' /\ exit' = 0
  /\ UNCHANGED <<phase, built, configVars, exchange>>

-----------------------------------------------------------------------------
(* The start: main, run and create.                                        *)

Launch(e) ==
  /\ phase = "down"
  /\ ReadEnv(e)
  /\ phase' = "resolving" /\ before' = files /\ exit' = 0
  /\ UNCHANGED <<built, files, exchange>>

Configure ==
  /\ phase = "resolving"
  /\ ConfigNext
  /\ phase' = IF config' \in {Unresolved, Refused} THEN phase ELSE "authenticating"
  /\ UNCHANGED <<built, files, before, exit, exchange>>

\* resolve threw an IllegalArgumentException.
ConfigRefused ==
  /\ phase = "resolving" /\ config = Refused
  /\ End(64)
  /\ UNCHANGED <<files, before>>

\* resolveAdminToken: a token in the environment, else one in the file, which
\* may be blank or not readable.
ResolveAdminToken(envToken, fileToken) ==
  /\ phase = "authenticating"
  /\ IF envToken = "token" \/ (config.tokenFile # Absent /\ fileToken = "token")
     THEN /\ phase' = "building"
          /\ UNCHANGED <<built, exit, exchange>>
          /\ DropConfig
     ELSE End(IF config.tokenFile # Absent /\ fileToken = "unreadable" THEN 74 ELSE 64)
  /\ UNCHANGED <<files, before>>

\* The service whose constructor is next, and its document.
NextToBuild(d) == phase = "building" /\ built < Len(Order) /\ d = Order[built + 1]

Built ==
  /\ built' = built + 1
  /\ phase' = IF built' = Len(Order) THEN "binding" ELSE phase
  /\ UNCHANGED <<before, exit, configVars, exchange>>

\* Mutants of Build: a document that cannot be read starts afresh; every
\* service saves the document that it starts with.
BuildAfresh(d) ==
  /\ NextToBuild(d) /\ Built
  /\ files' = IF files[d] = "garbled" THEN [files EXCEPT ![d] = "good"] ELSE files
BuildSaving(d) ==
  /\ NextToBuild(d) /\ files[d] # "garbled" /\ Built
  /\ files' = [files EXCEPT ![d] = "good"]

\* A constructor that finds its document, or does not need one.
Build(d) ==
  /\ NextToBuild(d)
  /\ files[d] # "garbled" /\ (d = "signing-keys" => files[d] \notin NoActiveKey)
  /\ Built
  /\ UNCHANGED files

\* SigningKeyService finds no active key, mints one and saves it, with whatever
\* keys it has read.
BuildMinting ==
  /\ NextToBuild("signing-keys") /\ files["signing-keys"] \in NoActiveKey
  /\ Built
  /\ files' = [files EXCEPT !["signing-keys"] = "good"]

\* The save throws, before or after the document is in place; an
\* UncheckedIOException, which main does not catch.
MintingFails ==
  /\ NextToBuild("signing-keys") /\ files["signing-keys"] \in NoActiveKey
  /\ End(1)
  /\ files' \in {files, [files EXCEPT !["signing-keys"] = "good"]}
  /\ UNCHANGED before

\* So does the load of a document that cannot be read.
BuildFails(d) ==
  /\ NextToBuild(d) /\ files[d] = "garbled"
  /\ End(1)
  /\ UNCHANGED <<files, before>>

Bind ==
  /\ phase = "binding"
  /\ phase' = "serving" /\ before' = files
  /\ UNCHANGED <<built, files, exit, configVars, exchange>>

\* The port is taken (74) or the host does not resolve (64).
BindFails ==
  /\ phase = "binding"
  /\ \E code \in {64, 74} : End(code)
  /\ UNCHANGED <<files, before>>

-----------------------------------------------------------------------------
(* Serving.                                                                *)

\* A step of the request, with the document that it saves, if any.
Serve ==
  /\ phase = "serving"
  /\ RouterNext
  /\ files' = [d \in Documents |-> IF d \in ToSet(exchange'.saved) THEN "good" ELSE files[d]]
  /\ UNCHANGED <<phase, built, before, exit, configVars>>

\* Mutant of Stop: the exchange outlives the process.
StopServing ==
  /\ phase # "down"
  /\ phase' = "down" /\ built' = 0 /\ before' = files
  /\ UNCHANGED <<exit, files, configVars, exchange>>

\* The process is stopped or killed, during the start or later.
Stop ==
  /\ phase # "down"
  /\ End(0)
  /\ before' = files
  /\ UNCHANGED files

ServerNext ==
  \/ \E d \in Documents : \E content \in Contents(d) : Edit(d, content)
  \/ \E e \in Environments : Launch(e)
  \/ Configure
  \/ ConfigRefused
  \/ \E envToken \in {"none", "token"}, fileToken \in {"unreadable", "none", "token"} :
       ResolveAdminToken(envToken, fileToken)
  \/ \E d \in Documents : Build(d) \/ BuildFails(d)
  \/ BuildMinting
  \/ MintingFails
  \/ Bind
  \/ BindFails
  \/ Serve
  \/ Stop

ServerSpec == ServerInit /\ [][ServerNext]_serverVars

-----------------------------------------------------------------------------
(* Properties.                                                             *)

ServerTypeOK ==
  /\ phase \in Phases /\ built \in 0 .. Len(Order) /\ exit \in {0, 1, 64, 74}
  /\ DOMAIN files = Documents /\ DOMAIN before = Documents
  /\ \A d \in Documents : files[d] \in Contents(d) /\ before[d] \in Contents(d)
  /\ env \in Environments /\ DOMAIN given = Options
  /\ Len(args) <= MaxFlags + 1
  /\ ExchangeTypeOK
  /\ phase # "serving" => exchange = NoExchange
  /\ phase # "resolving" => config # Refused

\* A start that fails leaves the data directory as it found it, but for a
\* signing key, minted where there was no active one: in no document, or in one
\* that had lost it.
FailedStartOnlyMints ==
  exit # 0 =>
    \A d \in Documents : \/ files[d] = before[d]
                         \/ d = "signing-keys" /\ before[d] \in NoActiveKey /\ files[d] = "good"

\* The process never writes over a document that it cannot read: not when it
\* starts, and not when requests save.
GarbledKept ==
  [][\A d \in Documents : phase # "down" /\ files[d] = "garbled" => files'[d] = "garbled"]_serverVars

=============================================================================
