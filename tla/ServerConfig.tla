---------------------------- MODULE ServerConfig ----------------------------
(***************************************************************************)
(* ServerConfig.resolve: the environment first, then the arguments, one    *)
(* flag at a time, then the defaults and the ranges.                       *)
(*                                                                         *)
(* Four of the ten options stand for all: host for the other text          *)
(* (audience), port for the other numbers (TTL, Argon2 costs), issuer,     *)
(* whose default is made of two others, and the token file for the other   *)
(* path (data directory), which no blank value turns into the default.     *)
(***************************************************************************)
EXTENDS Checks, SequencesExt

CONSTANTS
  Offered,    \* the values tried for each option
  MaxFlags,   \* bound on the flags of a command line
  Absent,     \* not given
  Unresolved, \* the configuration while resolve runs
  Refused     \* and once it has thrown

VARIABLES
  env,    \* the variables of the environment
  args,   \* the flags read so far
  given,  \* resolve's locals
  config  \* what it returns

configVars == <<env, args, given, config>>

Options == {"host", "port", "issuer", "admin-token-file"}

\* The texts offered, the defaults, and what trimming and stripping make of them.
Texts == {"127.0.0.1", "8455", "7", "url"} \union UNION {Offered[o] : o \in Options}

Config == [host : Texts, port : Texts, issuer : {<<t>> : t \in Texts} \union (Texts \X Texts),
           tokenFile : Texts \union {Absent}]

ASSUME OfferedAssumption ==
  /\ Offered \in [Options -> SUBSET STRING] /\ MaxFlags \in Nat
  /\ Unresolved # Refused /\ Unresolved \notin Config /\ Refused \notin Config

Environments == {e \in [Options -> {Absent} \union UNION {Offered[o] : o \in Options}] :
                   \A o \in Options : e[o] \in {Absent} \union Offered[o]}

-----------------------------------------------------------------------------
(* Values.  " 7" is a number once it is trimmed, "-1" one out of range, and *)
(* "url/" a URL with the slash that the issuer is stripped of.             *)

Trim(v) == IF v = " 7" THEN "7" ELSE v
StripTrailingSlash(v) == IF v = "url/" THEN "url" ELSE v
IsBlank(v) == v = ""
IsInt(v) == v \in {"7", "8", "-1"}

\* envInt, or the variable as it is.
EnvValue(e, o) == IF o = "port" /\ e[o] # Absent THEN Trim(e[o]) ELSE e[o]

\* A port that Integer.parseInt takes.
Parses(o, v) == o = "port" /\ v # Absent => IsInt(v)

TextOr(v, default) == IF v # Absent /\ ~IsBlank(v) THEN v ELSE default
NumberOr(v, default) == IF v # Absent THEN v ELSE default

-----------------------------------------------------------------------------
(* resolve().                                                              *)

ConfigInit ==
  /\ env = [o \in Options |-> Absent]
  /\ args = <<>>
  /\ given = env
  /\ config = Unresolved

Resolving == config = Unresolved

\* The process starts with this environment, which resolve reads whole: a
\* number that is none throws, whether a flag overrides it or not.
ReadEnv(e) ==
  /\ env' = e
  /\ args' = <<>>
  /\ given' = [o \in Options |-> EnvValue(e, o)]
  /\ config' = IF \A o \in Options : Parses(o, given'[o]) THEN Unresolved ELSE Refused

\* Mutant of ReadFlag: the first flag is kept.
ReadFlagOnce(o, v) ==
  /\ Resolving /\ Len(args) < MaxFlags
  /\ args' = Append(args, [flag |-> o, value |-> v])
  /\ IF Parses(o, v)
     THEN /\ given' = IF \E i \in DOMAIN args : args[i].flag = o THEN given
                      ELSE [given EXCEPT ![o] = v]
          /\ UNCHANGED config
     ELSE config' = Refused /\ UNCHANGED given
  /\ UNCHANGED env

\* One turn of the loop.
ReadFlag(o, v) ==
  /\ Resolving /\ Len(args) < MaxFlags
  /\ args' = Append(args, [flag |-> o, value |-> v])
  /\ IF Parses(o, v)
     THEN given' = [given EXCEPT ![o] = v] /\ UNCHANGED config
     ELSE config' = Refused /\ UNCHANGED given
  /\ UNCHANGED env

\* An unknown argument, or a last flag without its value.
BadArgument ==
  /\ Resolving
  /\ args' = Append(args, [flag |-> Absent, value |-> Absent])
  /\ config' = Refused
  /\ UNCHANGED <<env, given>>

\* After the loop.
Resolve ==
  /\ Resolving
  /\ LET host == TextOr(given["host"], "127.0.0.1")
         port == NumberOr(given["port"], "8455")
         issuer == IF TextOr(given["issuer"], Absent) # Absent
                   THEN <<StripTrailingSlash(given["issuer"])>>
                   ELSE <<host, port>>
     IN config' = IF port = "-1" THEN Refused
                  ELSE [host |-> host, port |-> port, issuer |-> issuer,
                        tokenFile |-> given["admin-token-file"]]
  /\ UNCHANGED <<env, args, given>>

ConfigNext ==
  \/ \E o \in Options : \E v \in Offered[o] : ReadFlag(o, v)
  \/ BadArgument
  \/ Resolve

-----------------------------------------------------------------------------
(* Properties.                                                             *)

\* What the command line and the environment say of an option: the last flag,
\* else the variable.
FlagsOf(o) == {i \in DOMAIN args : args[i].flag = o}
Said(o) ==
  IF FlagsOf(o) = {} THEN EnvValue(env, o)
  ELSE args[CHOOSE i \in FlagsOf(o) : \A j \in FlagsOf(o) : j <= i].value

\* "CLI flags (highest priority), then environment variables, then sensible
\* defaults": each option has the value of its last flag, else of its variable,
\* else its default, blank texts counting as no text; the default issuer is
\* made of the host and the port that were resolved; and the program refuses
\* to start only for an argument it does not know, a number that is none, or a
\* resolved port out of range.
ConfigAsDocumented ==
  LET host == TextOr(Said("host"), "127.0.0.1")
      port == NumberOr(Said("port"), "8455")
  IN /\ config \notin {Unresolved, Refused} =>
          /\ config.host = host /\ config.port = port /\ port # "-1"
          /\ config.issuer = IF Said("issuer") \in {Absent, ""} THEN <<host, port>>
                             ELSE <<StripTrailingSlash(Said("issuer"))>>
          /\ config.tokenFile = Said("admin-token-file")
     /\ config = Refused =>
          \/ FlagsOf(Absent) # {} \/ port = "-1"
          \/ ~Parses("port", EnvValue(env, "port")) \/ ~Parses("port", Said("port"))

=============================================================================
