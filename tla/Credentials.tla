---------------------------- MODULE Credentials ----------------------------
(***************************************************************************)
(* The two keys of a deployment: how the API loads, completes, writes and  *)
(* prints them when it boots (api/internal/auth/credentials.go,            *)
(* api/cmd/server/main.go), and how the Postfix container takes its copy   *)
(* of the internal one when it starts (postfix/entrypoint.sh).             *)
(*                                                                         *)
(* Both containers restart whenever they exit (docker-compose.yml), so     *)
(* each of them may stop between any two steps and start again, in any     *)
(* order.  os.WriteFile truncates the file and then writes it: a stop or a *)
(* failed write in between leaves a file that is not JSON.                 *)
(***************************************************************************)
EXTENDS Integers

CONSTANTS
    Installs,       \* how the deployment begins: "fresh", "legacy"
    MaxFailures,    \* bound: crashes, failed writes, lost connections
    MaxRotations    \* bound: times the operator rotates the keys

ASSUME CredentialsAssumption ==
    /\ Installs \subseteq {"fresh", "legacy"}
    /\ MaxFailures \in Nat
    /\ MaxRotations \in Nat

None   == 0      \* an empty or absent key
Legacy == 1      \* the only key of an install from before the split

\* Every boot that draws keys follows the first start, a failure or a rotation.
Keys == 1 .. (1 + 2 * (1 + MaxFailures + MaxRotations))

Pair == [api : Keys \cup {None}, int : Keys \cup {None}]

\* .credentials: absent, or what a reader finds; whole when it parses.
File == [there : BOOLEAN, whole : BOOLEAN, api : Keys \cup {None},
         int : Keys \cup {None}]

VARIABLES
    file,              \* data/.credentials, shared by both containers
    apc,               \* what the API process does next
    mem,               \* the keys it holds
    created,           \* CredentialChanges
    ppc, token,        \* the Postfix container and its .ingest-token
    nextKey,           \* the next key GenerateToken draws
    printed,           \* history: per key, how often it was printed
    retired,           \* history: keys an operator rotated away
    failures, rotations

bootVars    == <<file, apc, mem, created, nextKey, printed, retired>>
postfixVars == <<ppc, token>>
spent       == <<failures, rotations>>
credVars    == <<bootVars, postfixVars, spent>>

NoFile  == [there |-> FALSE, whole |-> FALSE, api |-> None, int |-> None]
NoKeys  == [api |-> None, int |-> None]
Nothing == [api |-> FALSE, int |-> FALSE]

\* A file cut short after some of its lines.
CutShort(a, i) == [there |-> TRUE, whole |-> FALSE, api |-> a, int |-> i]

Broken  == file.there /\ ~file.whole
Serving == apc = "serve"

CredInit ==
    /\ \/ /\ "fresh" \in Installs
          /\ file = NoFile
          /\ ppc = "down" /\ token = None
       \/ /\ "legacy" \in Installs
          /\ file = [there |-> TRUE, whole |-> TRUE, api |-> Legacy, int |-> None]
          /\ ppc \in {"down", "up"} /\ token = Legacy
    /\ apc = "down"
    /\ mem = NoKeys
    /\ created = Nothing
    /\ nextKey = Legacy + 1
    /\ printed = [k \in Keys |-> 0]
    /\ retired = {}
    /\ failures = 0
    /\ rotations = 0

----------------------------------------------------------------------------
(* The API boots. *)

\* A file that is there and does not parse ends the process, which Docker starts
\* again to the same end.  Mutant: such a file is taken for an absent one.
ReadableAlways == TRUE
Readable == ~Broken

\* LoadOrCreateCredentials reads the file and draws the keys it lacks.
Load ==
    /\ apc = "down"
    /\ Readable
    /\ LET noApi == ~file.whole \/ file.api = None
           noInt == ~file.whole \/ file.int = None
           drawn == (IF noApi THEN 1 ELSE 0) + (IF noInt THEN 1 ELSE 0)
       IN  /\ mem' = [api |-> IF noApi THEN nextKey ELSE file.api,
                      int |-> IF noInt THEN nextKey + drawn - 1 ELSE file.int]
           /\ created' = [api |-> noApi, int |-> noInt]
           /\ nextKey' = nextKey + drawn
           /\ apc' = IF drawn = 0 THEN "serve" ELSE "truncate"
    /\ UNCHANGED <<file, printed, retired, postfixVars, spent>>

\* writeCredentials: os.WriteFile opens with O_TRUNC, then writes.
Truncate ==
    /\ apc = "truncate"
    /\ file' = CutShort(None, None)
    /\ apc' = "write"
    /\ UNCHANGED <<mem, created, nextKey, printed, retired, postfixVars, spent>>

\* Mutant: only a new external key is worth saving.
WriteExternalOnly ==
    /\ apc = "write"
    /\ file' = [there |-> TRUE, whole |-> TRUE, api |-> mem.api,
                int |-> IF created.api THEN mem.int ELSE None]
    /\ apc' = "print"
    /\ UNCHANGED <<mem, created, nextKey, printed, retired, postfixVars, spent>>

Write ==
    /\ apc = "write"
    /\ file' = [there |-> TRUE, whole |-> TRUE, api |-> mem.api, int |-> mem.int]
    /\ apc' = "print"
    /\ UNCHANGED <<mem, created, nextKey, printed, retired, postfixVars, spent>>

\* The disk is full after some of the lines; main exits.  Mutant: the error is
\* overlooked and the boot goes on.
WriteFailsUnseen ==
    /\ apc = "write"
    /\ failures < MaxFailures
    /\ file' = CutShort(mem.api, None)
    /\ apc' = "print"
    /\ failures' = failures + 1
    /\ UNCHANGED <<mem, created, nextKey, printed, retired, postfixVars, rotations>>

WriteFails ==
    /\ apc = "write"
    /\ failures < MaxFailures
    /\ file' \in {CutShort(None, None), CutShort(mem.api, None),
                  CutShort(mem.api, mem.int)}
    /\ apc' = "down"
    /\ mem' = NoKeys
    /\ failures' = failures + 1
    /\ UNCHANGED <<created, nextKey, printed, retired, postfixVars, rotations>>

\* main prints both keys when both are new, the internal one when only it is.
ToPrint == IF created.int THEN IF created.api THEN {mem.api, mem.int} ELSE {mem.int}
                          ELSE {}

PrintKeys ==
    /\ apc = "print"
    /\ printed' = [k \in Keys |-> IF k \in ToPrint THEN printed[k] + 1 ELSE printed[k]]
    /\ apc' = "serve"
    /\ UNCHANGED <<file, mem, created, nextKey, retired, postfixVars, spent>>

\* The process is gone, whatever it was doing.
APIDown ==
    /\ apc' = "down"
    /\ mem' = NoKeys
    /\ created' = Nothing

Crash ==
    /\ apc # "down"
    /\ failures < MaxFailures
    /\ APIDown
    /\ failures' = failures + 1
    /\ UNCHANGED <<file, nextKey, printed, retired, postfixVars, rotations>>

----------------------------------------------------------------------------
(* The Postfix container. *)

\* Mutant: an empty token is copied like any other.
StartPostfixUnchecked ==
    /\ ppc = "down"
    /\ file.there
    /\ ppc' = "up"
    /\ token' = file.int
    /\ UNCHANGED <<bootVars, spent>>

\* ingest_refresh_token: no file, or no internal_key in it, ends the container.
StartPostfix ==
    /\ ppc = "down"
    /\ file.there /\ file.int # None
    /\ ppc' = "up"
    /\ token' = file.int
    /\ UNCHANGED <<bootVars, spent>>

CrashPostfix ==
    /\ ppc = "up"
    /\ failures < MaxFailures
    /\ ppc' = "down"
    /\ failures' = failures + 1
    /\ UNCHANGED <<bootVars, token, rotations>>

\* After an upgrade the operator restarts both containers (docs/deployment.md).
ReloadPostfix ==
    /\ ppc = "up"
    /\ token = Legacy
    /\ file.int # None
    /\ ppc' = "down"
    /\ UNCHANGED <<bootVars, token, spent>>

\* "stop stack, delete file, restart" (docs/development.md).
Rotate ==
    /\ rotations < MaxRotations
    /\ file.there
    /\ file' = NoFile
    /\ retired' = retired \cup ({file.api, file.int} \ {None})
    /\ APIDown
    /\ ppc' = "down"
    /\ rotations' = rotations + 1
    /\ UNCHANGED <<nextKey, printed, token, failures>>

Boot == Load \/ Truncate \/ Write \/ PrintKeys

CredNext ==
    \/ Boot \/ WriteFails \/ Crash
    \/ StartPostfix \/ CrashPostfix \/ ReloadPostfix
    \/ Rotate

CredSpec == CredInit /\ [][CredNext]_credVars

(* Docker restarts a container that ended (restart: unless-stopped), and the *)
(* steps of a boot end.  Nobody is bound to rotate keys.                     *)
CredFairness == WF_credVars(Boot) /\ WF_credVars(StartPostfix)

CredFairSpec == CredSpec /\ CredFairness
----------------------------------------------------------------------------
(* Type invariant.                                                         *)
CredTypeOK ==
    /\ file \in File
    /\ apc \in {"down", "truncate", "write", "print", "serve"}
    /\ mem \in Pair
    /\ created \in [api : BOOLEAN, int : BOOLEAN]
    /\ ppc \in {"down", "up"}
    /\ token \in Keys \cup {None}
    /\ ppc = "up" => token # None
    /\ nextKey \in 2 .. (2 + 2 * (1 + MaxFailures + MaxRotations))
    /\ printed \in [Keys -> 0 .. 1]
    /\ retired \subseteq Keys
    /\ failures \in 0 .. MaxFailures
    /\ rotations \in 0 .. MaxRotations

(* A key the operator was shown keeps working until it is rotated: it is   *)
(* in a file that parses, through every crash (write, then print).         *)
PrintedKeysLast ==
    \A k \in Keys : printed[k] > 0 /\ k \notin retired
                      => file.whole /\ k \in {file.api, file.int}

(* The keys the API answers to are those it will load after a restart.     *)
ServesWhatIsSaved ==
    Serving => file.whole /\ file.api = mem.api /\ file.int = mem.int

(* Postfix holds the key the API asks for, or still the one from before    *)
(* the upgrade: no order of starts, crashes and rotations of the two       *)
(* containers leaves it with another.                                      *)
TokenAccepted == Serving /\ ppc = "up" => token \in {mem.int, Legacy}

(* Unless a half-written file stops the API for good, both containers come *)
(* up and stay up once the failures are over.                              *)
ComesUp == <>[]~Broken => <>[](Serving /\ ppc = "up")

(* docs/deployment.md:28: an upgrade keeps the existing api_key.  An API   *)
(* that is down finds it in the file when it boots the next time.          *)
ExistingKeyKept ==
    Installs = {"legacy"} /\ Legacy \notin retired /\ apc = "down"
        => file.whole /\ file.api = Legacy
============================================================================
