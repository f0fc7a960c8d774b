------------------------ MODULE Credentials_proofs ------------------------
(***************************************************************************)
(* The safety invariants of Credentials hold for any number of failures    *)
(* and rotations.                                                          *)
(***************************************************************************)
EXTENDS Credentials, TLAPS

Full == file.whole /\ file.api # None /\ file.int # None

\* Keys are drawn only by a boot that finds a file without them, and only the
\* first start, a failure or a rotation leaves such a file.
KeyBudget ==
    nextKey + (IF apc = "down" /\ ~Full THEN 2 ELSE 0)
      <= 4 + 2 * (failures + rotations)

\* What the file can look like.
FileShape ==
    /\ file.there \/ (~file.whole /\ file.api = None /\ file.int = None)
    /\ file.whole => file.there /\ file.api # None
    /\ file.api < nextKey /\ file.int < nextKey

\* What the file and the keys in memory look like at each step of a boot.
BootShape ==
    /\ apc # "down" => /\ mem.api # None /\ mem.int # None
                       /\ mem.api < nextKey /\ mem.int < nextKey
    /\ apc = "truncate" => ~Broken /\ file.int = None
    /\ apc = "write" => file.there /\ ~file.whole /\ file.api = None /\ file.int = None
    /\ apc \in {"print", "serve"} => /\ file.whole
                                     /\ file.api = mem.api
                                     /\ file.int = mem.int

\* A key that waits to be printed has not been printed.
FreshKeys ==
    /\ \A k \in Keys : k >= nextKey => printed[k] = 0
    /\ apc \in {"truncate", "write", "print"} =>
         /\ created.int => printed[mem.int] = 0
         /\ created.api => printed[mem.api] = 0

\* A printed key is in a file that no boot will write again.
PrintedFull ==
    \A k \in Keys : printed[k] > 0 /\ k \notin retired => Full /\ k \in {file.api, file.int}

\* Postfix's key is the one in the file, which is then never completed.
TokenInFile == ppc = "up" /\ token # Legacy => file.int = token

CredInv ==
    /\ CredTypeOK
    /\ KeyBudget
    /\ FileShape
    /\ BootShape
    /\ FreshKeys
    /\ PrintedFull
    /\ TokenInFile

LEMMA EmptyTypes == NoFile \in File /\ NoKeys \in Pair /\ Nothing \in [api : BOOLEAN, int : BOOLEAN]
BY SMT DEF NoFile, File, NoKeys, Pair, Nothing, None

LEMMA CredInitInv == CredInit => CredInv
<1> SUFFICES ASSUME CredInit PROVE CredInv
    OBVIOUS
<1> USE CredentialsAssumption DEF CredInit, CredTypeOK, KeyBudget, FileShape,
        BootShape, FreshKeys, PrintedFull, TokenInFile, Full, NoFile, NoKeys,
        Nothing, File, Pair, Keys, None, Legacy, Broken
<1>1. CredTypeOK
  <2>1. Legacy \in Keys /\ 0 \in 0 .. MaxFailures /\ 0 \in 0 .. MaxRotations
        BY SMT
  <2>2. file \in File
    <3>1. CASE file = NoFile
          BY <3>1, EmptyTypes, Zenon
    <3>2. CASE file = [there |-> TRUE, whole |-> TRUE, api |-> Legacy, int |-> None]
      <4>1. [there |-> TRUE, whole |-> TRUE, api |-> Legacy, int |-> None] \in File
            BY ONLY <2>1, SMT DEF File
      <4>. QED  BY <3>2, <4>1, Zenon
    <3>. QED  BY <3>1, <3>2, Zenon
  <2>3. mem \in Pair /\ created \in [api : BOOLEAN, int : BOOLEAN]
        BY SMT
  <2>4. printed \in [Keys -> 0 .. 1]
        BY SMT
  <2>. QED  BY <2>1, <2>2, <2>3, <2>4, SMT
<1>2. KeyBudget  BY SMTT(60)
<1>3. FileShape  BY SMTT(60)
<1>4. BootShape  BY SMTT(60)
<1>5. FreshKeys  BY SMTT(60)
<1>6. PrintedFull  BY SMTT(60)
<1>7. TokenInFile  BY SMTT(60)
<1>. QED  BY <1>1, <1>2, <1>3, <1>4, <1>5, <1>6, <1>7 DEF CredInv

LEMMA CredNextInv == CredInv /\ [CredNext]_credVars => CredInv'
<1> SUFFICES ASSUME CredInv, [CredNext]_credVars
             PROVE  CredInv'
    OBVIOUS
<1> USE CredentialsAssumption DEF CredInv, CredTypeOK, KeyBudget, FileShape, BootShape,
        FreshKeys, PrintedFull, TokenInFile, Full, NoFile, NoKeys, Nothing,
        File, Pair, Keys, None, Legacy, Broken
<1>1. CASE Load
  <2> USE <1>1 DEF Load, Readable, postfixVars, spent
  <2>1. CredTypeOK'  BY SMTT(60)
  <2>2. KeyBudget'  BY SMTT(60)
  <2>3. FileShape'  BY SMTT(60)
  <2>4. BootShape'  BY SMTT(60)
  <2>5. FreshKeys'
    <3>1. \A k \in Keys : k >= nextKey' => printed'[k] = 0
          BY SMT
    <3>2. mem'.int \in Keys \cup {None} /\ mem'.api \in Keys \cup {None}
          BY <2>1, Zenon
    <3>3. nextKey \in Int /\ nextKey >= 2
          BY SMT
    <3>4. created'.int => mem'.int = nextKey \/ mem'.int = nextKey + 1
      <4>1. created'.int = (~file.whole \/ file.int = None)
            BY ZenonT(30)
      <4>2. ~file.whole \/ file.int = None => mem'.int = nextKey \/ mem'.int = nextKey + 1
            BY <3>3, SMT
      <4>. QED  BY ONLY <4>1, <4>2, Zenon
    <3>5. created'.api => mem'.api = nextKey
      <4>1. created'.api = (~file.whole \/ file.api = None)
            BY ZenonT(30)
      <4>2. ~file.whole \/ file.api = None => mem'.api = nextKey
            BY <3>3, SMT
      <4>. QED  BY ONLY <4>1, <4>2, Zenon
    <3>6. \A k \in Keys : k >= nextKey => printed'[k] = 0
          BY SMT
    <3>7. created'.int => mem'.int \in Keys /\ printed'[mem'.int] = 0
          BY ONLY <3>2, <3>3, <3>4, <3>6, SMT DEF None, Keys
    <3>8. created'.api => mem'.api \in Keys /\ printed'[mem'.api] = 0
          BY ONLY <3>2, <3>3, <3>5, <3>6, SMT DEF None, Keys
    <3>. QED  BY ONLY <3>1, <3>7, <3>8, Zenon DEF FreshKeys
  <2>6. PrintedFull'  BY SMTT(60)
  <2>7. TokenInFile'  BY SMTT(60)
  <2>. QED  BY <2>1, <2>2, <2>3, <2>4, <2>5, <2>6, <2>7 DEF CredInv
<1>2. CASE Truncate
  <2> USE <1>2 DEF Truncate, CutShort, postfixVars, spent
  <2>1. CredTypeOK'
    <3>1. file' \in File
          BY SMT
    <3>. QED  BY <3>1, SMT
  <2>2. KeyBudget'  BY SMTT(60)
  <2>3. FileShape'  BY SMTT(60)
  <2>4. BootShape'  BY SMTT(60)
  <2>5. FreshKeys'  BY SMTT(60)
  <2>6. PrintedFull'  BY SMTT(60)
  <2>7. TokenInFile'  BY SMTT(60)
  <2>. QED  BY <2>1, <2>2, <2>3, <2>4, <2>5, <2>6, <2>7 DEF CredInv
<1>3. CASE Write
      BY <1>3, SMTT(60) DEF Write, postfixVars, spent
<1>4. CASE PrintKeys
      BY <1>4, SMTT(60) DEF PrintKeys, ToPrint, postfixVars, spent
<1>5. CASE WriteFails
  <2> USE <1>5 DEF WriteFails, postfixVars, spent
  <2>0. /\ file' \in File
        /\ file'.there /\ ~file'.whole
        /\ file'.api \in {None, mem.api} /\ file'.int \in {None, mem.int}
    <3>1. mem.api \in Keys \cup {None} /\ mem.int \in Keys \cup {None}
          BY SMT
    <3>2. CASE file' = CutShort(None, None)
          BY <3>1, <3>2, SMT DEF CutShort
    <3>3. CASE file' = CutShort(mem.api, None)
          BY <3>1, <3>3, SMT DEF CutShort
    <3>4. CASE file' = CutShort(mem.api, mem.int)
          BY <3>1, <3>4, SMT DEF CutShort
    <3>. QED  BY <3>2, <3>3, <3>4, Zenon
  <2>1. CredTypeOK'
    <3>1. mem' \in Pair
          BY EmptyTypes, Zenon
    <3>. QED  BY <2>0, <3>1, SMT
  <2>2. KeyBudget'  BY SMTT(60)
  <2>3. FileShape'  BY <2>0, SMTT(60)
  <2>4. BootShape'  BY SMTT(60)
  <2>5. FreshKeys'  BY SMTT(60)
  <2>6. PrintedFull'  BY SMTT(60)
  <2>7. TokenInFile'  BY SMTT(60)
  <2>. QED  BY <2>1, <2>2, <2>3, <2>4, <2>5, <2>6, <2>7 DEF CredInv
<1>6. CASE Crash
  <2> USE <1>6 DEF Crash, APIDown, postfixVars, spent
  <2>1. CredTypeOK'  BY SMTT(60)
  <2>2. KeyBudget'  BY SMTT(60)
  <2>3. FileShape'  BY SMTT(60)
  <2>4. BootShape'  BY SMTT(60)
  <2>5. FreshKeys'  BY SMTT(60)
  <2>6. PrintedFull'  BY SMTT(60)
  <2>7. TokenInFile'  BY SMTT(60)
  <2>. QED  BY <2>1, <2>2, <2>3, <2>4, <2>5, <2>6, <2>7 DEF CredInv
<1>7. CASE StartPostfix
      BY <1>7, SMTT(60) DEF StartPostfix, bootVars, spent
<1>8. CASE CrashPostfix
      BY <1>8, SMTT(60) DEF CrashPostfix, bootVars, spent
<1>9. CASE ReloadPostfix
      BY <1>9, SMTT(60) DEF ReloadPostfix, bootVars, spent
<1>10. CASE Rotate
  <2> USE <1>10 DEF Rotate, APIDown, postfixVars, spent
  <2>1. CredTypeOK'
    <3>1. file' \in File /\ mem' \in Pair /\ created' \in [api : BOOLEAN, int : BOOLEAN]
          BY EmptyTypes, Zenon
    <3>2. retired' \subseteq Keys
      <4>1. file.api \in Keys \cup {None} /\ file.int \in Keys \cup {None}
            BY SMT
      <4>. QED  BY <4>1
    <3>. QED  BY <3>1, <3>2, SMT
  <2>2. KeyBudget'  BY SMTT(60)
  <2>3. FileShape'  BY SMTT(60)
  <2>4. BootShape'  BY SMTT(60)
  <2>5. FreshKeys'  BY SMTT(60)
  <2>6. PrintedFull'  BY SMTT(60)
  <2>7. TokenInFile'  BY SMTT(60)
  <2>. QED  BY <2>1, <2>2, <2>3, <2>4, <2>5, <2>6, <2>7 DEF CredInv
<1>11. CASE UNCHANGED credVars
      BY <1>11, SMTT(60) DEF credVars, bootVars, postfixVars, spent
<1>. QED  BY <1>1, <1>2, <1>3, <1>4, <1>5, <1>6, <1>7, <1>8, <1>9, <1>10, <1>11
          DEF CredNext, Boot

LEMMA CredInvariant == CredSpec => []CredInv
BY CredInitInv, CredNextInv, PTL DEF CredSpec

(* Type correctness, and with it that every key is printed at most once.   *)
THEOREM CredTypeCorrect == CredSpec => []CredTypeOK
<1>1. CredInv => CredTypeOK  BY DEF CredInv
<1>. QED  BY <1>1, CredInvariant, PTL

(* A printed key works until it is rotated, through any number of crashes. *)
THEOREM PrintedLast == CredSpec => []PrintedKeysLast
<1>1. CredInv => PrintedKeysLast
      BY DEF CredInv, PrintedFull, PrintedKeysLast, Full
<1>. QED  BY <1>1, CredInvariant, PTL

(* The API never serves with keys it will not load again.                  *)
THEOREM SavedServed == CredSpec => []ServesWhatIsSaved
<1>1. CredInv => ServesWhatIsSaved
      BY DEF CredInv, BootShape, ServesWhatIsSaved, Serving
<1>. QED  BY <1>1, CredInvariant, PTL

(* Postfix's key is accepted by every API that serves, or is the legacy one. *)
THEOREM TokensAccepted == CredSpec => []TokenAccepted
<1>1. CredInv => TokenAccepted
      BY DEF CredInv, BootShape, TokenInFile, TokenAccepted, Serving
<1>. QED  BY <1>1, CredInvariant, PTL
============================================================================
