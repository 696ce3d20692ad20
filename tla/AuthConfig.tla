----------------------------- MODULE AuthConfig -----------------------------
(* condenstation_auth_<user>.bin: the account a login obtained is saved by   *)
(* its QR thread, encrypted if the network state allows it, and loaded when  *)
(* the game starts.  The console may lose power at any time.  Only the token *)
(* of an account is kept; that a name and a token belong together is a       *)
(* matter of LogonFlow.  Saves may overlap, and share the file and the       *)
(* global cinfohash; loading runs before any other thread of the plugin.     *)
EXTENDS Naturals

CONSTANTS
  Users,       \* the PS3 users of the console
  Savers,      \* the QR threads that may run save_auth_config
  Tokens,      \* what logins yield
  NoToken,     \* the content of the zeroed token buffer
  Torn,        \* what is left of a token whose file was cut short
  Initial,     \* cinfohash before it is computed
  Garbage      \* a hash or a checksum two threads have spoilt

\* Tokens, hashes and threads are told apart.
ASSUME ValuesAssumption ==
  /\ NoToken \notin Tokens /\ Torn \notin Tokens /\ NoToken # Torn
  /\ Initial # Garbage /\ {Initial, Garbage} \cap (Users \cup Savers) = {}
  /\ Users \cap Savers = {} /\ {"empty", "full"} \cap Savers = {}

VARIABLES
  running,            \* the game is running, with the plugin loaded
  user,               \* CELL_SYSUTIL_USERID_CURRENT
  file,               \* the configuration file of each user
  pc,                 \* where each saving thread is
  accessToken,        \* dec_config.accessToken of each saving thread
  cih,                \* enc_config.cih of each
  cinfohash,          \* a user: the hash of that user's key
  table,              \* of crc32: "empty", "full" or the thread that fills it
  HasConfigLoaded, SteamAccessToken,
  loadedKind,         \* the kind of file loaded at start-up (ghost)
  refused,            \* start-up found encryption unavailable (ghost)
  obtained,           \* tokens each user's logins have yielded (ghost)
  lastSave,           \* what each user's last undisturbed save saved (ghost)
  disturbed           \* a save under way cannot be relied upon (ghost)

globalVars == <<HasConfigLoaded, SteamAccessToken>>
loadVars   == <<running, user, loadedKind, refused>>
saverVars  == <<pc, accessToken, cih>>
ghostVars  == <<obtained, lastSave, disturbed>>
vars == <<globalVars, loadVars, saverVars, ghostVars, file, cinfohash, table>>

Hashes == Users \cup {Initial, Garbage}

\* No file, an unknown header (the empty file among them), or a configuration;
\* one that is not whole has its header but was cut short behind it.
NoFile == [kind |-> "none"]
Empty  == [kind |-> "unknown"]
Files  ==
  {NoFile, Empty}
    \cup [kind : {"plain"}, token : Tokens, whole : BOOLEAN]
    \cup [kind : {"encrypted"}, token : Tokens, whole : BOOLEAN, cih : Hashes]

TypeOK ==
  /\ running \in BOOLEAN /\ user \in Users
  /\ file \in [Users -> Files]
  /\ pc \in [Savers -> {"idle", "build", "open", "check", "sum", "key", "hash", "record",
                      "write", "writePlain", "close"}]
  /\ accessToken \in [Savers -> Tokens \cup {NoToken}]
  /\ cih \in [Savers -> Hashes]
  /\ cinfohash \in Hashes \cup Savers /\ table \in {"empty", "full"} \cup Savers
  /\ HasConfigLoaded \in BOOLEAN /\ SteamAccessToken \in Tokens \cup {NoToken, Torn}
  /\ loadedKind \in {"none", "plain", "encrypted"} /\ refused \in BOOLEAN
  /\ obtained \in [Users -> SUBSET Tokens]
  /\ lastSave \in [Users -> Tokens \cup {NoToken}]
  /\ disturbed \in BOOLEAN

NoSaver ==
  /\ pc = [t \in Savers |-> "idle"]
  /\ accessToken = [t \in Savers |-> NoToken]
  /\ cih = [t \in Savers |-> Initial]

Init ==
  /\ running = FALSE /\ user \in Users
  /\ file = [u \in Users |-> NoFile]
  /\ NoSaver
  /\ cinfohash = Initial /\ table = "empty"
  /\ HasConfigLoaded = FALSE /\ SteamAccessToken = NoToken
  /\ loadedKind = "none" /\ refused = FALSE
  /\ obtained = [u \in Users |-> {}]
  /\ lastSave = [u \in Users |-> NoToken]
  /\ disturbed = FALSE

-----------------------------------------------------------------------------
(* load_auth_config, when the game starts.                                   *)

\* A fault: all users share one file.
FileOfAnyone(u) == CHOOSE v \in Users : TRUE

\* The file name contains the id of the user.
FileOf(u) == u

Configured(f) == f.kind \in {"plain", "encrypted"}
Content(f)    == IF Configured(f) /\ f.whole THEN f.token ELSE Torn

\* Two faults: a checksum that is not compared, and a file with an unknown
\* header that is not refused.
AcceptsAnySum(f, u, available) ==
  \/ f.kind = "plain"
  \/ f.kind = "encrypted" /\ available /\ f.cih = u
AcceptsUnknown(f, u, available) ==
  f.kind # "none" /\ (f.kind = "encrypted" => available /\ f.cih = u /\ f.whole)

\* A plain file is not checked any further.  An encrypted one must match the
\* hash of this user's key and its own checksum, which a torn file does not.
Accepts(f, u, available) ==
  \/ f.kind = "plain"
  \/ f.kind = "encrypted" /\ available /\ f.cih = u /\ f.whole

\* cellNetCtlGetState leaves cstate unset if it fails, so that encryption may
\* be found available or not whatever the network is like.
Start(u, available) ==
  LET f      == file[FileOf(u)]
      loaded == Accepts(f, u, available)
  IN  /\ ~running
      /\ running' = TRUE /\ user' = u
      /\ HasConfigLoaded' = loaded
      /\ SteamAccessToken' = IF loaded THEN Content(f) ELSE NoToken
      /\ cinfohash' = IF f.kind = "encrypted" /\ available THEN u ELSE Initial
      /\ table' = IF f.kind = "encrypted" /\ available THEN "full" ELSE "empty"
      /\ loadedKind' = IF loaded THEN f.kind ELSE "none"
      /\ refused' = (f.kind = "encrypted" /\ ~available)
      /\ UNCHANGED <<saverVars, ghostVars, file>>

-----------------------------------------------------------------------------
(* The rest of the plugin: an approved login, and a logon Steam refuses.     *)

Approved(t, token) ==
  /\ running
  /\ pc[t] = "idle"
  /\ pc' = [pc EXCEPT ![t] = "build"]
  /\ HasConfigLoaded' = TRUE /\ SteamAccessToken' = token
  /\ obtained' = [obtained EXCEPT ![user] = @ \cup {token}]
  /\ UNCHANGED <<loadVars, accessToken, cih, file, cinfohash, table, lastSave, disturbed>>

LogonRefused ==
  /\ running
  /\ HasConfigLoaded' = FALSE
  /\ UNCHANGED <<loadVars, saverVars, ghostVars, file, cinfohash, table, SteamAccessToken>>

-----------------------------------------------------------------------------
(* save_auth_config, in thread t.                                            *)

Goto(t, from, to) == running /\ pc[t] = from /\ pc' = [pc EXCEPT ![t] = to]

\* The file is open in thread t.
Saving(t) == pc[t] \in {"check", "sum", "key", "hash", "record", "write", "writePlain", "close"}
OtherSaves(t) == \E u \in Savers \ {t} : Saving(u)

Build(t) ==
  /\ Goto(t, "build", "open")
  /\ accessToken' = [accessToken EXCEPT ![t] = SteamAccessToken]
  /\ UNCHANGED <<globalVars, loadVars, ghostVars, cih, file, cinfohash, table>>

\* CELL_FS_O_TRUNC: the configuration saved before is gone.
OpenFile(t) ==
  /\ Goto(t, "open", "check")
  /\ file' = [file EXCEPT ![FileOf(user)] = Empty]
  /\ lastSave' = [lastSave EXCEPT ![user] = NoToken]
  /\ disturbed' = OtherSaves(t)
  /\ UNCHANGED <<globalVars, loadVars, accessToken, cih, cinfohash, table, obtained>>

OpenFails(t) ==
  /\ Goto(t, "open", "idle")
  /\ accessToken' = [accessToken EXCEPT ![t] = NoToken]
  /\ UNCHANGED <<globalVars, loadVars, ghostVars, cih, file, cinfohash, table>>

CheckEncryption(t) ==
  /\ \E available \in BOOLEAN : Goto(t, "check", IF available THEN "sum" ELSE "writePlain")
  /\ UNCHANGED <<globalVars, loadVars, ghostVars, accessToken, cih, file, cinfohash, table>>

\* crc32 fills its table if entry 0 is zero, so that a thread that comes while
\* another one is filling it may read entries that are not there yet.
HalfFilled(t) == table \in Savers \ {t}

\* The checksum of the data.  A worthless one is as good as a worthless hash:
\* the file is refused.
Sum(t) ==
  /\ Goto(t, "sum", "key")
  /\ table' = IF table = "empty" THEN t ELSE table
  /\ \/ UNCHANGED cih
     \/ HalfFilled(t) /\ cih' = [cih EXCEPT ![t] = Garbage]
  /\ UNCHANGED <<globalVars, loadVars, ghostVars, accessToken, file, cinfohash>>

\* generate_encryption_key_v1 computes the hash in the global itself: cinfohash
\* names the thread that is at it.
Key(t) ==
  /\ Goto(t, "key", "hash")
  /\ cinfohash' = t
  /\ table' = IF table = t THEN "full" ELSE table
  /\ UNCHANGED <<globalVars, loadVars, ghostVars, accessToken, cih, file>>

\* If another thread has touched the global meanwhile, the sum is worthless.
Hash(t) ==
  /\ Goto(t, "hash", "record")
  /\ \/ cinfohash' = IF cinfohash = t THEN user ELSE Garbage
     \/ HalfFilled(t) /\ cinfohash' = Garbage
  /\ UNCHANGED <<globalVars, loadVars, ghostVars, accessToken, cih, file, table>>

\* A fault: the hash is not recorded.
RecordForgotten(t) ==
  /\ Goto(t, "record", "write")
  /\ UNCHANGED <<globalVars, loadVars, ghostVars, accessToken, cih, file, cinfohash, table>>

\* output->cih = cinfohash, and the rest of encrypt_config_v1.
Record(t) ==
  /\ Goto(t, "record", "write")
  /\ cih' = [cih EXCEPT ![t] = IF @ = Garbage \/ cinfohash \in Savers THEN Garbage
                                   ELSE cinfohash]
  /\ UNCHANGED <<globalVars, loadVars, ghostVars, accessToken, file, cinfohash, table>>

\* What thread t writes; cellFsWrite calls do not overlap.
Written(t, whole) ==
  IF pc[t] = "writePlain"
    THEN [kind |-> "plain", token |-> accessToken[t], whole |-> whole]
    ELSE [kind |-> "encrypted", token |-> accessToken[t], whole |-> whole, cih |-> cih[t]]

Writing(t) == pc[t] \in {"write", "writePlain"}

\* The write may fail or be cut short, on a full disk; bytesWrite is not looked at.
Write(t) ==
  /\ running /\ Writing(t)
  /\ pc' = [pc EXCEPT ![t] = "close"]
  /\ \/ /\ file' = [file EXCEPT ![FileOf(user)] = Written(t, TRUE)]
        /\ UNCHANGED disturbed
     \/ /\ file' \in {file, [file EXCEPT ![FileOf(user)] = Written(t, FALSE)]}
        /\ disturbed' = TRUE
  /\ UNCHANGED <<globalVars, loadVars, accessToken, cih, cinfohash, table, obtained, lastSave>>

Close(t) ==
  /\ Goto(t, "close", "idle")
  /\ lastSave' = [lastSave EXCEPT ![user] = IF disturbed \/ OtherSaves(t) THEN NoToken
                                             ELSE accessToken[t]]
  /\ disturbed' = OtherSaves(t)
  /\ accessToken' = [accessToken EXCEPT ![t] = NoToken]
  /\ cih' = [cih EXCEPT ![t] = Initial]
  /\ UNCHANGED <<globalVars, loadVars, file, cinfohash, table, obtained>>

Save(t) ==
  \/ Build(t) \/ OpenFile(t) \/ OpenFails(t) \/ CheckEncryption(t)
  \/ Sum(t) \/ Key(t) \/ Hash(t) \/ Record(t) \/ Write(t) \/ Close(t)

-----------------------------------------------------------------------------
\* The player quits the game or the console loses power, at any point; a write
\* under way may have reached the disk in part.
Stop ==
  /\ running
  /\ running' = FALSE
  /\ file' \in {file} \cup {[file EXCEPT ![FileOf(user)] = Written(t, FALSE)] :
                              t \in {u \in Savers : Writing(u)}}
  /\ pc' = [t \in Savers |-> "idle"]
  /\ accessToken' = [t \in Savers |-> NoToken]
  /\ cih' = [t \in Savers |-> Initial]
  /\ cinfohash' = Initial /\ table' = "empty"
  /\ HasConfigLoaded' = FALSE /\ SteamAccessToken' = NoToken
  /\ loadedKind' = "none" /\ refused' = FALSE
  /\ disturbed' = FALSE
  /\ UNCHANGED <<user, obtained, lastSave>>

Next ==
  \/ \E u \in Users, available \in BOOLEAN : Start(u, available)
  \/ \E t \in Savers : Save(t) \/ \E token \in Tokens : Approved(t, token)
  \/ LogonRefused \/ Stop

Spec == Init /\ [][Next]_vars

-----------------------------------------------------------------------------
\* An encrypted configuration is loaded whole or not at all, whatever crash,
\* full disk or overlapping save wrote it: a configuration counts as loaded
\* with a token cut short only if it came from a plain file.
TornOnlyFromPlain ==
  HasConfigLoaded /\ SteamAccessToken = Torn => loadedKind = "plain"

\* The account in use is one the current PS3 user has signed in to.
OwnAccount ==
  HasConfigLoaded => SteamAccessToken \in obtained[user] \cup {Torn}

\* What an undisturbed save saved, encrypted or not, is what the next start
\* loads, unless it finds encryption unavailable or the user saves again.
SavedIsLoaded ==
  [][\A u \in Users :
       ~running /\ running' /\ user' = u /\ lastSave[u] # NoToken /\ ~refused'
         => HasConfigLoaded' /\ SteamAccessToken' = lastSave[u]]_vars

-----------------------------------------------------------------------------
(* Inductive strengthenings, for the proofs.                                 *)

\* The file of user u is one that a start can load, and has this token.
Holds(u, token) ==
  /\ Configured(file[u]) /\ file[u].whole /\ file[u].token = token
  /\ file[u].kind = "encrypted" => file[u].cih = u

\* Every token in a file, in a saving thread or in use was obtained by its user.
OwnerInv ==
  /\ OwnAccount /\ TornOnlyFromPlain
  /\ HasConfigLoaded => running
  /\ \A u \in Users : Configured(file[u]) => file[u].token \in obtained[u]
  /\ \A t \in Savers :
       /\ pc[t] # "idle" => running
       /\ pc[t] = "build" => SteamAccessToken \in obtained[user]
       /\ pc[t] \notin {"idle", "build"} => accessToken[t] \in obtained[user]

\* A save that nothing has disturbed so far is alone, and the hash it uses is
\* its own; what it leaves is what lastSave remembers.
AloneInv ==
  ~disturbed =>
    \A t \in Savers :
      /\ Saving(t) => \A u \in Savers : Saving(u) => u = t
      /\ pc[t] \in {"key", "hash", "record"} => cih[t] # Garbage
      /\ pc[t] = "hash" => cinfohash = t
      /\ pc[t] = "record" => cinfohash = user
      /\ pc[t] = "write" => cih[t] = user
      /\ pc[t] = "close" => Holds(user, accessToken[t])
\* A thread fills the table of crc32 at the beginning of its checksums.
SumInv ==
  /\ table \in Savers => pc[table] = "key"
  /\ \A t \in Savers : pc[t] \in {"idle", "build", "open", "check", "sum"} => cih[t] = Initial

SaveInv ==
  /\ AloneInv /\ SumInv
  /\ \A t \in Savers : Saving(t) => lastSave[user] = NoToken
  /\ \A u \in Users : lastSave[u] # NoToken => Holds(u, lastSave[u])
=============================================================================
