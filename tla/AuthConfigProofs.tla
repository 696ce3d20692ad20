-------------------------- MODULE AuthConfigProofs --------------------------
(* AuthConfig for any users, threads and tokens: types, whose account is     *)
(* loaded, and that an undisturbed save is found again.                      *)
EXTENDS AuthConfig, TLAPS

\* What a write leaves behind, whole or not.
LEMMA WrittenFile ==
  ASSUME NEW t \in Savers, NEW whole \in BOOLEAN,
         accessToken[t] \in Tokens, cih[t] \in Hashes
  PROVE  LET f == Written(t, whole)
         IN  /\ f \in Files /\ Configured(f)
             /\ f.token = accessToken[t] /\ f.whole = whole
             /\ f.kind = "encrypted" => pc[t] # "writePlain" /\ f.cih = cih[t]
BY DEF Written, Files, Configured

-----------------------------------------------------------------------------
(* Types, and whose token is where.                                          *)

Owned == TypeOK /\ OwnerInv

LEMMA OwnedInit == Init => Owned
<1> SUFFICES ASSUME Init PROVE Owned  OBVIOUS
<1>1. /\ running \in BOOLEAN /\ HasConfigLoaded \in BOOLEAN /\ refused \in BOOLEAN
      /\ disturbed \in BOOLEAN
  BY Zenon DEF Init
<1>2. TypeOK
  BY <1>1 DEF Init, NoSaver, TypeOK, Files, NoFile, Hashes
<1>3. OwnerInv
  BY DEF Init, NoSaver, OwnerInv, OwnAccount, TornOnlyFromPlain, Configured, NoFile
<1> QED  BY <1>2, <1>3 DEF Owned

\* A file of a user is configured with a token of that user.
LEMMA StartOwned ==
  ASSUME Owned, NEW u \in Users, NEW available \in BOOLEAN, Start(u, available)
  PROVE  Owned'
<1> DEFINE f == file[u]
           loaded == Accepts(f, u, available)
<1>1. /\ ~running /\ running' = TRUE /\ user' = u
      /\ HasConfigLoaded' = loaded
      /\ SteamAccessToken' = IF loaded THEN Content(f) ELSE NoToken
      /\ cinfohash' = IF f.kind = "encrypted" /\ available THEN u ELSE Initial
      /\ table' = IF f.kind = "encrypted" /\ available THEN "full" ELSE "empty"
      /\ loadedKind' = IF loaded THEN f.kind ELSE "none"
      /\ refused' = (f.kind = "encrypted" /\ ~available)
      /\ UNCHANGED <<saverVars, ghostVars, file>>
  BY DEF Start, FileOf
<1>2. f \in Files /\ loaded \in BOOLEAN
  BY DEF Owned, TypeOK, Accepts
<1>3. loaded => Configured(f)
  BY DEF Accepts, Configured
<1>4. Configured(f) => f.token \in obtained[u] /\ f.token \in Tokens /\ f.whole \in BOOLEAN
  BY <1>2 DEF Owned, OwnerInv, Files, Configured, NoFile, Empty, TypeOK
<1>5. loaded /\ f.kind = "encrypted" => f.whole
  BY DEF Accepts
<1>6. Configured(f) => f.kind \in {"plain", "encrypted"}
  BY DEF Configured
<1>7. \A t \in Savers : pc[t] = "idle"
  BY <1>1 DEF Owned, OwnerInv
<1> HIDE DEF f, loaded
<1>8. Torn \notin Tokens /\ NoToken # Torn
  BY ValuesAssumption
<1>9. SteamAccessToken' \in Tokens \cup {NoToken, Torn}
  BY <1>1, <1>3, <1>4 DEF Content
<1>10. running' \in BOOLEAN /\ HasConfigLoaded' \in BOOLEAN /\ refused' \in BOOLEAN
  <2>1. running' \in BOOLEAN /\ HasConfigLoaded' \in BOOLEAN  BY <1>1, <1>2, Zenon
  <2>2. refused' \in BOOLEAN  BY <1>1, Zenon
  <2> QED  BY <2>1, <2>2
<1>11. TypeOK'
  BY <1>1, <1>3, <1>6, <1>9, <1>10 DEF Owned, TypeOK, saverVars, ghostVars, Hashes
<1>12. OwnerInv'
  <2>1. OwnAccount' /\ TornOnlyFromPlain'
    BY <1>1, <1>3, <1>4, <1>5, <1>6, <1>8 DEF OwnAccount, TornOnlyFromPlain, Content, ghostVars
  <2> QED
    BY <1>1, <1>7, <2>1 DEF Owned, OwnerInv, saverVars, ghostVars, Configured
<1> QED  BY <1>11, <1>12 DEF Owned

LEMMA OwnedStep == Owned /\ [Next]_vars => Owned'
<1> SUFFICES ASSUME Owned, [Next]_vars PROVE Owned'  OBVIOUS
<1> USE DEF Owned
<1> USE ValuesAssumption
<1>1. ASSUME NEW u \in Users, NEW available \in BOOLEAN, Start(u, available) PROVE Owned'
  BY <1>1, StartOwned
<1>2. ASSUME NEW t \in Savers, NEW token \in Tokens, Approved(t, token) PROVE Owned'
  <2>1. HasConfigLoaded' \in BOOLEAN  BY <1>2, Zenon DEF Approved
  <2>2. TypeOK'
    BY <1>2, <2>1 DEF Approved, TypeOK, loadVars
  <2>3. OwnerInv'
    BY <1>2 DEF Approved, TypeOK, OwnerInv, OwnAccount, TornOnlyFromPlain, loadVars, Configured
  <2> QED  BY <2>2, <2>3
<1>3. CASE LogonRefused
  <2>1. HasConfigLoaded' = FALSE /\ HasConfigLoaded' \in BOOLEAN
    BY <1>3, Zenon DEF LogonRefused
  <2>2. TypeOK'
    BY <1>3, <2>1 DEF LogonRefused, TypeOK, loadVars, saverVars, ghostVars
  <2>3. OwnerInv'
    BY <1>3, <2>1 DEF LogonRefused, OwnerInv, OwnAccount, TornOnlyFromPlain, loadVars,
                      saverVars, ghostVars, Configured
  <2> QED  BY <2>2, <2>3
<1>4. ASSUME NEW t \in Savers, Build(t) \/ OpenFails(t) \/ CheckEncryption(t) PROVE Owned'
  <2>1. TypeOK'
    BY <1>4 DEF Build, OpenFails, CheckEncryption, Goto, TypeOK, OwnerInv, globalVars, loadVars,
                ghostVars
  <2>2. OwnerInv'
    BY <1>4 DEF Build, OpenFails, CheckEncryption, Goto, TypeOK, OwnerInv, OwnAccount,
                TornOnlyFromPlain, globalVars, loadVars, ghostVars, Configured
  <2> QED  BY <2>1, <2>2
<1>5. ASSUME NEW t \in Savers, OpenFile(t) PROVE Owned'
  <2>1. disturbed' \in BOOLEAN  BY <1>5, Zenon DEF OpenFile, OtherSaves
  <2>2. TypeOK'
    BY <1>5, <2>1 DEF OpenFile, FileOf, Goto, TypeOK, Files, Empty, globalVars, loadVars
  <2>3. OwnerInv'
    BY <1>5 DEF OpenFile, FileOf, Goto, TypeOK, OwnerInv, OwnAccount, TornOnlyFromPlain, Empty,
                globalVars, loadVars, Configured
  <2> QED  BY <2>2, <2>3
<1>6. ASSUME NEW t \in Savers, Sum(t) \/ Key(t) \/ Hash(t) \/ Record(t) PROVE Owned'
  <2>1. TypeOK'
    BY <1>6 DEF Sum, Key, Hash, Record, Goto, TypeOK, Hashes, globalVars, loadVars, ghostVars
  <2>2. OwnerInv'
    BY <1>6 DEF Sum, Key, Hash, Record, Goto, TypeOK, OwnerInv, OwnAccount, TornOnlyFromPlain,
                globalVars, loadVars, ghostVars, Configured
  <2> QED  BY <2>1, <2>2
<1>7. ASSUME NEW t \in Savers, Write(t) PROVE Owned'
  <2>1. accessToken[t] \in obtained[user] /\ accessToken[t] \in Tokens /\ cih[t] \in Hashes
    BY <1>7 DEF Write, Writing, OwnerInv, TypeOK
  <2>2. PICK whole \in BOOLEAN :
          /\ file' \in {file, [file EXCEPT ![user] = Written(t, whole)]}
          /\ disturbed' \in BOOLEAN
    BY <1>7 DEF Write, FileOf, TypeOK
  <2>3. Written(t, whole) \in Files /\ Written(t, whole).token = accessToken[t]
    BY <2>1, WrittenFile
  <2>4. TypeOK'
    BY <1>7, <2>2, <2>3 DEF Write, TypeOK, globalVars, loadVars
  <2>5. OwnerInv'
    BY <1>7, <2>1, <2>2, <2>3 DEF Write, Writing, TypeOK, OwnerInv, OwnAccount, TornOnlyFromPlain,
                                  globalVars, loadVars, Configured
  <2> QED  BY <2>4, <2>5
<1>8. ASSUME NEW t \in Savers, Close(t) PROVE Owned'
  <2>1. disturbed' \in BOOLEAN  BY <1>8, Zenon DEF Close, OtherSaves
  <2>2. accessToken[t] \in Tokens
    BY <1>8 DEF Close, Goto, OwnerInv, TypeOK
  <2>3. TypeOK'
    BY <1>8, <2>1, <2>2 DEF Close, Goto, TypeOK, Hashes, globalVars, loadVars
  <2>4. OwnerInv'
    BY <1>8 DEF Close, Goto, TypeOK, OwnerInv, OwnAccount, TornOnlyFromPlain, globalVars, loadVars,
                Configured
  <2> QED  BY <2>3, <2>4
<1>9. CASE Stop
  <2>1. /\ running' \in BOOLEAN /\ HasConfigLoaded' = FALSE /\ HasConfigLoaded' \in BOOLEAN
        /\ refused' \in BOOLEAN /\ disturbed' \in BOOLEAN
    BY <1>9, Zenon DEF Stop
  <2>2. \/ file' = file
        \/ \E t \in Savers : /\ Written(t, FALSE) \in Files
                             /\ Written(t, FALSE).token \in obtained[user]
                             /\ file' = [file EXCEPT ![user] = Written(t, FALSE)]
    <3>1. SUFFICES ASSUME NEW t \in Savers, Writing(t),
                          file' = [file EXCEPT ![user] = Written(t, FALSE)]
                   PROVE  /\ Written(t, FALSE) \in Files
                          /\ Written(t, FALSE).token \in obtained[user]
      BY <1>9 DEF Stop, FileOf
    <3>2. accessToken[t] \in obtained[user] /\ accessToken[t] \in Tokens /\ cih[t] \in Hashes
      BY <3>1 DEF Writing, OwnerInv, TypeOK
    <3> QED  BY <3>2, WrittenFile
  <2>3. /\ pc' = [t \in Savers |-> "idle"]
        /\ accessToken' = [t \in Savers |-> NoToken]
        /\ cih' = [t \in Savers |-> Initial]
        /\ cinfohash' = Initial /\ table' = "empty" /\ SteamAccessToken' = NoToken /\ loadedKind' = "none"
        /\ UNCHANGED <<user, obtained, lastSave>>
    BY <1>9 DEF Stop
  <2>4. TypeOK'
    <3>1. file' \in [Users -> Files]
      BY <2>2 DEF TypeOK
    <3>2. pc' \in [Savers -> {"idle"}]
      BY <2>3
    <3>3. accessToken' \in [Savers -> Tokens \cup {NoToken}] /\ cih' \in [Savers -> Hashes]
      BY <2>3 DEF Hashes
    <3> QED
      BY <2>1, <2>3, <3>1, <3>2, <3>3 DEF TypeOK, Hashes
  <2>5. OwnerInv'
    BY <2>1, <2>2, <2>3 DEF TypeOK, OwnerInv, OwnAccount, TornOnlyFromPlain, Configured
  <2> QED  BY <2>4, <2>5
<1>10. CASE UNCHANGED vars
  BY <1>10 DEF vars, globalVars, loadVars, saverVars, ghostVars, TypeOK, OwnerInv, OwnAccount,
               TornOnlyFromPlain, Configured
<1> HIDE DEF Owned
<1> QED
  BY <1>1, <1>2, <1>3, <1>4, <1>5, <1>6, <1>7, <1>8, <1>9, <1>10 DEF Next, Save

LEMMA AlwaysOwned == Spec => []Owned
BY OwnedInit, OwnedStep, PTL DEF Spec

\* Every variable keeps its type.
THEOREM TypeCorrect == Spec => []TypeOK
<1>1. Owned => TypeOK  BY DEF Owned
<1> QED  BY <1>1, AlwaysOwned, PTL

\* Whatever stops, full disks and overlapping saves there were, the account in
\* use is the current user's own ...
THEOREM LoadedIsOwn == Spec => []OwnAccount
<1>1. Owned => OwnAccount  BY DEF Owned, OwnerInv
<1> QED  BY <1>1, AlwaysOwned, PTL

\* ... and a token cut short only comes from a plain file: load_auth_config's
\* checks of an encrypted one are enough.
THEOREM TornAlwaysPlain == Spec => []TornOnlyFromPlain
<1>1. Owned => TornOnlyFromPlain  BY DEF Owned, OwnerInv
<1> QED  BY <1>1, AlwaysOwned, PTL

-----------------------------------------------------------------------------
(* An undisturbed save is found again.                                       *)

LEMMA SavedInit == Init => SaveInv
BY ValuesAssumption DEF Init, NoSaver, SaveInv, AloneInv, SumInv, Saving

\* The threads that are saving are the ones past the open.
LEMMA SavingMoves ==
  ASSUME TypeOK, NEW t \in Savers, NEW to, pc' = [pc EXCEPT ![t] = to]
  PROVE  /\ pc'[t] = to
         /\ \A u \in Savers \ {t} : pc'[u] = pc[u] /\ (Saving(u)' <=> Saving(u))
BY DEF TypeOK, Saving

LEMMA SavedStep == Owned /\ SaveInv /\ [Next]_vars => SaveInv'
<1> SUFFICES ASSUME Owned, SaveInv, [Next]_vars PROVE SaveInv'  OBVIOUS
<1> USE ValuesAssumption
<1>0. TypeOK /\ OwnerInv  BY DEF Owned
\* Steps that leave the file and lastSave alone.
<1>1. ASSUME UNCHANGED <<file, lastSave>>, AloneInv', SumInv',
             \A t \in Savers : Saving(t)' => Saving(t) /\ user' = user
      PROVE  SaveInv'
  BY <1>1 DEF SaveInv, Holds, Configured
<1>2. ASSUME NEW u \in Users, NEW available \in BOOLEAN, Start(u, available) PROVE SaveInv'
  <2>1. \A t \in Savers : pc[t] = "idle" /\ pc'[t] = "idle"
    BY <1>0, <1>2 DEF Start, OwnerInv, saverVars
  <2>2. AloneInv'
    BY <2>1 DEF AloneInv, Saving
  <2>3. SumInv'
    BY <1>2, <2>1 DEF Start, SaveInv, SumInv, saverVars
  <2> QED
    BY <1>1, <1>2, <2>1, <2>2, <2>3 DEF Start, Saving, ghostVars
<1>3. ASSUME NEW t \in Savers, NEW token \in Tokens, Approved(t, token) PROVE SaveInv'
  <2>1. /\ pc'[t] = "build" /\ UNCHANGED <<user, file, lastSave, disturbed, cinfohash, table, cih, accessToken>>
        /\ \A u \in Savers \ {t} : pc'[u] = pc[u]
        /\ pc[t] = "idle"
    BY <1>0, <1>3 DEF Approved, TypeOK, loadVars
  <2> QED
    BY <1>1, <2>1 DEF SaveInv, AloneInv, SumInv, Saving, Holds, Configured
<1>4. CASE LogonRefused
  BY <1>4 DEF LogonRefused, SaveInv, AloneInv, SumInv, Saving, Holds, Configured, loadVars, saverVars,
              ghostVars
<1>5. ASSUME NEW t \in Savers, Build(t) \/ OpenFails(t) PROVE SaveInv'
  <2>1. /\ pc'[t] \in {"open", "idle"} /\ UNCHANGED <<user, file, lastSave, disturbed, cinfohash, table, cih>>
        /\ \A u \in Savers \ {t} : pc'[u] = pc[u] /\ accessToken'[u] = accessToken[u]
        /\ pc[t] \in {"build", "open"}
    BY <1>0, <1>5 DEF Build, OpenFails, Goto, TypeOK, loadVars, ghostVars
  <2> QED
    BY <1>1, <2>1 DEF SaveInv, AloneInv, SumInv, Saving, Holds, Configured
<1>6. ASSUME NEW t \in Savers, OpenFile(t) PROVE SaveInv'
  <2>1. /\ pc'[t] = "check" /\ user' = user /\ disturbed' = OtherSaves(t)
        /\ lastSave'[user] = NoToken
        /\ \A u \in Users \ {user} : lastSave'[u] = lastSave[u] /\ file'[u] = file[u]
        /\ \A u \in Savers \ {t} : Saving(u)' <=> Saving(u)
    BY <1>0, <1>6, SavingMoves DEF OpenFile, FileOf, Goto, TypeOK, loadVars
  <2>2. AloneInv'
    BY <2>1 DEF AloneInv, OtherSaves, Saving
  <2>3. SumInv'
    BY <1>0, <1>6 DEF OpenFile, Goto, SaveInv, SumInv, TypeOK
  <2> QED
    BY <1>0, <2>1, <2>2, <2>3 DEF SaveInv, Holds, Configured, TypeOK
\* Steps of a thread that keeps saving.
<1>7. ASSUME NEW t \in Savers, CheckEncryption(t) \/ Sum(t) \/ Key(t) \/ Hash(t) \/ Record(t)
      PROVE  SaveInv'
  <2>1. /\ Saving(t) /\ UNCHANGED <<user, file, lastSave, disturbed, accessToken>>
        /\ \A u \in Savers \ {t} : Saving(u)' <=> Saving(u)
    BY <1>0, <1>7, SavingMoves
       DEF CheckEncryption, Sum, Key, Hash, Record, Goto, Saving, loadVars, ghostVars
  <2>2. ASSUME ~disturbed PROVE \A u \in Savers \ {t} : ~Saving(u)
    BY <2>1, <2>2 DEF SaveInv, AloneInv
  <2>3. ASSUME ~disturbed
        PROVE  /\ pc'[t] \in {"key", "hash", "record"} => cih'[t] # Garbage
               /\ pc'[t] = "hash" => cinfohash' = t
               /\ pc'[t] = "record" => cinfohash' = user
               /\ pc'[t] = "write" => cih'[t] = user
               /\ pc'[t] # "close"
    <3>1. ~HalfFilled(t)
      BY <2>2, <2>3 DEF HalfFilled, SaveInv, SumInv, Saving
    <3>2. CASE CheckEncryption(t)
      BY <1>0, <3>2 DEF CheckEncryption, Goto, TypeOK
    <3>3. CASE Sum(t)
      BY <1>0, <3>1, <3>3 DEF Sum, Goto, SaveInv, SumInv, TypeOK
    <3>4. CASE Key(t)
      BY <1>0, <2>3, <3>4 DEF Key, Goto, SaveInv, AloneInv, TypeOK
    <3>5. CASE Hash(t)
      BY <1>0, <2>3, <3>1, <3>5 DEF Hash, Goto, SaveInv, AloneInv, TypeOK
    <3>6. CASE Record(t)
      BY <1>0, <2>3, <3>6 DEF Record, Goto, SaveInv, AloneInv, TypeOK
    <3> QED
      BY <1>7, <3>2, <3>3, <3>4, <3>5, <3>6
  <2>4. AloneInv'
    BY <2>1, <2>2, <2>3 DEF AloneInv, Saving
  <2>5. SumInv'
    BY <1>0, <1>7 DEF CheckEncryption, Sum, Key, Hash, Record, Goto, SaveInv, SumInv, TypeOK
  <2> QED
    BY <1>1, <2>1, <2>4, <2>5
<1>8. ASSUME NEW t \in Savers, Write(t) PROVE SaveInv'
  <2>1. /\ Saving(t) /\ pc' = [pc EXCEPT ![t] = "close"]
        /\ UNCHANGED <<user, lastSave, accessToken>>
    BY <1>8 DEF Write, Writing, Saving, loadVars
  <2>2. \E whole \in BOOLEAN : file' \in {file, [file EXCEPT ![user] = Written(t, whole)]}
    BY <1>8 DEF Write, FileOf
  <2>3. /\ Saving(t) /\ pc'[t] = "close" /\ UNCHANGED <<user, lastSave, accessToken>>
        /\ \A u \in Savers \ {t} : Saving(u)' <=> Saving(u)
        /\ \A u \in Users \ {user} : file'[u] = file[u]
    BY <1>0, <2>1, <2>2, SavingMoves DEF TypeOK
  <2>4. ASSUME ~disturbed'
        PROVE  ~disturbed /\ file' = [file EXCEPT ![user] = Written(t, TRUE)]
    <3>1. disturbed' # TRUE
      BY <2>4
    <3>2. file' = [file EXCEPT ![user] = Written(t, TRUE)] /\ disturbed' = disturbed
      BY <1>8, <3>1, Zenon DEF Write, FileOf
    <3> QED
      BY <2>4, <3>2, Zenon
  <2>5. ASSUME ~disturbed' PROVE Holds(user, accessToken[t])'
    <3>1. pc[t] \in {"write", "writePlain"} /\ (pc[t] = "write" => cih[t] = user)
      BY <1>8, <2>4, <2>5 DEF Write, Writing, SaveInv, AloneInv
    <3>2. file'[user] = Written(t, TRUE)
      BY <1>0, <2>4, <2>5 DEF TypeOK
    <3> QED
      BY <2>3, <3>1, <3>2 DEF Holds, Configured, Written
  <2>6. AloneInv'
    BY <2>3, <2>4, <2>5 DEF AloneInv, SaveInv, Saving
  <2>7. SumInv'
    BY <1>0, <1>8 DEF Write, Writing, SaveInv, SumInv, TypeOK
  <2> QED
    BY <1>0, <2>3, <2>6, <2>7 DEF SaveInv, Holds, Configured, TypeOK
<1>9. ASSUME NEW t \in Savers, Close(t) PROVE SaveInv'
  <2>1. /\ Saving(t) /\ pc[t] = "close" /\ pc'[t] = "idle" /\ UNCHANGED <<user, file>>
        /\ disturbed' = OtherSaves(t)
        /\ lastSave' = [lastSave EXCEPT ![user] = IF disturbed \/ OtherSaves(t) THEN NoToken
                                                  ELSE accessToken[t]]
        /\ \A u \in Savers \ {t} : Saving(u)' <=> Saving(u)
    BY <1>0, <1>9, SavingMoves DEF Close, Goto, Saving, loadVars
  <2>2. AloneInv'
    BY <2>1 DEF AloneInv, OtherSaves, Saving
  <2>3. ~disturbed /\ ~OtherSaves(t) => Holds(user, accessToken[t])
    BY <2>1 DEF SaveInv, AloneInv
  <2>4. \A u \in Savers : Saving(u)' => lastSave'[user] = NoToken
    BY <1>0, <2>1 DEF OtherSaves, Saving, TypeOK
  <2>5. \A u \in Users : lastSave'[u] # NoToken => Holds(u, lastSave'[u])
    BY <1>0, <2>1, <2>3 DEF SaveInv, TypeOK
  <2>6. SumInv'
    BY <1>0, <1>9 DEF Close, Goto, SaveInv, SumInv, TypeOK
  <2> QED
    BY <2>1, <2>2, <2>4, <2>5, <2>6 DEF SaveInv, Holds, Configured
<1>10. CASE Stop
  <2>1. /\ \A t \in Savers : pc'[t] = "idle"
        /\ UNCHANGED <<user, lastSave>>
        /\ \A u \in Users \ {user} : file'[u] = file[u]
        /\ file' = file \/ \E t \in Savers : Saving(t)
    BY <1>0, <1>10, ZenonT(40) DEF Stop, FileOf, TypeOK, Writing, Saving
  <2>2. AloneInv'
    BY <2>1 DEF AloneInv, Saving
  <2>3. SumInv'
    BY <1>10 DEF Stop, SumInv
  <2> QED
    BY <1>0, <2>1, <2>2, <2>3 DEF SaveInv, Holds, Configured, Saving, TypeOK
<1>11. CASE UNCHANGED vars
  BY <1>11 DEF vars, loadVars, saverVars, ghostVars, SaveInv, AloneInv, SumInv, Saving, Holds,
               Configured
<1> QED
  BY <1>2, <1>3, <1>4, <1>5, <1>6, <1>7, <1>8, <1>9, <1>10, <1>11 DEF Next, Save

\* What an undisturbed save saved is what the next start loads, if it finds
\* encryption available: the hash recorded is that of the user's own key, and
\* nothing overwrites the file before its owner saves again.
THEOREM SavedIsFound == Spec => SavedIsLoaded
<1>1. ASSUME Owned, SaveInv, [Next]_vars
      PROVE  [\A u \in Users :
                ~running /\ running' /\ user' = u /\ lastSave[u] # NoToken /\ ~refused'
                  => HasConfigLoaded' /\ SteamAccessToken' = lastSave[u]]_vars
  <2> SUFFICES ASSUME NEW u \in Users, ~running, running', user' = u, lastSave[u] # NoToken,
                      ~refused'
               PROVE  HasConfigLoaded' /\ SteamAccessToken' = lastSave[u]
    OBVIOUS
  <2>1. PICK available \in BOOLEAN : Start(u, available)
    BY <1>1 DEF Next, Save, Start, Approved, LogonRefused, Build, OpenFile, OpenFails,
                CheckEncryption, Sum, Key, Hash, Record, Write, Close, Goto, Stop, vars, loadVars
  <2>2. Holds(u, lastSave[u])
    BY <1>1 DEF SaveInv
  <2>3. file[u].kind = "encrypted" => available
    BY <2>1 DEF Start, FileOf
  <2>4. Accepts(file[u], u, available) /\ Content(file[u]) = lastSave[u]
    BY <2>2, <2>3 DEF Holds, Configured, Accepts, Content
  <2> QED
    BY <2>1, <2>4 DEF Start, FileOf
<1> QED
  BY <1>1, AlwaysOwned, SavedInit, SavedStep, PTL DEF Spec, SavedIsLoaded
=============================================================================
