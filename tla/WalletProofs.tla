----------------------------- MODULE WalletProofs -----------------------------
(***************************************************************************)
(* Proofs about WalletFile, for any number of threads, passwords and keys: *)
(* the types, that a readable wallet has one password, and that changes    *)
(* which neither overlap nor are cut off keep the keys.                    *)
(***************************************************************************)
EXTENDS WalletFile, TLAPS

(* The key that was reported is in keys, at its place and with its seed.   *)
Holds(keys, k) == k[1] \in DOMAIN keys /\ keys[k[1]].seed = k[2]

AllIdle == \A t \in Thread : work[t] = Idle

(* What is about to be written has one password, whoever overlaps.         *)
WorkOneWrap == \A t \in Thread : work[t] # Idle => OneWrap(work[t].keys)

(* What is about to be written has all keys that were or will be reported; *)
(* there is one writer, and it writes over an empty file.                  *)
WorkKeeps ==
  ~disturbed =>
    /\ \A t, u \in Thread : work[t] # Idle /\ work[u] # Idle => t = u
    /\ \A t \in Thread : work[t] # Idle =>
         \A k \in told \cup work[t].news : Holds(work[t].keys, k)
    /\ \A t \in Thread : work[t].at = "open" => size = 0

(* The inductive invariant. *)
FileInv ==
  FileTypeOK /\ OnePassword /\ KeysKept /\ WorkOneWrap /\ WorkKeeps

(* With all threads idle, nobody writes. *)
LEMMA NobodyWrites == AllIdle => \A t \in Thread : work[t].at # "open"
<1>1. Idle.at # "open"
  BY DEF Idle
<1>2. QED BY <1>1 DEF AllIdle

(* The wallet a change is computed from is a sequence of keys, one         *)
(* password for all of them, and, if nothing else goes on, with all keys   *)
(* that were reported.                                                     *)
LEMMA WhatIsRead ==
  ASSUME FileInv, Readable
  PROVE  /\ text \in Wallets /\ DOMAIN text = 1 .. Len(text) /\ Len(text) \in Nat
         /\ OneWrap(text)
         /\ ~disturbed /\ AllIdle => \A k \in told : Holds(text, k)
<1>1. text \in Wallets
  BY DEF FileInv, FileTypeOK, Readable
<1>2. OneWrap(text)
  BY DEF FileInv, OnePassword
<1>4. ~disturbed /\ AllIdle => \A k \in told : Holds(text, k)
  BY NobodyWrites DEF FileInv, KeysKept, Holds
<1>5. QED BY <1>1, <1>2, <1>4 DEF Wallets

(* A thread that starts a change keeps the invariant, if what it will      *)
(* write is a wallet with one password and, as long as nothing else goes   *)
(* on, with all keys that were reported and those that it will report.     *)
LEMMA PlanKeeps ==
  ASSUME FileInv, NEW t \in Thread, NEW keys \in Wallets,
         NEW news \in SUBSET (Nat \X Password),
         Plan(t, keys, news), OneWrap(keys),
         ~disturbed /\ AllIdle => \A k \in told \cup news : Holds(keys, k)
  PROVE  FileInv'
<1> DEFINE w == [at |-> "read", keys |-> keys, news |-> news]
<1>1. /\ work[t] = Idle /\ work' = [work EXCEPT ![t] = w]
      /\ text' = text /\ size' = size /\ told' = told /\ created' = created
      /\ disturbed' = (disturbed \/ \E u \in Thread : work[u] # Idle)
  BY DEF Plan
<1>2. w # Idle /\ w.at = "read" /\ w.keys = keys /\ w.news = news
  BY DEF Idle
<1>3. work \in [Thread -> {Idle} \cup
                 [at : {"read", "open"}, keys : Wallets, news : SUBSET (Nat \X Password)]]
  BY DEF FileInv, FileTypeOK
<1>4. work'[t] = w /\ \A u \in Thread \ {t} : work'[u] = work[u]
  BY <1>1, <1>3
<1>5. FileTypeOK'
  <2>1. w \in [at : {"read", "open"}, keys : Wallets, news : SUBSET (Nat \X Password)]
    OBVIOUS
  <2>2. QED BY <1>1, <2>1 DEF FileInv, FileTypeOK
<1> HIDE DEF w
<1>6. OnePassword'
  BY <1>1 DEF FileInv, OnePassword, Readable, OneWrap
<1>7. WorkOneWrap'
  BY <1>2, <1>4 DEF FileInv, WorkOneWrap, OneWrap
<1>8. ~disturbed' => ~disturbed /\ AllIdle
  BY <1>1 DEF AllIdle, FileInv, FileTypeOK
<1>9. KeysKept'
  <2>1. ~disturbed' => \A u \in Thread : work[u].at # "open"
    BY <1>8, NobodyWrites
  <2>2. QED BY <1>1, <1>8, <2>1 DEF FileInv, KeysKept, Readable
<1>10. WorkKeeps'
  <2> SUFFICES ASSUME ~disturbed'
               PROVE  WorkKeeps'
    BY DEF WorkKeeps
  <2>1. ~disturbed /\ AllIdle
    BY <1>8
  <2>2. \A u \in Thread \ {t} : work'[u] = Idle /\ work'[u].at # "open"
    BY <1>4, <2>1 DEF AllIdle, Idle
  <2>3. \A k \in told' \cup w.news : Holds(w.keys, k)
    BY <1>1, <1>2, <2>1
  <2>4. QED BY <1>2, <1>4, <2>2, <2>3 DEF WorkKeeps, Holds
<1>11. QED BY <1>5, <1>6, <1>7, <1>9, <1>10 DEF FileInv

(* Init establishes the invariant: there is no file and nothing told.      *)
LEMMA InitKeeps == FileInit => FileInv
<1> SUFFICES ASSUME FileInit
             PROVE  FileInv
  OBVIOUS
<1>1. FileTypeOK
  BY DEF FileInit, FileTypeOK
<1>2. \A t \in Thread : work[t] = Idle
  BY DEF FileInit
<1>3. OnePassword /\ KeysKept /\ WorkOneWrap
  BY <1>2 DEF FileInit, OnePassword, Readable, KeysKept, WorkOneWrap
<1>4. WorkKeeps
  BY <1>2, NobodyWrites DEF FileInit, WorkKeeps, AllIdle
<1>5. QED BY <1>1, <1>3, <1>4 DEF FileInv

(* The empty document of the server has no keys, and none were reported.   *)
LEMMA StartServerKeeps ==
  ASSUME FileInv, StartServer
  PROVE  FileInv'
<1>1. /\ text = NoFile /\ text' = <<>> /\ size' = size /\ work' = work /\ told' = told
      /\ created' = created /\ disturbed' = disturbed /\ AllIdle
  BY DEF StartServer, AllIdle
<1>2. ~disturbed => told = {}
  BY <1>1, NobodyWrites DEF FileInv, KeysKept, Readable
<1>3. FileTypeOK'
  BY <1>1 DEF FileInv, FileTypeOK, Wallets
<1>4. OnePassword' /\ WorkOneWrap'
  BY <1>1 DEF FileInv, OnePassword, WorkOneWrap, OneWrap, AllIdle
<1>5. KeysKept' /\ WorkKeeps'
  BY <1>1, <1>2 DEF FileInv, KeysKept, WorkKeeps, Holds
<1>6. QED BY <1>3, <1>4, <1>5 DEF FileInv

(* The first key of a wallet. *)
LEMMA CreateWalletKeeps ==
  ASSUME FileInv, NEW t \in Thread, NEW p \in Password, CreateWallet(t, p)
  PROVE  FileInv'
<1> DEFINE keys == <<NewKey(p)>>
           news == {<<1, p>>}
<1>1. keys \in Wallets /\ news \in SUBSET (Nat \X Password) /\ OneWrap(keys)
  BY DEF Wallets, KeyRec, NewKey, OneWrap
<1>2. ~disturbed /\ AllIdle => told = {}
  BY NobodyWrites DEF CreateWallet, FileInv, KeysKept, Readable
<1>3. \A k \in news : Holds(keys, k)
  BY DEF Holds, NewKey
<1>4. Plan(t, keys, news)
  BY DEF CreateWallet
<1> HIDE DEF keys, news
<1>5. ~disturbed /\ AllIdle => \A k \in told \cup news : Holds(keys, k)
  BY <1>2, <1>3
<1>6. QED BY <1>1, <1>4, <1>5, PlanKeeps

(* A key more, wrapped with the password that was checked. *)
LEMMA AddKeyKeeps ==
  ASSUME FileInv, NEW t \in Thread, NEW p \in Password, AddKey(t, p)
  PROVE  FileInv'
<1> DEFINE keys == Append(text, NewKey(p))
           news == {<<Len(text) + 1, p>>}
<1>1. Readable /\ text # <<>> /\ Head(text).wrap = p /\ Plan(t, keys, news)
  BY DEF AddKey, Verified
<1>2. /\ text \in Seq(KeyRec) /\ DOMAIN text = 1 .. Len(text) /\ Len(text) \in Nat
      /\ OneWrap(text)
      /\ ~disturbed /\ AllIdle => \A k \in told : Holds(text, k)
  BY <1>1, WhatIsRead DEF Wallets
<1>3. NewKey(p) \in KeyRec /\ NewKey(p).wrap = p /\ NewKey(p).seed = p
  BY DEF NewKey, KeyRec
<1>4. /\ keys \in Seq(KeyRec) /\ DOMAIN keys = 1 .. Len(text) + 1
      /\ \A i \in DOMAIN text : keys[i] = text[i]
      /\ keys[Len(text) + 1] = NewKey(p)
  BY <1>2, <1>3
<1>5. \A i \in DOMAIN text : text[i].wrap = p
  <2>1. 1 \in DOMAIN text /\ Head(text) = text[1]
    BY <1>1, <1>2
  <2>2. QED BY <1>1, <1>2, <2>1 DEF OneWrap
<1> HIDE DEF keys
<1>6. \A i \in DOMAIN keys : keys[i].wrap = p
  BY <1>2, <1>3, <1>4, <1>5
<1>7. keys \in Wallets /\ OneWrap(keys)
  BY <1>4, <1>6 DEF Wallets, OneWrap
<1>8. news \in SUBSET (Nat \X Password)
  BY <1>2
<1>9. ~disturbed /\ AllIdle => \A k \in told \cup news : Holds(keys, k)
  BY <1>2, <1>3, <1>4 DEF Holds
<1> HIDE DEF news
<1>10. QED BY <1>1, <1>7, <1>8, <1>9, PlanKeeps

(* A change of entries that leaves every seed where it is, and one         *)
(* password for all entries, keeps the invariant.                          *)
LEMMA EditKeeps ==
  ASSUME FileInv, Readable, NEW t \in Thread,
         NEW keys, DOMAIN keys = DOMAIN text, keys = [i \in DOMAIN text |-> keys[i]],
         \A i \in DOMAIN text : keys[i] \in KeyRec /\ keys[i].seed = text[i].seed,
         OneWrap(keys), Plan(t, keys, {})
  PROVE  FileInv'
<1>1. /\ DOMAIN text = 1 .. Len(text) /\ Len(text) \in Nat
      /\ ~disturbed /\ AllIdle => \A k \in told : Holds(text, k)
  BY WhatIsRead
<1>2. keys \in [1 .. Len(text) -> KeyRec]
  BY <1>1
<1>3. keys \in Wallets
  BY <1>1, <1>2 DEF Wallets
<1>4. {} \in SUBSET (Nat \X Password)
  OBVIOUS
<1>5. ~disturbed /\ AllIdle => \A k \in told \cup {} : Holds(keys, k)
  BY <1>1 DEF Holds
<1>6. QED BY <1>3, <1>4, <1>5, PlanKeeps

(* All keys are unwrapped with p and wrapped with q. *)
LEMMA RotatePasswordKeeps ==
  ASSUME FileInv, NEW t \in Thread, NEW p \in Password, NEW q \in Password,
         RotatePassword(t, p, q)
  PROVE  FileInv'
<1> DEFINE keys == [i \in DOMAIN text |-> [text[i] EXCEPT !.wrap = q]]
<1>1. Readable /\ Plan(t, keys, {})
  BY DEF RotatePassword, Verified
<1>2. \A i \in DOMAIN text : text[i] \in KeyRec
  BY <1>1, WhatIsRead DEF Wallets
<1>3. \A i \in DOMAIN text :
        keys[i] \in KeyRec /\ keys[i].seed = text[i].seed /\ keys[i].wrap = q
  BY <1>2 DEF KeyRec
<1>4. DOMAIN keys = DOMAIN text /\ keys = [i \in DOMAIN text |-> keys[i]]
  OBVIOUS
<1> HIDE DEF keys
<1>5. OneWrap(keys)
  BY <1>3, <1>4 DEF OneWrap
<1>6. QED BY <1>1, <1>3, <1>4, <1>5, EditKeeps

(* One nonce changes. *)
LEMMA NonceKeeps ==
  ASSUME FileInv, NEW t \in Thread,
         \/ \E i \in 1 .. MaxKeys : IncrementNonce(t, i)
         \/ \E i \in 1 .. MaxKeys, n \in 0 .. MaxNonce : UpdateNonce(t, i, n)
  PROVE  FileInv'
<1>1. Readable
  BY DEF IncrementNonce, UpdateNonce
<1>2. PICK i, n \in Nat :
        Plan(t, [j \in DOMAIN text |-> IF j = i THEN [text[j] EXCEPT !.nonce = n] ELSE text[j]], {})
  <2>1. \A j \in DOMAIN text : text[j].nonce \in Nat
    <3>1. \A j \in DOMAIN text : text[j] \in KeyRec
      BY <1>1, WhatIsRead DEF Wallets
    <3>2. QED BY <3>1 DEF KeyRec
  <2>2. CASE \E i \in 1 .. MaxKeys : IncrementNonce(t, i)
    <3>1. PICK i \in 1 .. MaxKeys : IncrementNonce(t, i)
      BY <2>2
    <3>2. i \in DOMAIN text /\ Plan(t, [text EXCEPT ![i].nonce = @ + 1], {})
      BY <3>1 DEF IncrementNonce
    <3>3. [text EXCEPT ![i].nonce = @ + 1] =
            [j \in DOMAIN text |->
               IF j = i THEN [text[j] EXCEPT !.nonce = text[i].nonce + 1] ELSE text[j]]
      BY <1>1, WhatIsRead DEF Wallets
    <3>4. text[i].nonce + 1 \in Nat
      BY <2>1, <3>2
    <3>5. QED BY <3>2, <3>3, <3>4
  <2>3. CASE \E i \in 1 .. MaxKeys, n \in 0 .. MaxNonce : UpdateNonce(t, i, n)
    BY <2>3 DEF UpdateNonce
  <2>4. QED BY <2>2, <2>3
<1> DEFINE keys == [j \in DOMAIN text |-> IF j = i THEN [text[j] EXCEPT !.nonce = n] ELSE text[j]]
<1>3. \A j \in DOMAIN text : text[j] \in KeyRec
  BY <1>1, WhatIsRead DEF Wallets
<1>4. \A j \in DOMAIN text :
        keys[j] \in KeyRec /\ keys[j].seed = text[j].seed /\ keys[j].wrap = text[j].wrap
  BY <1>3 DEF KeyRec
<1>5. DOMAIN keys = DOMAIN text /\ keys = [j \in DOMAIN text |-> keys[j]]
  OBVIOUS
<1>6. Plan(t, keys, {})
  BY <1>2
<1> HIDE DEF keys
<1>7. OneWrap(keys)
  BY <1>1, <1>4, <1>5, WhatIsRead DEF OneWrap
<1>8. QED BY <1>1, <1>4, <1>5, <1>6, <1>7, EditKeeps

(* Loading changes nothing in the file. *)
LEMMA LoadWalletKeeps ==
  ASSUME FileInv, NEW t \in Thread, LoadWallet(t)
  PROVE  FileInv'
BY DEF LoadWallet, FileInv, FileTypeOK, OnePassword, Readable, KeysKept, WorkOneWrap,
       WorkKeeps, OneWrap, Holds

(* open(path, "w"): what was in the file is now only in work[t]. *)
LEMMA TruncateKeeps ==
  ASSUME FileInv, NEW t \in Thread, Truncate(t)
  PROVE  FileInv'
<1>1. /\ work[t].at = "read" /\ text' = Garbage /\ size' = 0 /\ told' = told
      /\ created' = created /\ disturbed' = disturbed
      /\ work' = [work EXCEPT ![t].at = "open"]
  BY DEF Truncate
<1>2. /\ FileTypeOK
      /\ work[t] \in [at : {"read", "open"}, keys : Wallets, news : SUBSET (Nat \X Password)]
  <2>1. work[t] # Idle
    BY <1>1 DEF Idle
  <2>2. QED BY <2>1 DEF FileInv, FileTypeOK
<1>3. /\ work'[t] \in [at : {"read", "open"}, keys : Wallets, news : SUBSET (Nat \X Password)]
      /\ work'[t].at = "open" /\ work'[t].keys = work[t].keys /\ work'[t].news = work[t].news
      /\ \A u \in Thread \ {t} : work'[u] = work[u]
  BY <1>1, <1>2 DEF FileTypeOK
<1>4. work[t] # Idle /\ work'[t] # Idle
  BY <1>1, <1>3 DEF Idle
<1>5. FileTypeOK'
  <2>1. work' = [u \in Thread |-> work'[u]]
    BY <1>1, <1>2 DEF FileTypeOK
  <2>2. \A u \in Thread :
          work'[u] \in {Idle} \cup
            [at : {"read", "open"}, keys : Wallets, news : SUBSET (Nat \X Password)]
    BY <1>2, <1>3 DEF FileTypeOK
  <2>3. QED BY <1>1, <1>2, <2>1, <2>2 DEF FileTypeOK
<1>6. OnePassword' /\ KeysKept'
  BY <1>1, <1>3 DEF OnePassword, KeysKept, Readable
<1>7. WorkOneWrap'
  BY <1>3, <1>4 DEF FileInv, WorkOneWrap, OneWrap
<1>8. WorkKeeps'
  BY <1>1, <1>3, <1>4 DEF FileInv, WorkKeeps, Holds
<1>9. QED BY <1>5, <1>6, <1>7, <1>8 DEF FileInv

(* Whoever closes the file last has written a whole wallet, or garbage;    *)
(* undisturbed, it is the only writer and its wallet has all keys.         *)
LEMMA SaveKeeps ==
  ASSUME FileInv, NEW t \in Thread, Save(t)
  PROVE  FileInv'
<1> DEFINE keys == work[t].keys
           news == work[t].news
<1>1. /\ work[t].at = "open" /\ told' = told \cup news /\ disturbed' = disturbed
      /\ work' = [work EXCEPT ![t] = Idle]
      /\ \/ size <= Len(keys) /\ text' = keys /\ size' = Len(keys)
         \/ ~(size <= Len(keys)) /\ text' = Garbage /\ size' = size
  BY DEF Save
<1>2. created' \in BOOLEAN
  BY DEF Save
<1>3. FileTypeOK /\ work[t] # Idle
  BY <1>1 DEF FileInv, Idle
<1>4. keys \in Wallets /\ Len(keys) \in Nat /\ news \in SUBSET (Nat \X Password)
  BY <1>3 DEF FileTypeOK, Wallets
<1>5. work'[t] = Idle /\ \A u \in Thread \ {t} : work'[u] = work[u]
  BY <1>1, <1>3 DEF FileTypeOK
<1>6. OneWrap(keys)
  BY <1>3 DEF FileInv, WorkOneWrap
<1>7. ~disturbed => /\ \A k \in told \cup news : Holds(keys, k)
                    /\ \A u \in Thread \ {t} : work[u] = Idle
                    /\ size = 0
  BY <1>1, <1>3 DEF FileInv, WorkKeeps
<1>8. FileTypeOK'
  <2>1. size' \in Nat /\ text' \in Wallets \cup {Garbage, NoFile}
    BY <1>1, <1>3, <1>4 DEF FileTypeOK
  <2>2. told' \subseteq Nat \X Password
    BY <1>1, <1>3, <1>4 DEF FileTypeOK
  <2>3. QED BY <1>1, <1>2, <1>3, <2>1, <2>2 DEF FileTypeOK
<1>9. ~disturbed => text' = keys
  BY <1>1, <1>4, <1>7
<1> HIDE DEF keys, news
<1>10. OnePassword'
  BY <1>1, <1>6 DEF OnePassword, Readable, OneWrap
<1>11. KeysKept'
  <2> SUFFICES ASSUME ~disturbed, NEW k \in told'
               PROVE  /\ Readable' /\ k[1] \in DOMAIN text' /\ text'[k[1]].seed = k[2]
    BY <1>1 DEF KeysKept
  <2>1. Holds(keys, k) /\ text' = keys
    BY <1>1, <1>7, <1>9
  <2>2. QED BY <2>1, <1>4, WalletFileAssumption DEF Holds, Readable
<1>12. WorkOneWrap'
  BY <1>5 DEF FileInv, WorkOneWrap, OneWrap
<1>13. WorkKeeps'
  <2>1. ~disturbed => \A u \in Thread : work'[u] = Idle /\ work'[u].at # "open"
    BY <1>5, <1>7 DEF Idle
  <2>2. QED BY <1>1, <2>1 DEF WorkKeeps
<1>14. QED BY <1>8, <1>10, <1>11, <1>12, <1>13 DEF FileInv

(* A crash leaves the file as it is; in the middle of a write that is      *)
(* garbage.                                                                *)
LEMMA CrashKeeps ==
  ASSUME FileInv, Crash
  PROVE  FileInv'
<1>1. /\ work' = [t \in Thread |-> Idle] /\ text' = text /\ size' = size /\ told' = told
      /\ created' = created
      /\ disturbed' = (disturbed \/ \E t \in Thread : work[t].at = "open")
  BY DEF Crash
<1>2. \A t \in Thread : work'[t] = Idle /\ work'[t].at # "open"
  BY <1>1 DEF Idle
<1>3. FileTypeOK'
  BY <1>1 DEF FileInv, FileTypeOK
<1>4. OnePassword' /\ KeysKept'
  BY <1>1 DEF FileInv, OnePassword, KeysKept, Readable, OneWrap, FileTypeOK
<1>5. WorkOneWrap' /\ WorkKeeps'
  BY <1>2 DEF WorkOneWrap, WorkKeeps
<1>6. QED BY <1>3, <1>4, <1>5 DEF FileInv
-----------------------------------------------------------------------------
(* The invariant holds in every behaviour, for any threads, passwords,     *)
(* number of keys and nonces.                                              *)
THEOREM FileInvariant == FileSpec => []FileInv
<1>1. FileInv /\ [FileNext]_fileVars => FileInv'
  <2> SUFFICES ASSUME FileInv, [FileNext]_fileVars
               PROVE  FileInv'
    OBVIOUS
  <2>1. CASE StartServer
    BY <2>1, StartServerKeeps
  <2>2. CASE Crash
    BY <2>2, CrashKeeps
  <2>3. ASSUME NEW t \in Thread, Change(t)
        PROVE  FileInv'
    <3>1. CASE \E p \in Password : CreateWallet(t, p)
      BY <3>1, CreateWalletKeeps
    <3>2. CASE LoadWallet(t)
      BY <3>2, LoadWalletKeeps
    <3>3. CASE \E p \in Password : AddKey(t, p)
      BY <3>3, AddKeyKeeps
    <3>4. CASE \E p, q \in Password : RotatePassword(t, p, q)
      BY <3>4, RotatePasswordKeeps
    <3>5. CASE \/ \E i \in 1 .. MaxKeys : IncrementNonce(t, i)
               \/ \E i \in 1 .. MaxKeys, n \in 0 .. MaxNonce : UpdateNonce(t, i, n)
      BY <3>5, NonceKeeps
    <3>6. CASE Truncate(t)
      BY <3>6, TruncateKeeps
    <3>7. CASE Save(t)
      BY <3>7, SaveKeeps
    <3>8. QED BY <2>3, <3>1, <3>2, <3>3, <3>4, <3>5, <3>6, <3>7 DEF Change
  <2>4. CASE UNCHANGED fileVars
    BY <2>4 DEF fileVars, FileInv, FileTypeOK, OnePassword, Readable, KeysKept, WorkOneWrap,
                WorkKeeps, OneWrap, Holds
  <2>5. QED BY <2>1, <2>2, <2>3, <2>4 DEF FileNext
<1>2. QED BY <1>1, InitKeeps, PTL DEF FileSpec

(* What threads write and report keeps to its type.                        *)
THEOREM FileTypeCorrect == FileSpec => []FileTypeOK
<1>1. FileInv => FileTypeOK
  BY DEF FileInv
<1>2. QED BY <1>1, FileInvariant, PTL

(* wallet.py:162-331: however many threads and programs overlap or die, a  *)
(* wallet that can be read has one password.                               *)
THEOREM OnePasswordHolds == FileSpec => []OnePassword
<1>1. FileInv => OnePassword
  BY DEF FileInv
<1>2. QED BY <1>1, FileInvariant, PTL

(* No key that was reported is lost or changed, through any sequence of    *)
(* changes that do not overlap and are not cut off.                        *)
THEOREM KeysAreKept == FileSpec => []KeysKept
<1>1. FileInv => KeysKept
  BY DEF FileInv
<1>2. QED BY <1>1, FileInvariant, PTL
=============================================================================
