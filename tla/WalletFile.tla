------------------------------ MODULE WalletFile ------------------------------
(***************************************************************************)
(* The wallet file of wallet.py and the threads of the wallet server, or a *)
(* second program, that change it.  Every change is made alike: read the   *)
(* whole file, compute (two runs of Argon2 for a key), open for writing,   *)
(* which truncates, and write everything back.  There is no lock.          *)
(*                                                                         *)
(* A key is the seed it comes from (the position and the master password   *)
(* of the moment it was made), the password that unwraps it, and its       *)
(* nonce.  The number of keys stands for the length of the file.           *)
(***************************************************************************)
EXTENDS Naturals, Sequences

CONSTANTS
  Thread,
  Password,
  MaxKeys,    \* bound of the model: keys in the file, the verification key included
  MaxNonce,   \* bound of the model
  Garbage,    \* what a file holds that is no JSON document
  NoFile      \* there is no file

KeyRec == [seed : Password, wrap : Password, nonce : Nat]
Wallets == Seq(KeyRec)

ASSUME WalletFileAssumption ==
  MaxKeys \in Nat /\ MaxNonce \in Nat /\ Garbage \notin Wallets /\ NoFile \notin Wallets

VARIABLES
  text,       \* what the file holds: its keys in order, Garbage, or NoFile
  size,       \* its length
  work,       \* what each thread is about to write, and how far it is
  told,       \* the keys a caller was told are in the wallet: <<position, seed>>
  created,    \* create_wallet has reported success
  disturbed   \* two changes overlapped, or the process died while it wrote

fileVars == <<text, size, work, told, created, disturbed>>

Idle == [at |-> "idle"]
Readable == text \notin {Garbage, NoFile}

(* Mutation: the key is stored without being wrapped. *)
NewKeyBare(p) == [seed |-> p, nonce |-> 0]

(* What a new entry holds.  The verification key has no nonce, which reads *)
(* as 0.                                                                   *)
NewKey(p) == [seed |-> p, wrap |-> p, nonce |-> 0]

FileInit ==
  /\ text = NoFile /\ size = 0
  /\ work = [t \in Thread |-> Idle]
  /\ told = {} /\ created = FALSE /\ disturbed = FALSE
-----------------------------------------------------------------------------
(* A thread has read the file and knows what it will write over it, and    *)
(* which keys it will report then.                                         *)
Plan(t, keys, news) ==
  /\ work[t] = Idle
  /\ work' = [work EXCEPT ![t] = [at |-> "read", keys |-> keys, news |-> news]]
  /\ disturbed' = (disturbed \/ \E u \in Thread : work[u] # Idle)
  /\ UNCHANGED <<text, size, told, created>>

(* ensure_wallet_file, when the server starts: an empty document. *)
StartServer ==
  /\ text = NoFile /\ \A t \in Thread : work[t] = Idle
  /\ text' = <<>>
  /\ UNCHANGED <<size, work, told, created, disturbed>>

(* Wallet.__init__ without a file: the verification key, at index 0.       *)
CreateWallet(t, p) == text = NoFile /\ Plan(t, <<NewKey(p)>>, {<<1, p>>})

(* ... and with one: it is loaded, and create_wallet reports success too.  *)
LoadWallet(t) ==
  /\ work[t] = Idle /\ Readable
  /\ created' = TRUE
  /\ UNCHANGED <<text, size, work, told, disturbed>>

(* The key at index 0 can be unwrapped with p. *)
Verified(p) == Readable /\ text # <<>> /\ Head(text).wrap = p

(* wallet_add_derived_key. *)
AddKey(t, p) ==
  /\ Verified(p) /\ Len(text) < MaxKeys
  /\ Plan(t, Append(text, NewKey(p)), {<<Len(text) + 1, p>>})

(* Mutation: the verification key keeps its password. *)
RotateOthers(t, p, q) ==
  /\ Verified(p)
  /\ Plan(t, [i \in DOMAIN text |-> IF i = 1 THEN text[i] ELSE [text[i] EXCEPT !.wrap = q]], {})

(* Mutation: the keys are made anew from the new password. *)
RotateSeeds(t, p, q) ==
  Verified(p) /\ Plan(t, [i \in DOMAIN text |-> [text[i] EXCEPT !.wrap = q, !.seed = q]], {})

(* wallet_rotate_password: every key is unwrapped with the old master key  *)
(* and wrapped with the new one; one that cannot be stops it.              *)
RotatePassword(t, p, q) ==
  /\ Verified(p) /\ \A i \in DOMAIN text : text[i].wrap = p
  /\ Plan(t, [i \in DOMAIN text |-> [text[i] EXCEPT !.wrap = q]], {})

(* increment_nonce. *)
IncrementNonce(t, i) ==
  /\ Readable /\ i \in DOMAIN text /\ text[i].nonce < MaxNonce
  /\ Plan(t, [text EXCEPT ![i].nonce = @ + 1], {})

(* update_wallet_nonce: to what the node's ledger says; the file is written *)
(* also when no key has the address.                                        *)
UpdateNonce(t, i, n) ==
  Readable /\ Plan(t, [j \in DOMAIN text |-> IF j = i THEN [text[j] EXCEPT !.nonce = n] ELSE text[j]], {})

(* open(path, "w"). *)
Truncate(t) ==
  /\ work[t].at = "read"
  /\ text' = Garbage /\ size' = 0
  /\ work' = [work EXCEPT ![t].at = "open"]
  /\ UNCHANGED <<told, created, disturbed>>

(* json.dump and close.  Each writer writes from the start: over a longer  *)
(* text that another has written meanwhile, its end stays behind.          *)
Save(t) ==
  /\ work[t].at = "open"
  /\ LET keys == work[t].keys
         fits == size <= Len(keys)
     IN  /\ text' = IF fits THEN keys ELSE Garbage
         /\ size' = IF fits THEN Len(keys) ELSE size
  /\ told' = told \cup work[t].news
  /\ created' = (created \/ \E p \in Password : <<1, p>> \in work[t].news)
  /\ work' = [work EXCEPT ![t] = Idle]
  /\ UNCHANGED disturbed

(* The process dies. *)
Crash ==
  /\ \E t \in Thread : work[t] # Idle
  /\ disturbed' = (disturbed \/ \E t \in Thread : work[t].at = "open")
  /\ work' = [t \in Thread |-> Idle]
  /\ UNCHANGED <<text, size, told, created>>

Change(t) ==
  \/ \E p \in Password : CreateWallet(t, p)
  \/ LoadWallet(t)
  \/ \E p \in Password : AddKey(t, p)
  \/ \E p, q \in Password : RotatePassword(t, p, q)
  \/ \E i \in 1 .. MaxKeys : IncrementNonce(t, i)
  \/ \E i \in 1 .. MaxKeys, n \in 0 .. MaxNonce : UpdateNonce(t, i, n)
  \/ Truncate(t)
  \/ Save(t)

FileNext == StartServer \/ Crash \/ \E t \in Thread : Change(t)

FileSpec == FileInit /\ [][FileNext]_fileVars
-----------------------------------------------------------------------------
FileTypeOK ==
  /\ text \in Wallets \cup {Garbage, NoFile}
  /\ size \in Nat
  /\ work \in [Thread -> {Idle} \cup
                 [at : {"read", "open"}, keys : Wallets, news : SUBSET (Nat \X Password)]]
  /\ told \subseteq Nat \X Password
  /\ created \in BOOLEAN /\ disturbed \in BOOLEAN

OneWrap(keys) == \A i, j \in DOMAIN keys : keys[i].wrap = keys[j].wrap

(* wallet.py:162-331: whatever overlaps or crashes, a wallet that can be   *)
(* read can be unlocked with one password, all of its keys: a change is    *)
(* computed from one reading and written whole.                            *)
OnePassword == Readable => OneWrap(text)

(* Changes that do not overlap and are not cut off keep every key that was *)
(* reported, with its seed and thereby its address.                        *)
KeysKept ==
  ~disturbed /\ (\A t \in Thread : work[t].at # "open") =>
    \A k \in told : /\ Readable /\ k[1] \in DOMAIN text
                    /\ text[k[1]].seed = k[2]

(* app-wallet-server.py:520 "Wallet created and activated": a wallet that  *)
(* was created has the key its password is checked with.                   *)
CreatedIsUsable ==
  created /\ ~disturbed /\ (\A t \in Thread : work[t].at # "open")
    => Readable /\ text # <<>>
=============================================================================
