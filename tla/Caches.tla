------------------------------- MODULE Caches -------------------------------
(***************************************************************************)
(* The two caches every spawn goes through (crates/runtime): that of the   *)
(* secrets, CachingSecretProvider, and that of the compiled modules,       *)
(* ModuleCache.  Both read and write their map in several locked steps     *)
(* while other threads, the operator who rotates a secret and the one who  *)
(* replaces a Wasm file go on.                                             *)
(*                                                                         *)
(* One secret and one path: entries do not depend on each other.  What the *)
(* inner provider and the file hold is a version; 0 means nothing.         *)
(***************************************************************************)
EXTENDS Integers

CONSTANTS
    Readers,     \* threads that resolve the secret
    Loaders,     \* threads that load the module
    Ttl,         \* security.secrets.default_ttl; no cache is built for 0
    MaxTime, MaxVersions   \* bounds

VARIABLES
    clock,
    secret,      \* the version the inner provider resolves to, and the last one
    gone,        \* when a version of the secret ceased to be current; -1 if it has not
    cached,      \* the entry of the secret
    reader,      \* position, the instant it started at, value
    file,        \* content and signature of the Wasm file
    module,      \* the entry of the path
    loader       \* position, the signature it read, the module, the contents seen since

secretVars == <<secret, gone, cached, reader>>
moduleVars == <<file, module, loader>>
vars == <<clock, secretVars, moduleVars>>

Nothing == [value |-> 0, expires |-> 0]
NoModule == [content |-> 0, signature |-> 0]

Init ==
    /\ clock = 0
    /\ secret = [now |-> 1, last |-> 1]
    /\ gone = [v \in 0..MaxVersions |-> -1]
    /\ cached = Nothing
    /\ reader = [r \in Readers |-> [at |-> "idle", since |-> 0, value |-> 0]]
    /\ file = [content |-> 1, signature |-> 1]
    /\ module = NoModule
    /\ loader = [l \in Loaders |-> [at |-> "idle", signature |-> 0, content |-> 0, seen |-> {}]]

Tick ==
    /\ clock < MaxTime
    /\ clock' = clock + 1
    /\ UNCHANGED <<secretVars, moduleVars>>

-----------------------------------------------------------------------------
(* CachingSecretProvider *)

\* The secret is rotated, or removed.
Rotate ==
    /\ secret.last < MaxVersions
    /\ \E v \in {0, secret.last + 1} :
         /\ v # secret.now
         /\ secret' = [now |-> v, last |-> IF v = 0 THEN secret.last ELSE v]
    /\ gone' = [gone EXCEPT ![secret.now] = clock]
    /\ UNCHANGED <<clock, cached, reader, moduleVars>>

Resolve(r) ==
    /\ reader[r].at \in {"idle", "served"}
    /\ reader' = [reader EXCEPT ![r] =
                    IF cached.value # 0 /\ cached.expires > clock
                    THEN [at |-> "served", since |-> clock, value |-> cached.value]
                    ELSE [at |-> "evict", since |-> clock, value |-> 0]]
    /\ UNCHANGED <<clock, secret, gone, cached, moduleVars>>

Evict(r) ==
    /\ reader[r].at = "evict"
    /\ cached' = Nothing
    /\ reader' = [reader EXCEPT ![r].at = "ask"]
    /\ UNCHANGED <<clock, secret, gone, moduleVars>>

\* The inner provider is asked; nothing is cached for a secret it has not.
Ask(r) ==
    /\ reader[r].at = "ask"
    /\ reader' = [reader EXCEPT ![r].at = IF secret.now = 0 THEN "idle" ELSE "put",
                                ![r].value = secret.now]
    /\ UNCHANGED <<clock, secret, gone, cached, moduleVars>>

\* Mutant: the entry lives from the time it is written.
PutLate(r) ==
    /\ reader[r].at = "put"
    /\ cached' = [value |-> reader[r].value, expires |-> clock + Ttl]
    /\ reader' = [reader EXCEPT ![r].at = "served"]
    /\ UNCHANGED <<clock, secret, gone, moduleVars>>

\* The entry lives from the time the call began.
Put(r) ==
    /\ reader[r].at = "put"
    /\ cached' = [value |-> reader[r].value, expires |-> reader[r].since + Ttl]
    /\ reader' = [reader EXCEPT ![r].at = "served"]
    /\ UNCHANGED <<clock, secret, gone, moduleVars>>

\* allow: a spawn registers the secret, the entry is dropped.
Allow ==
    /\ cached' = Nothing
    /\ UNCHANGED <<clock, secret, gone, reader, moduleVars>>

-----------------------------------------------------------------------------
(* ModuleCache *)

\* The file is replaced, or removed.  No two files have the same signature
\* (length, modification and change time, inode).
Write ==
    /\ \E v \in 0..MaxVersions :
         /\ v # file.content /\ (v = 0 \/ v > file.signature) /\ file.signature < MaxVersions
         /\ file' = [content |-> v, signature |-> IF v = 0 THEN file.signature ELSE v]
         /\ loader' = [l \in Loaders |-> [loader[l] EXCEPT !.seen = @ \cup {v}]]
    /\ UNCHANGED <<clock, secretVars, module>>

Returned(content) == [at |-> "loaded", signature |-> 0, content |-> content, seen |-> {file.content}]

\* load: a fresh entry, or any at all when the file cannot be read.
Stat(l) ==
    /\ loader[l].at \in {"idle", "loaded"}
    /\ loader' = [loader EXCEPT ![l] =
         IF file.content = 0
         THEN IF module # NoModule THEN Returned(module.content)
              ELSE [at |-> "idle", signature |-> 0, content |-> 0, seen |-> {}]
         ELSE IF module.signature = file.signature THEN Returned(module.content)
         ELSE [at |-> "read", signature |-> file.signature, content |-> 0, seen |-> {file.content}]]
    /\ UNCHANGED <<clock, secretVars, file, module>>

Read(l) ==
    /\ loader[l].at = "read"
    /\ loader' = [loader EXCEPT ![l].at = IF file.content = 0 THEN "idle" ELSE "compiled",
                                ![l].content = file.content]
    /\ UNCHANGED <<clock, secretVars, file, module>>

\* compile_and_store: the signature is that read before the content.
Store(l) ==
    /\ loader[l].at = "compiled"
    /\ module' = [content |-> loader[l].content, signature |-> loader[l].signature]
    /\ loader' = [loader EXCEPT ![l].at = "loaded"]
    /\ UNCHANGED <<clock, secretVars, file>>

SecretsNext == Tick \/ Rotate \/ Allow \/ (\E r \in Readers : Resolve(r) \/ Evict(r) \/ Ask(r) \/ Put(r))

ModulesNext == Write \/ (\E l \in Loaders : Stat(l) \/ Read(l) \/ Store(l))

Next == SecretsNext \/ ModulesNext

Spec == Init /\ [][Next]_vars

-----------------------------------------------------------------------------
(* Properties *)

TypeOK ==
    /\ clock \in 0..MaxTime
    /\ secret \in [now : 0..MaxVersions, last : 1..MaxVersions]
    /\ gone \in [0..MaxVersions -> -1..MaxTime]
    /\ cached \in [value : 0..MaxVersions, expires : 0..(MaxTime + Ttl)]
    /\ reader \in [Readers -> [at : {"idle", "evict", "ask", "put", "served"},
                               since : 0..MaxTime, value : 0..MaxVersions]]
    /\ file \in [content : 0..MaxVersions, signature : 0..MaxVersions]
    /\ module \in [content : 0..MaxVersions, signature : 0..MaxVersions]

\* A secret that has been rotated is not served longer than the TTL, however long
\* a reader takes between the provider and the cache: what a call returns was
\* current at most Ttl before the call (CachingSecretProvider::resolve).
SecretIsRecent ==
    \A r \in Readers : reader[r].at = "served" =>
        LET t == gone[reader[r].value] IN t = -1 \/ t > reader[r].since - Ttl

\* A load returns what the file held at some moment of the load, unless there was
\* no file to look at (ModuleCache::load).
ModuleIsCurrent ==
    \A l \in Loaders : loader[l].at = "loaded" =>
        loader[l].content \in loader[l].seen \/ 0 \in loader[l].seen
=============================================================================
