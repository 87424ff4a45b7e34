--------------------------- MODULE RuntimeSettings ---------------------------
(***************************************************************************)
(* Credentials and feature flags that administrators change at run time,   *)
(* and the memory client that is made from them.                           *)
(*                                                                         *)
(* local-secrets/ holds a file for each credential, a manifest of them,    *)
(* and a file of flags.  Each of the routes that change them runs in a     *)
(* thread and takes no lock: a file is read, truncated, and written again, *)
(* with other threads in between.  Any thread that reaches memory asks for *)
(* the Mem0 client, which is made again when the credentials have changed. *)
(***************************************************************************)
EXTENDS Naturals, Sequences

CONSTANTS
    Values,       \* values of a credential
    Requests,     \* the requests of administrators, as sequences of changes
    Admins,       \* threads that serve them
    Readers,      \* threads that need the memory client
    DefaultMem0,  \* whether memory.adapter is mem0_v1 without a runtime flag
    MaxRequests,  \* bound: requests of administrators
    Missing       \* no file, no host, no client

Creds == {"mem0_api_key", "mem0_host"}
Flags == {"memory.adapter", "memory.write_enabled", "memory.fail_open_on_search"}

Save(k, v) == [kind |-> "save", name |-> k, value |-> v]
Drop(k)    == [kind |-> "drop", name |-> k, value |-> Missing]
Apply(f)   == [kind |-> "set", name |-> f, value |-> Missing]
Changes == {Save(k, v) : k \in Creds, v \in Values} \cup {Drop(k) : k \in Creds}
               \cup {Apply(f) : f \in Flags}

\* The flags applied with a Mem0 key, in this order.
Activation == << Apply("memory.adapter"), Apply("memory.write_enabled"),
                 Apply("memory.fail_open_on_search") >>

\* PUT and DELETE /v1/credentials/{credential_key}.
Upsert(k, v, activate) ==
    <<Save(k, v)>> \o IF activate /\ k = "mem0_api_key" THEN Activation ELSE <<>>
Delete(k) == <<Drop(k)>>

ASSUME RequestsAreChanges == Requests \subseteq Seq(Changes)
ASSUME DefaultIsKnown == DefaultMem0 \in BOOLEAN
ASSUME RequestsAreBounded == MaxRequests \in Nat

Empty == "empty"   \* the file is there, its content is not
Mixed == "mixed"   \* one value over another one
Torn  == {"torn"}  \* a file of names that is not JSON
ASSUME MissingIsApart == Missing \notin Values \cup {Empty, Mixed}

Contents == Values \cup {Missing, Empty, Mixed}
Configs == (Values \cup {Empty, Mixed}) \X (Values \cup {Missing, Mixed})

VARIABLES
    secret,      \* secret[k]: the file of a credential
    manifest,    \* keys in runtime_credentials.json
    flags,       \* flags in runtime_feature_flags.json
    pc, todo,    \* administrators: next step, changes left
    copy,        \* copy[a]: what a has read of the manifest or the flags
    hand,        \* hand[a]: the file a has open is its own, was written by
                 \* another thread meanwhile, or is gone
    received,    \* requests received
    last,        \* history: last[k]: what the last request for k asked for
    promised,    \* history: flags applied for requests
    trouble,     \* history: credentials whose requests overlapped or failed,
                 \* and "any" once two requests overlapped or one failed
    rpc, got,    \* readers: next step, <<key, host>> read
    client,      \* Mem0V1Adapter._client, as the <<key, host>> it is made from
    config,      \* Mem0V1Adapter._client_config
    crossed,     \* history: one thread looked while another made the client
    disturbed    \* history: disturbed[r]: another thread made it meanwhile

fileVars == <<secret, manifest, flags>>
adminVars == <<pc, todo, copy, hand, received>>
historyVars == <<last, promised, trouble>>
clientVars == <<rpc, got, client, config, crossed, disturbed>>
vars == <<fileVars, adminVars, historyVars, clientVars>>

TypeOK ==
    /\ secret \in [Creds -> Contents]
    /\ manifest \in (SUBSET Creds) \cup {Torn}
    /\ flags \in (SUBSET Flags) \cup {Torn}
    /\ pc \in [Admins -> {"idle", "open", "write", "unlink", "read", "truncate", "put"}]
    /\ todo \in [Admins -> Seq(Changes)]
    /\ \A a \in Admins : pc[a] = "idle" <=> todo[a] = <<>>
    /\ copy \in [Admins -> SUBSET (Creds \cup Flags)]
    /\ hand \in [Admins -> {"own", "written", "gone"}]
    /\ received \in 0 .. MaxRequests
    /\ last \in [Creds -> Values \cup {Missing}]
    /\ promised \in SUBSET Flags
    /\ trouble \in SUBSET (Creds \cup {"any"})
    /\ rpc \in [Readers -> {"idle", "key", "host", "compare", "build", "keep", "take"}]
    /\ got \in [Readers -> Contents \X Contents]
    /\ client \in Configs \cup {Missing}
    /\ config \in Configs \cup {Missing}
    /\ crossed \in BOOLEAN
    /\ disturbed \in [Readers -> BOOLEAN]

Init ==
    /\ secret = [k \in Creds |-> Missing]
    /\ manifest = {} /\ flags = {}
    /\ pc = [a \in Admins |-> "idle"]
    /\ todo = [a \in Admins |-> <<>>]
    /\ copy = [a \in Admins |-> {}]
    /\ hand = [a \in Admins |-> "own"]
    /\ received = 0
    /\ last = [k \in Creds |-> Missing]
    /\ promised = {} /\ trouble = {}
    /\ rpc = [r \in Readers |-> "idle"]
    /\ got = [r \in Readers |-> <<Missing, Missing>>]
    /\ client = Missing /\ config = Missing
    /\ crossed = FALSE
    /\ disturbed = [r \in Readers |-> FALSE]

-----------------------------------------------------------------------------
(* The routes of administrators.                                           *)

Now(a) == Head(todo[a])
OnFlags(a) == Now(a).kind = "set"

\* The record of a deleted credential goes, and its file stays.
BugFirstStep(changes) ==
    IF changes = <<>> THEN "idle"
    ELSE IF Head(changes).kind = "save" THEN "open" ELSE "read"

FirstStep(changes) ==
    IF changes = <<>> THEN "idle"
    ELSE CASE Head(changes).kind = "save" -> "open"
           [] Head(changes).kind = "drop" -> "unlink"
           [] Head(changes).kind = "set"  -> "read"

Names(changes) == {changes[i].name : i \in 1 .. Len(changes)} \cap Creds

Receive(a, request) ==
    LET others == {b \in Admins : pc[b] # "idle"} IN
    /\ pc[a] = "idle"
    /\ received < MaxRequests
    /\ received' = received + 1
    /\ todo' = [todo EXCEPT ![a] = request]
    /\ pc' = [pc EXCEPT ![a] = FirstStep(request)]
    /\ trouble' = trouble
           \cup (IF others # {} THEN {"any"} ELSE {})
           \cup (Names(request) \cap UNION {Names(todo[b]) : b \in others})
    /\ UNCHANGED <<fileVars, copy, hand, last, promised, clientVars>>

\* write_text opens the file of the secret, which truncates it ...
OpenSecret(a) ==
    /\ pc[a] = "open"
    /\ secret' = [secret EXCEPT ![Now(a).name] = Empty]
    /\ hand' = [hand EXCEPT ![a] = "own"]
    /\ pc' = [pc EXCEPT ![a] = "write"]
    /\ UNCHANGED <<manifest, flags, todo, copy, received, historyVars, clientVars>>

\* a closes its file, and every other thread that has the file open finds that
\* it was changed.
Tell(a, change, holders) ==
    hand' = [b \in Admins |-> IF b = a THEN "own"
                              ELSE IF b \in holders /\ hand[b] # "gone" THEN change
                              ELSE hand[b]]

SharingSecret(a) ==
    {b \in Admins \ {a} : pc[b] = "write" /\ Now(b).name = Now(a).name}

\* ... and then writes: to no effect once the file was unlinked, and over the
\* text that another thread has written since.
WriteSecret(a) ==
    LET k == Now(a).name
        v == Now(a).value
    IN
    /\ pc[a] = "write"
    /\ IF hand[a] = "gone" THEN UNCHANGED secret
       ELSE \E c \in {v} \cup (IF hand[a] = "written" THEN {Mixed} ELSE {}) :
                secret' = [secret EXCEPT ![k] = c]
    /\ Tell(a, "written", IF hand[a] = "gone" THEN {} ELSE SharingSecret(a))
    /\ pc' = [pc EXCEPT ![a] = "read"]
    /\ UNCHANGED <<manifest, flags, todo, copy, received, historyVars, clientVars>>

Unlink(a) ==
    LET k == Now(a).name IN
    /\ pc[a] = "unlink"
    /\ secret' = [secret EXCEPT ![k] = Missing]
    /\ Tell(a, "gone", SharingSecret(a))
    /\ pc' = [pc EXCEPT ![a] = "read"]
    /\ UNCHANGED <<manifest, flags, todo, copy, received, historyVars, clientVars>>

\* The content is used as it is.
BugReadable(file) == file

\* A file that cannot be parsed holds nothing.
Readable(file) == IF file = Torn THEN {} ELSE file

\* _read_manifest, or values() of the flags.
ReadFile(a) ==
    /\ pc[a] = "read"
    /\ copy' = [copy EXCEPT ![a] = Readable(IF OnFlags(a) THEN flags ELSE manifest)]
    /\ pc' = [pc EXCEPT ![a] = "truncate"]
    /\ UNCHANGED <<fileVars, todo, hand, received, historyVars, clientVars>>

Write(a, content) ==
    IF OnFlags(a) THEN flags' = content /\ UNCHANGED manifest
                  ELSE manifest' = content /\ UNCHANGED flags

Truncate(a) ==
    /\ pc[a] = "truncate"
    /\ Write(a, Torn)
    /\ hand' = [hand EXCEPT ![a] = "own"]
    /\ pc' = [pc EXCEPT ![a] = "put"]
    /\ UNCHANGED <<secret, todo, copy, received, historyVars, clientVars>>

\* The record of a credential stays when it is deleted.
BugRevised(a) == copy[a] \cup {Now(a).name}

Revised(a) == IF Now(a).kind = "drop" THEN copy[a] \ {Now(a).name}
                                      ELSE copy[a] \cup {Now(a).name}

Put(a) ==
    /\ pc[a] = "put"
    /\ \E c \in {Revised(a)} \cup (IF hand[a] = "written" THEN {Torn} ELSE {}) :
          Write(a, c)
    /\ Tell(a, "written",
            {b \in Admins \ {a} : pc[b] = "put" /\ (OnFlags(b) <=> OnFlags(a))})
    /\ IF OnFlags(a) THEN promised' = promised \cup {Now(a).name} /\ UNCHANGED last
       ELSE last' = [last EXCEPT ![Now(a).name] = Now(a).value] /\ UNCHANGED promised
    /\ todo' = [todo EXCEPT ![a] = Tail(@)]
    /\ pc' = [pc EXCEPT ![a] = FirstStep(Tail(todo[a]))]
    /\ copy' = [copy EXCEPT ![a] = {}]
    /\ UNCHANGED <<secret, received, trouble, clientVars>>

Dropped(A) ==
    /\ pc' = [a \in Admins |-> IF a \in A THEN "idle" ELSE pc[a]]
    /\ todo' = [a \in Admins |-> IF a \in A THEN <<>> ELSE todo[a]]
    /\ copy' = [a \in Admins |-> IF a \in A THEN {} ELSE copy[a]]
    /\ hand' = [a \in Admins |-> IF a \in A THEN "own" ELSE hand[a]]
    /\ trouble' = trouble \cup {"any"} \cup UNION {Names(todo[a]) : a \in A}
    /\ UNCHANGED <<fileVars, received, last, promised>>

\* A file operation raises, or a value of a later change is blank: the changes
\* made so far stay.
Fails(a) ==
    /\ pc[a] # "idle"
    /\ Dropped({a})
    /\ UNCHANGED clientVars

\* GET /v1/credentials: whether the file is there, and whether the manifest has
\* a date for it.
Status(k) == [configured |-> secret[k] # Missing, dated |-> k \in Readable(manifest)]

-----------------------------------------------------------------------------
(* Mem0V1Adapter._get_client.                                              *)

GoOn(r, step) == rpc' = [rpc EXCEPT ![r] = step]

Return(r) ==
    /\ GoOn(r, "idle")
    /\ got' = [got EXCEPT ![r] = <<Missing, Missing>>]
    /\ disturbed' = [disturbed EXCEPT ![r] = FALSE]

\* Other adapters need no client.
NeedClient(r) ==
    /\ rpc[r] = "idle"
    /\ DefaultMem0 \/ "memory.adapter" \in Readable(flags)
    /\ GoOn(r, "key")
    /\ UNCHANGED <<fileVars, adminVars, historyVars, got, client, config, crossed,
                   disturbed>>

\* A file without content is read as an empty key, through the reference
\* "local:mem0_api_key" of the settings; without a file the search fails.
ReadKey(r) ==
    /\ rpc[r] = "key"
    /\ IF secret["mem0_api_key"] = Missing
       THEN Return(r)
       ELSE /\ GoOn(r, "host")
            /\ got' = [got EXCEPT ![r][1] = secret["mem0_api_key"]]
            /\ UNCHANGED disturbed
    /\ UNCHANGED <<fileVars, adminVars, historyVars, client, config, crossed>>

\* _resolved_host, with MEM0_HOST not set.
ReadHost(r) ==
    /\ rpc[r] = "host"
    /\ got' = [got EXCEPT ![r][2] = IF secret["mem0_host"] = Empty THEN Missing
                                    ELSE secret["mem0_host"]]
    /\ GoOn(r, "compare")
    /\ UNCHANGED <<fileVars, adminVars, historyVars, client, config, crossed, disturbed>>

Making(r) == rpc[r] \in {"build", "keep"}

\* Any client there is will do.
BugFits(r) == client # Missing

Fits(r) == client # Missing /\ config = got[r]

Compare(r) ==
    /\ rpc[r] = "compare"
    /\ GoOn(r, IF Fits(r) THEN "take" ELSE "build")
    /\ crossed' = (crossed \/ \E o \in Readers \ {r} : Making(o))
    /\ UNCHANGED <<fileVars, adminVars, historyVars, got, client, config, disturbed>>

Build(r) ==
    /\ rpc[r] = "build"
    /\ client' = got[r]
    /\ disturbed' = [o \in Readers |-> disturbed[o] \/ (o # r /\ rpc[o] # "idle")]
    /\ GoOn(r, "keep")
    /\ UNCHANGED <<fileVars, adminVars, historyVars, got, config, crossed>>

\* Without a host the hosted client is made, whose package may be missing and
\* whose constructor may refuse the key.
MakeFails(r) ==
    /\ rpc[r] = "build"
    /\ got[r][2] = Missing
    /\ Return(r)
    /\ UNCHANGED <<fileVars, adminVars, historyVars, client, config, crossed>>

KeepConfig(r) ==
    /\ rpc[r] = "keep"
    /\ config' = got[r]
    /\ GoOn(r, "take")
    /\ UNCHANGED <<fileVars, adminVars, historyVars, got, client, crossed, disturbed>>

\* The client that is there now is returned.
Take(r) ==
    /\ rpc[r] = "take"
    /\ Return(r)
    /\ UNCHANGED <<fileVars, adminVars, historyVars, client, config, crossed>>

-----------------------------------------------------------------------------
\* The process dies and is started again; the files stay.
Restart ==
    /\ Dropped({a \in Admins : pc[a] # "idle"})
    /\ \E a \in Admins : pc[a] # "idle"
    /\ rpc' = [r \in Readers |-> "idle"]
    /\ got' = [r \in Readers |-> <<Missing, Missing>>]
    /\ client' = Missing /\ config' = Missing
    /\ crossed' = FALSE
    /\ disturbed' = [r \in Readers |-> FALSE]

Next ==
    \/ \E a \in Admins :
          \/ \E request \in Requests : Receive(a, request)
          \/ OpenSecret(a) \/ WriteSecret(a) \/ Unlink(a)
          \/ ReadFile(a) \/ Truncate(a) \/ Put(a) \/ Fails(a)
    \/ \E r \in Readers :
          \/ NeedClient(r) \/ ReadKey(r) \/ ReadHost(r) \/ Compare(r)
          \/ Build(r) \/ MakeFails(r) \/ KeepConfig(r) \/ Take(r)
    \/ Restart

Spec == Init /\ [][Next]_vars

-----------------------------------------------------------------------------
(* Properties.                                                             *)

\* A credential is what the last request for it made it, unless one of its own
\* requests failed or met another one: requests for other credentials, however
\* they overlap, do not disturb it.
SecretsStand ==
    \A k \in Creds :
        k \notin trouble /\ (\A a \in Admins : k \notin Names(todo[a])) =>
            secret[k] = last[k]

\* While requests neither fail nor overlap, the credentials that are listed as
\* configured are those that the manifest dates, and every flag that was applied
\* is in force.
SettledAgrees ==
    "any" \notin trouble /\ (\A a \in Admins : pc[a] = "idle") =>
        /\ \A k \in Creds : Status(k).configured = Status(k).dated
        /\ flags = promised

\* After a change of credentials a thread gets the client made from what it
\* read, and the client and its configuration belong together, whatever the
\* administrators do, unless a thread looked while another one was making it.
ClientIsCurrent ==
    ~ crossed =>
        /\ (\A r \in Readers : ~ Making(r)) => client = config
        /\ \A r \in Readers : rpc[r] = "take" /\ ~ disturbed[r] => client = got[r]
=============================================================================
