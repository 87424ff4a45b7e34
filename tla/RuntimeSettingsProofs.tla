------------------------ MODULE RuntimeSettingsProofs ------------------------
(***************************************************************************)
(* Proofs about RuntimeSettings, for any threads, any requests and any     *)
(* number of them.                                                         *)
(*                                                                         *)
(* A credential that had no overlap is in the hands of one administrator   *)
(* at most (OwnersInv), so between its file and its record nobody else     *)
(* touches it (SecretInv).  Without any overlap the same holds of the      *)
(* manifest and the flags (AgreeInv).  The client and its configuration    *)
(* are made by one thread at a time unless two have crossed (ClientInv).   *)
(***************************************************************************)
EXTENDS RuntimeSettings, SequenceTheorems, TLAPS

\* What a thread has in hand is of the kind that its step is about.
StepInv ==
    \A a \in Admins :
        /\ pc[a] \in {"open", "write"} => Now(a).kind = "save"
        /\ pc[a] = "unlink" => Now(a).kind = "drop"
        /\ pc[a] \in {"truncate", "put"} => copy[a] \subseteq IF OnFlags(a) THEN Flags ELSE Creds

GotInv ==
    \A r \in Readers :
        /\ rpc[r] = "host" => got[r][1] # Missing
        /\ rpc[r] \in {"compare", "build", "keep"} => got[r] \in Configs

Typed == TypeOK /\ StepInv /\ GotInv

AdminStep(a) ==
    \/ \E request \in Requests : Receive(a, request)
    \/ OpenSecret(a) \/ WriteSecret(a) \/ Unlink(a)
    \/ ReadFile(a) \/ Truncate(a) \/ Put(a) \/ Fails(a)
ReaderStep(r) ==
    \/ NeedClient(r) \/ ReadKey(r) \/ ReadHost(r) \/ Compare(r)
    \/ Build(r) \/ MakeFails(r) \/ KeepConfig(r) \/ Take(r)

LEMMA NextIsSomebodys ==
    ASSUME [Next]_vars
    PROVE  \/ \E a \in Admins : AdminStep(a)
           \/ \E r \in Readers : ReaderStep(r)
           \/ Restart \/ UNCHANGED vars
BY DEF Next, AdminStep, ReaderStep

-----------------------------------------------------------------------------
(* Changes and requests.                                                   *)

LEMMA ChangeForms ==
    ASSUME NEW change \in Changes
    PROVE  \/ change.kind = "save" /\ change.name \in Creds /\ change.value \in Values
           \/ change.kind = "drop" /\ change.name \in Creds /\ change.value = Missing
           \/ change.kind = "set" /\ change.name \in Flags /\ change.name \notin Creds
BY DEF Changes, Save, Drop, Apply, Creds, Flags

LEMMA NamesOf ==
    ASSUME NEW s \in Seq(Changes), s # <<>>
    PROVE  /\ Head(s) \in Changes /\ Tail(s) \in Seq(Changes)
           /\ Names(Tail(s)) \subseteq Names(s)
           /\ Head(s).name \in Creds => Head(s).name \in Names(s)
<1>1. /\ Head(s) \in Changes /\ Tail(s) \in Seq(Changes) /\ Len(Tail(s)) = Len(s) - 1
      /\ \A i \in 1 .. Len(Tail(s)) : Tail(s)[i] = s[i + 1]
  BY HeadTailProperties
<1>2. Len(s) \in Nat \ {0} /\ Head(s) = s[1]
  BY EmptySeq
<1>3. ASSUME NEW i \in 1 .. Len(Tail(s))
      PROVE  Tail(s)[i].name \in {s[j].name : j \in 1 .. Len(s)}
  <2>1. i + 1 \in 1 .. Len(s) /\ Tail(s)[i] = s[i + 1]
    BY <1>1, <1>2
  <2> QED BY <2>1
<1>4. 1 \in 1 .. Len(s)
  BY <1>2
<1> QED BY <1>1, <1>2, <1>3, <1>4 DEF Names

LEMMA NamesOfNone == Names(<<>>) = {}
BY DEF Names

LEMMA FirstStepIs ==
    ASSUME NEW s \in Seq(Changes)
    PROVE  \/ s = <<>> /\ FirstStep(s) = "idle"
           \/ /\ s # <<>> /\ Head(s) \in Changes
              /\ \/ FirstStep(s) = "open" /\ Head(s).kind = "save"
                 \/ FirstStep(s) = "unlink" /\ Head(s).kind = "drop"
                 \/ FirstStep(s) = "read" /\ Head(s).kind = "set"
<1>1. CASE s = <<>>
  BY <1>1 DEF FirstStep
<1>2. CASE s # <<>>
  <2>1. Head(s) \in Changes
    BY <1>2, NamesOf
  <2> QED BY <1>2, <2>1, ChangeForms DEF FirstStep
<1> QED BY <1>1, <1>2

LEMMA NowIs ==
    ASSUME TypeOK, NEW a \in Admins, pc[a] # "idle"
    PROVE  /\ todo[a] \in Seq(Changes) /\ todo[a] # <<>> /\ Now(a) \in Changes
           /\ Tail(todo[a]) \in Seq(Changes)
           /\ Names(Tail(todo[a])) \subseteq Names(todo[a])
           /\ Now(a).name \in Creds => Now(a).name \in Names(todo[a])
<1>1. todo[a] \in Seq(Changes) /\ todo[a] # <<>>
  BY DEF TypeOK
<1> QED BY <1>1, NamesOf DEF Now

-----------------------------------------------------------------------------
(* What the step of an administrator does to its own values.               *)

LEMMA ReceiveEffect ==
    ASSUME TypeOK, NEW a \in Admins, NEW request \in Requests, Receive(a, request)
    PROVE  /\ pc[a] = "idle" /\ pc'[a] = FirstStep(request)
           /\ todo'[a] = request /\ request \in Seq(Changes)
           /\ hand' = hand /\ copy' = copy
BY RequestsAreChanges DEF Receive, TypeOK

LEMMA SecretEffect ==
    ASSUME TypeOK, NEW a \in Admins
    PROVE  /\ OpenSecret(a) => pc[a] = "open" /\ pc'[a] = "write" /\ hand'[a] = "own"
           /\ WriteSecret(a) => pc[a] = "write" /\ pc'[a] = "read" /\ hand'[a] = "own"
           /\ Unlink(a) => pc[a] = "unlink" /\ pc'[a] = "read" /\ hand'[a] = "own"
           /\ OpenSecret(a) \/ WriteSecret(a) \/ Unlink(a) =>
                todo' = todo /\ copy' = copy /\ UNCHANGED <<manifest, flags, last, promised, trouble>>
<1> USE DEF TypeOK
<1>1. OpenSecret(a) => pc[a] = "open" /\ pc'[a] = "write" /\ hand'[a] = "own"
  BY DEF OpenSecret
<1>2. WriteSecret(a) => pc[a] = "write" /\ pc'[a] = "read" /\ hand'[a] = "own"
  BY DEF WriteSecret, Tell
<1>3. Unlink(a) => pc[a] = "unlink" /\ pc'[a] = "read" /\ hand'[a] = "own"
  BY DEF Unlink, Tell
<1>4. OpenSecret(a) \/ WriteSecret(a) \/ Unlink(a) =>
                todo' = todo /\ copy' = copy /\ UNCHANGED <<manifest, flags, last, promised, trouble>>
  BY DEF OpenSecret, WriteSecret, Unlink, historyVars
<1> QED BY <1>1, <1>2, <1>3, <1>4

LEMMA FileEffect ==
    ASSUME TypeOK, NEW a \in Admins
    PROVE  /\ ReadFile(a) => /\ pc[a] = "read" /\ pc'[a] = "truncate" /\ hand' = hand
                             /\ copy'[a] = Readable(IF OnFlags(a) THEN flags ELSE manifest)
                             /\ UNCHANGED <<fileVars, todo, historyVars>>
           /\ Truncate(a) => /\ pc[a] = "truncate" /\ pc'[a] = "put" /\ hand'[a] = "own"
                             /\ Write(a, Torn) /\ UNCHANGED <<secret, todo, copy, historyVars>>
           /\ Put(a) => /\ pc[a] = "put" /\ pc'[a] = FirstStep(Tail(todo[a])) /\ hand'[a] = "own"
                        /\ todo'[a] = Tail(todo[a]) /\ copy'[a] = {}
                        /\ UNCHANGED <<secret, trouble>>
<1> USE DEF TypeOK
<1>1. ReadFile(a) => /\ pc[a] = "read" /\ pc'[a] = "truncate" /\ hand' = hand
                     /\ copy'[a] = Readable(IF OnFlags(a) THEN flags ELSE manifest)
                     /\ UNCHANGED <<fileVars, todo, historyVars>>
  BY DEF ReadFile
<1>2. Truncate(a) => /\ pc[a] = "truncate" /\ pc'[a] = "put" /\ hand'[a] = "own"
                     /\ Write(a, Torn) /\ UNCHANGED <<secret, todo, copy, historyVars>>
  BY DEF Truncate
<1>3. Put(a) => /\ pc[a] = "put" /\ pc'[a] = FirstStep(Tail(todo[a])) /\ hand'[a] = "own"
                /\ todo'[a] = Tail(todo[a]) /\ copy'[a] = {}
                /\ UNCHANGED <<secret, trouble>>
  BY DEF Put, Tell
<1> QED BY <1>1, <1>2, <1>3

LEMMA OthersStay ==
    ASSUME TypeOK, NEW a \in Admins, NEW b \in Admins \ {a}, AdminStep(a)
    PROVE  pc'[b] = pc[b] /\ todo'[b] = todo[b] /\ copy'[b] = copy[b]
<1> USE DEF TypeOK
<1>1. CASE \E request \in Requests : Receive(a, request)
  BY <1>1 DEF Receive
<1>2. CASE OpenSecret(a) \/ WriteSecret(a) \/ Unlink(a)
  BY <1>2 DEF OpenSecret, WriteSecret, Unlink
<1>3. CASE ReadFile(a) \/ Truncate(a) \/ Put(a)
  BY <1>3 DEF ReadFile, Truncate, Put
<1>4. CASE Fails(a)
  BY <1>4 DEF Fails, Dropped
<1> QED BY <1>1, <1>2, <1>3, <1>4 DEF AdminStep

\* Administrators and threads that need the client have no variable in common.
LEMMA ClientsStay ==
    ASSUME NEW a \in Admins, AdminStep(a)
    PROVE  UNCHANGED clientVars
BY DEF AdminStep, Receive, OpenSecret, WriteSecret, Unlink, ReadFile, Truncate, Put, Fails

LEMMA FilesStay ==
    ASSUME NEW r \in Readers, ReaderStep(r)
    PROVE  UNCHANGED <<fileVars, adminVars, historyVars>>
<1>1. CASE NeedClient(r) \/ ReadKey(r) \/ ReadHost(r) \/ Compare(r)
  BY <1>1 DEF NeedClient, ReadKey, ReadHost, Compare
<1>2. CASE Build(r) \/ MakeFails(r) \/ KeepConfig(r) \/ Take(r)
  BY <1>2 DEF Build, MakeFails, KeepConfig, Take
<1> QED BY <1>1, <1>2 DEF ReaderStep

-----------------------------------------------------------------------------
(* Types.                                                                  *)

LEMMA TypeInit == Init => Typed
<1> SUFFICES ASSUME Init PROVE Typed
  OBVIOUS
<1>1. <<>> \in Seq(Changes) /\ 0 \in 0 .. MaxRequests
  BY EmptySeq, RequestsAreBounded
<1>2. TypeOK
  BY <1>1 DEF Init, TypeOK, Contents
<1> QED BY <1>2 DEF Init, Typed, StepInv, GotInv

\* Most steps change only where their administrator is.
AdminTypes ==
    /\ pc \in [Admins -> {"idle", "open", "write", "unlink", "read", "truncate", "put"}]
    /\ todo \in [Admins -> Seq(Changes)]
    /\ \A a \in Admins : pc[a] = "idle" <=> todo[a] = <<>>
    /\ copy \in [Admins -> SUBSET (Creds \cup Flags)]
    /\ hand \in [Admins -> {"own", "written", "gone"}]
FileTypes ==
    /\ secret \in [Creds -> Contents]
    /\ manifest \in (SUBSET Creds) \cup {Torn}
    /\ flags \in (SUBSET Flags) \cup {Torn}
HistoryTypes ==
    /\ received \in 0 .. MaxRequests
    /\ last \in [Creds -> Values \cup {Missing}]
    /\ promised \in SUBSET Flags
    /\ trouble \in SUBSET (Creds \cup {"any"})
ClientTypes ==
    /\ rpc \in [Readers -> {"idle", "key", "host", "compare", "build", "keep", "take"}]
    /\ got \in [Readers -> Contents \X Contents]
    /\ client \in Configs \cup {Missing}
    /\ config \in Configs \cup {Missing}
    /\ crossed \in BOOLEAN
    /\ disturbed \in [Readers -> BOOLEAN]

LEMMA HandsTyped ==
    ASSUME TypeOK, NEW a \in Admins, NEW change \in {"written", "gone"}, NEW holders,
           Tell(a, change, holders)
    PROVE  hand' \in [Admins -> {"own", "written", "gone"}]
BY DEF TypeOK, Tell

LEMMA AdminTypesNext ==
    ASSUME Typed, NEW a \in Admins, AdminStep(a)
    PROVE  AdminTypes'
<1> USE DEF Typed
<1>1. ASSUME NEW request \in Requests, Receive(a, request) PROVE AdminTypes'
  <2>1. request \in Seq(Changes) /\ todo' = [todo EXCEPT ![a] = request]
        /\ pc' = [pc EXCEPT ![a] = FirstStep(request)] /\ hand' = hand /\ copy' = copy
    BY <1>1, RequestsAreChanges DEF Receive
  <2>2. FirstStep(request) \in {"idle", "open", "unlink", "read"}
        /\ (FirstStep(request) = "idle" <=> request = <<>>)
    BY <2>1, FirstStepIs
  <2> QED BY <2>1, <2>2 DEF TypeOK, AdminTypes
<1>2. CASE OpenSecret(a)
  BY <1>2 DEF OpenSecret, TypeOK, AdminTypes
<1>3. CASE WriteSecret(a)
  <2>1. hand' \in [Admins -> {"own", "written", "gone"}]
    BY <1>3, HandsTyped DEF WriteSecret
  <2> QED BY <1>3, <2>1 DEF WriteSecret, TypeOK, AdminTypes
<1>4. CASE Unlink(a)
  <2>1. hand' \in [Admins -> {"own", "written", "gone"}]
    BY <1>4, HandsTyped DEF Unlink
  <2> QED BY <1>4, <2>1 DEF Unlink, TypeOK, AdminTypes
<1>5. CASE ReadFile(a)
  <2>1. Readable(IF OnFlags(a) THEN flags ELSE manifest) \in SUBSET (Creds \cup Flags)
    BY DEF Readable, TypeOK
  <2>2. copy' = [copy EXCEPT ![a] = Readable(IF OnFlags(a) THEN flags ELSE manifest)]
        /\ pc' = [pc EXCEPT ![a] = "truncate"] /\ pc[a] = "read" /\ todo' = todo /\ hand' = hand
    BY <1>5 DEF ReadFile
  <2> HIDE DEF Readable
  <2>3. copy' \in [Admins -> SUBSET (Creds \cup Flags)]
    BY <2>1, <2>2 DEF TypeOK
  <2> QED BY <2>2, <2>3 DEF TypeOK, AdminTypes
<1>6. CASE Truncate(a)
  BY <1>6 DEF Truncate, TypeOK, AdminTypes
<1>7. CASE Put(a)
  <2>1. hand' \in [Admins -> {"own", "written", "gone"}]
    BY <1>7, HandsTyped DEF Put
  <2>2. Tail(todo[a]) \in Seq(Changes) /\ pc[a] = "put"
    BY <1>7, NowIs DEF Put
  <2>3. FirstStep(Tail(todo[a])) \in {"idle", "open", "unlink", "read"}
        /\ (FirstStep(Tail(todo[a])) = "idle" <=> Tail(todo[a]) = <<>>)
    BY <2>2, FirstStepIs
  <2>4. todo' = [todo EXCEPT ![a] = Tail(todo[a])] /\ copy' = [copy EXCEPT ![a] = {}]
        /\ pc' = [pc EXCEPT ![a] = FirstStep(Tail(todo[a]))]
    BY <1>7 DEF Put
  <2> QED BY <2>1, <2>2, <2>3, <2>4 DEF TypeOK, AdminTypes
<1>8. CASE Fails(a)
  <2>1. <<>> \in Seq(Changes)
    BY EmptySeq
  <2> QED BY <1>8, <2>1 DEF Fails, Dropped, TypeOK, AdminTypes
<1> QED BY <1>1, <1>2, <1>3, <1>4, <1>5, <1>6, <1>7, <1>8 DEF AdminStep

LEMMA StepNext ==
    ASSUME Typed, NEW a \in Admins, AdminStep(a)
    PROVE  StepInv'
<1> USE DEF Typed
<1>1. ASSUME NEW b \in Admins \ {a}
      PROVE  /\ pc'[b] \in {"open", "write"} => Now(b)'.kind = "save"
             /\ pc'[b] = "unlink" => Now(b)'.kind = "drop"
             /\ pc'[b] \in {"truncate", "put"} =>
                  copy'[b] \subseteq IF OnFlags(b)' THEN Flags ELSE Creds
  BY OthersStay DEF StepInv, Now, OnFlags
<1>2. /\ pc'[a] \in {"open", "write"} => Now(a)'.kind = "save"
      /\ pc'[a] = "unlink" => Now(a)'.kind = "drop"
      /\ pc'[a] \in {"truncate", "put"} =>
           copy'[a] \subseteq IF OnFlags(a)' THEN Flags ELSE Creds
  <2>1. ASSUME NEW s \in Seq(Changes), todo'[a] = s, pc'[a] = FirstStep(s)
        PROVE  /\ pc'[a] \in {"open", "write"} => Now(a)'.kind = "save"
               /\ pc'[a] = "unlink" => Now(a)'.kind = "drop"
               /\ pc'[a] \notin {"truncate", "put"}
    BY <2>1, FirstStepIs DEF Now
  <2>2. CASE \E request \in Requests : Receive(a, request)
    BY <2>1, <2>2, ReceiveEffect
  <2>3. CASE OpenSecret(a) \/ WriteSecret(a) \/ Unlink(a)
    BY <2>3, SecretEffect DEF StepInv, Now, OnFlags
  <2>4. CASE ReadFile(a)
    <3>1. flags \in (SUBSET Flags) \cup {Torn} /\ manifest \in (SUBSET Creds) \cup {Torn}
      BY DEF TypeOK
    <3>2. /\ pc'[a] = "truncate" /\ todo' = todo
          /\ copy'[a] = Readable(IF OnFlags(a) THEN flags ELSE manifest)
      BY <2>4, FileEffect
    <3>3. copy'[a] \subseteq IF OnFlags(a) THEN Flags ELSE Creds
      BY <3>1, <3>2 DEF Readable
    <3> QED BY <3>2, <3>3 DEF OnFlags, Now
  <2>5. CASE Truncate(a)
    BY <2>5, FileEffect DEF StepInv, Now, OnFlags
  <2>6. CASE Put(a)
    BY <2>1, <2>6, FileEffect, NowIs
  <2>7. CASE Fails(a)
    BY <2>7 DEF Fails, Dropped, TypeOK
  <2> QED BY <2>2, <2>3, <2>4, <2>5, <2>6, <2>7 DEF AdminStep
<1> QED BY <1>1, <1>2 DEF StepInv

LEMMA FileTypesNext ==
    ASSUME Typed, NEW a \in Admins, AdminStep(a)
    PROVE  FileTypes' /\ HistoryTypes'
<1> USE DEF Typed
<1>1. ASSUME NEW request \in Requests, Receive(a, request) PROVE FileTypes' /\ HistoryTypes'
  <2>1. received' \in 0 .. MaxRequests
    BY <1>1, RequestsAreBounded DEF Receive, TypeOK
  <2>2. Names(request) \subseteq Creds
    BY DEF Names
  <2>3. trouble' \in SUBSET (Creds \cup {"any"})
    BY <1>1, <2>2 DEF Receive, TypeOK
  <2> QED BY <1>1, <2>1, <2>3 DEF Receive, TypeOK, FileTypes, HistoryTypes, fileVars
<1>2. CASE OpenSecret(a) \/ WriteSecret(a) \/ Unlink(a)
  <2>1. Now(a) \in Changes /\ (Now(a).kind = "save" \/ Now(a).kind = "drop")
    BY <1>2, SecretEffect, NowIs DEF StepInv
  <2>2. Now(a).name \in Creds /\ Now(a).value \in Contents
    BY <2>1, ChangeForms DEF Contents
  <2>3. \E c \in Contents : secret' = secret \/ secret' = [secret EXCEPT ![Now(a).name] = c]
    BY <1>2, <2>2 DEF OpenSecret, WriteSecret, Unlink, Contents
  <2>4. secret' \in [Creds -> Contents]
    BY <2>2, <2>3 DEF TypeOK
  <2>5. UNCHANGED <<manifest, flags, last, promised, trouble, received>>
    BY <1>2 DEF OpenSecret, WriteSecret, Unlink, historyVars
  <2> QED BY <2>4, <2>5 DEF TypeOK, FileTypes, HistoryTypes
<1>3. CASE ReadFile(a) \/ Truncate(a)
  <2>1. \/ UNCHANGED fileVars
        \/ secret' = secret /\ Write(a, Torn)
    BY <1>3 DEF ReadFile, Truncate
  <2>2. UNCHANGED <<last, promised, trouble, received>>
    BY <1>3 DEF ReadFile, Truncate, historyVars
  <2> QED BY <2>1, <2>2 DEF TypeOK, FileTypes, HistoryTypes, fileVars, Write
<1>4. CASE Put(a)
  <2>1. /\ pc[a] = "put" /\ Now(a) \in Changes
        /\ copy[a] \subseteq IF OnFlags(a) THEN Flags ELSE Creds
    BY <1>4, FileEffect, NowIs DEF StepInv
  <2>2. Revised(a) \in IF OnFlags(a) THEN SUBSET Flags ELSE SUBSET Creds
    BY <2>1, ChangeForms DEF Revised, OnFlags
  <2>3. UNCHANGED <<secret, received, trouble>>
        /\ \E c \in {Revised(a), Torn} : Write(a, c)
    BY <1>4 DEF Put
  <2>4. FileTypes'
    BY <2>2, <2>3 DEF TypeOK, FileTypes, Write
  <2>5. IF OnFlags(a) THEN promised' = promised \cup {Now(a).name} /\ last' = last
        ELSE last' = [last EXCEPT ![Now(a).name] = Now(a).value] /\ promised' = promised
    BY <1>4 DEF Put
  <2>6. IF OnFlags(a) THEN Now(a).name \in Flags
        ELSE Now(a).name \in Creds /\ Now(a).value \in Values \cup {Missing}
    BY <2>1, ChangeForms DEF OnFlags
  <2> QED BY <2>3, <2>4, <2>5, <2>6 DEF TypeOK, HistoryTypes
<1>5. CASE Fails(a)
  <2>1. Names(todo[a]) \subseteq Creds
    BY DEF Names
  <2> QED BY <1>5, <2>1 DEF Fails, Dropped, TypeOK, FileTypes, HistoryTypes, fileVars
<1> QED BY <1>1, <1>2, <1>3, <1>4, <1>5 DEF AdminStep

-----------------------------------------------------------------------------
(* Threads that need the client.                                           *)

LEMMA ReaderEffect ==
    ASSUME TypeOK, NEW r \in Readers
    PROVE  /\ NeedClient(r) => rpc'[r] = "key" /\ UNCHANGED <<got, client, config, crossed, disturbed>>
           /\ ReadKey(r) => /\ rpc[r] = "key"
                            /\ \/ rpc'[r] = "idle"
                               \/ /\ rpc'[r] = "host" /\ secret["mem0_api_key"] # Missing
                                  /\ got' = [got EXCEPT ![r][1] = secret["mem0_api_key"]]
           /\ ReadHost(r) => /\ rpc[r] = "host" /\ rpc'[r] = "compare"
                             /\ UNCHANGED <<client, config, crossed, disturbed>>
           /\ Compare(r) => /\ rpc[r] = "compare"
                            /\ rpc'[r] = IF Fits(r) THEN "take" ELSE "build"
                            /\ UNCHANGED <<got, client, config, disturbed>>
           /\ Build(r) => /\ rpc[r] = "build" /\ rpc'[r] = "keep"
                          /\ client' = got[r] /\ UNCHANGED <<got, config, crossed>>
           /\ MakeFails(r) => rpc[r] = "build" /\ rpc'[r] = "idle"
           /\ KeepConfig(r) => /\ rpc[r] = "keep" /\ rpc'[r] = "take"
                               /\ config' = got[r] /\ UNCHANGED <<got, client, crossed, disturbed>>
           /\ Take(r) => rpc[r] = "take" /\ rpc'[r] = "idle"
<1> USE DEF TypeOK, GoOn, Return
<1>1. NeedClient(r) => rpc'[r] = "key" /\ UNCHANGED <<got, client, config, crossed, disturbed>>
  BY DEF NeedClient
<1>2. ReadKey(r) => /\ rpc[r] = "key"
                    /\ \/ rpc'[r] = "idle"
                       \/ /\ rpc'[r] = "host" /\ secret["mem0_api_key"] # Missing
                          /\ got' = [got EXCEPT ![r][1] = secret["mem0_api_key"]]
  BY DEF ReadKey
<1>3. ReadHost(r) => /\ rpc[r] = "host" /\ rpc'[r] = "compare"
                     /\ UNCHANGED <<client, config, crossed, disturbed>>
  BY DEF ReadHost
<1>4. Compare(r) => /\ rpc[r] = "compare"
                    /\ rpc'[r] = IF Fits(r) THEN "take" ELSE "build"
                    /\ UNCHANGED <<got, client, config, disturbed>>
  BY DEF Compare
<1>5. Build(r) => /\ rpc[r] = "build" /\ rpc'[r] = "keep"
                  /\ client' = got[r] /\ UNCHANGED <<got, config, crossed>>
  BY DEF Build
<1>6. MakeFails(r) => rpc[r] = "build" /\ rpc'[r] = "idle"
  BY DEF MakeFails
<1>7. KeepConfig(r) => /\ rpc[r] = "keep" /\ rpc'[r] = "take"
                       /\ config' = got[r] /\ UNCHANGED <<got, client, crossed, disturbed>>
  BY DEF KeepConfig
<1>8. Take(r) => rpc[r] = "take" /\ rpc'[r] = "idle"
  BY DEF Take
<1> QED BY <1>1, <1>2, <1>3, <1>4, <1>5, <1>6, <1>7, <1>8

LEMMA OtherReadersStay ==
    ASSUME TypeOK, NEW r \in Readers, NEW o \in Readers \ {r}, ReaderStep(r)
    PROVE  /\ rpc'[o] = rpc[o] /\ got'[o] = got[o]
           /\ IF Build(r) THEN disturbed'[o] = (disturbed[o] \/ rpc[o] # "idle")
                          ELSE disturbed'[o] = disturbed[o]
<1> USE DEF TypeOK, GoOn, Return
<1>1. CASE NeedClient(r) \/ ReadKey(r) \/ ReadHost(r) \/ Compare(r)
  <2>1. rpc[r] # "build"
    BY <1>1 DEF NeedClient, ReadKey, ReadHost, Compare
  <2> QED BY <1>1, <2>1 DEF NeedClient, ReadKey, ReadHost, Compare, Build
<1>2. CASE Build(r)
  BY <1>2 DEF Build
<1>3. CASE MakeFails(r)
  <2>1. ~ Build(r)
    BY <1>3, ReaderEffect
  <2> QED BY <1>3, <2>1 DEF MakeFails
<1>4. CASE KeepConfig(r) \/ Take(r)
  <2>1. ~ Build(r)
    BY <1>4, ReaderEffect
  <2> QED BY <1>4, <2>1 DEF KeepConfig, Take
<1> QED BY <1>1, <1>2, <1>3, <1>4 DEF ReaderStep

\* What a thread has read of the credentials makes a client.
LEMMA GotNext ==
    ASSUME Typed, NEW r \in Readers, ReaderStep(r)
    PROVE  /\ got' \in [Readers -> Contents \X Contents]
           /\ rpc'[r] = "host" => got'[r][1] # Missing
           /\ rpc'[r] \in {"compare", "build", "keep"} => got'[r] \in Configs
<1> USE DEF Typed
<1>0. /\ got \in [Readers -> Contents \X Contents] /\ secret \in [Creds -> Contents]
      /\ Missing \in Contents
  BY DEF TypeOK, Contents
<1>1. CASE ReadKey(r) /\ rpc'[r] = "host"
  <2> DEFINE k == secret["mem0_api_key"]
  <2>1. k \in Contents /\ k # Missing /\ got' = [got EXCEPT ![r][1] = k]
    BY <1>0, <1>1, ReaderEffect DEF Creds
  <2> HIDE DEF k
  <2>2. [got[r] EXCEPT ![1] = k] = <<k, got[r][2]>>
    BY <1>0
  <2>3. got' = [got EXCEPT ![r] = <<k, got[r][2]>>]
    BY <2>1, <2>2
  <2> QED BY <1>0, <1>1, <2>1, <2>3
<1>2. CASE ReadHost(r)
  <2> DEFINE h == IF secret["mem0_host"] = Empty THEN Missing ELSE secret["mem0_host"]
  <2>1. h \in Contents /\ h # Empty /\ got' = [got EXCEPT ![r][2] = h]
    BY <1>0, <1>2, MissingIsApart DEF ReadHost, Creds
  <2> HIDE DEF h
  <2>2. [got[r] EXCEPT ![2] = h] = <<got[r][1], h>>
    BY <1>0
  <2>3. got' = [got EXCEPT ![r] = <<got[r][1], h>>]
    BY <2>1, <2>2
  <2>4. rpc[r] = "host" /\ rpc'[r] = "compare"
    BY <1>2, ReaderEffect
  <2>5. got[r][1] \in Contents \ {Missing}
    BY <1>0, <2>4 DEF GotInv
  <2>6. <<got[r][1], h>> \in Configs
    BY <2>1, <2>5 DEF Configs, Contents
  <2>7. got'[r] = <<got[r][1], h>>
    BY <1>0, <2>3
  <2>8. <<got[r][1], h>> \in Contents \X Contents
    BY <2>1, <2>5
  <2>9. got' \in [Readers -> Contents \X Contents]
    BY <1>0, <2>3, <2>8
  <2> QED BY <2>4, <2>6, <2>7, <2>9
<1>3. CASE (ReadKey(r) /\ rpc'[r] # "host") \/ MakeFails(r) \/ Take(r)
  <2>1. rpc'[r] = "idle"
    BY <1>3, ReaderEffect
  <2>2. got' = got \/ got' = [got EXCEPT ![r] = <<Missing, Missing>>]
    <3>1. ReadKey(r) /\ rpc'[r] # "host" => Return(r)
      BY DEF ReadKey, GoOn, TypeOK
    <3> QED BY <1>3, <3>1 DEF MakeFails, Take, Return
  <2> QED BY <1>0, <2>1, <2>2
<1>4. CASE NeedClient(r) \/ Compare(r) \/ Build(r) \/ KeepConfig(r)
  <2>1. got' = got
    BY <1>4, ReaderEffect
  <2>2. rpc'[r] \in {"key", "take"} \/ (rpc[r] \in {"compare", "build"} /\ rpc'[r] # "host")
    BY <1>4, ReaderEffect
  <2> QED BY <1>0, <2>1, <2>2 DEF GotInv
<1> QED BY <1>1, <1>2, <1>3, <1>4 DEF ReaderStep

LEMMA ClientTypesNext ==
    ASSUME Typed, NEW r \in Readers, ReaderStep(r)
    PROVE  ClientTypes' /\ GotInv'
<1> USE DEF Typed
<1>1. got' \in [Readers -> Contents \X Contents]
  BY GotNext
<1>2. GotInv'
  BY GotNext, OtherReadersStay DEF GotInv
<1>3. rpc' \in [Readers -> {"idle", "key", "host", "compare", "build", "keep", "take"}]
  BY DEF ReaderStep, NeedClient, ReadKey, ReadHost, Compare, Build, MakeFails, KeepConfig, Take,
         Return, GoOn, TypeOK
<1>4. disturbed' \in [Readers -> BOOLEAN]
  <2>1. CASE Build(r)
    BY <2>1 DEF Build, TypeOK
  <2>2. CASE NeedClient(r) \/ ReadHost(r) \/ Compare(r) \/ KeepConfig(r)
    BY <2>2, ReaderEffect DEF TypeOK
  <2>3. CASE ReadKey(r) \/ MakeFails(r) \/ Take(r)
    <3>1. disturbed' = disturbed \/ disturbed' = [disturbed EXCEPT ![r] = FALSE]
      BY <2>3 DEF ReadKey, MakeFails, Take, Return
    <3> QED BY <3>1 DEF TypeOK
  <2> QED BY <2>1, <2>2, <2>3 DEF ReaderStep
<1>5. client' \in Configs \cup {Missing} /\ config' \in Configs \cup {Missing}
  <2>1. CASE Build(r) \/ KeepConfig(r)
    BY <2>1, ReaderEffect DEF GotInv, TypeOK
  <2>2. CASE ~ Build(r) /\ ~ KeepConfig(r)
    BY <2>2 DEF ReaderStep, NeedClient, ReadKey, ReadHost, Compare, MakeFails, Take, TypeOK
  <2> QED BY <2>1, <2>2
<1>6. crossed' \in BOOLEAN
  <2>1. CASE Compare(r)
    BY <2>1 DEF Compare, TypeOK
  <2>2. CASE ~ Compare(r)
    BY <2>2 DEF ReaderStep, NeedClient, ReadKey, ReadHost, Build, MakeFails, KeepConfig, Take, TypeOK
  <2> QED BY <2>1, <2>2
<1> QED BY <1>1, <1>2, <1>3, <1>4, <1>5, <1>6 DEF ClientTypes

\* Nobody has anything in hand after a restart.
LEMMA RestartTypes == ASSUME Typed, Restart PROVE Typed'
<1> USE DEF Typed
<1>1. <<>> \in Seq(Changes)
  BY EmptySeq
<1>2. \A a \in Admins : pc'[a] = "idle" /\ todo'[a] = <<>>
  BY DEF Restart, Dropped, TypeOK
<1>3. AdminTypes'
  BY <1>1 DEF Restart, Dropped, TypeOK, AdminTypes
<1>4. FileTypes'
  BY DEF Restart, Dropped, TypeOK, FileTypes, fileVars
<1>5. HistoryTypes'
  <2>1. \A a \in Admins : Names(todo[a]) \subseteq Creds
    BY DEF Names
  <2>2. trouble' \in SUBSET (Creds \cup {"any"})
    BY <2>1 DEF Restart, Dropped, TypeOK
  <2> QED BY <2>2 DEF Restart, Dropped, TypeOK, HistoryTypes
<1>6. ClientTypes' /\ GotInv'
  BY DEF Restart, ClientTypes, GotInv, Contents
<1>7. TypeOK'
  BY <1>3, <1>4, <1>5, <1>6 DEF TypeOK, AdminTypes, FileTypes, HistoryTypes, ClientTypes
<1> QED BY <1>2, <1>6, <1>7 DEF StepInv

LEMMA TypeNext == Typed /\ [Next]_vars => Typed'
<1> SUFFICES ASSUME Typed, [Next]_vars PROVE Typed'
  OBVIOUS
<1>1. ASSUME NEW a \in Admins, AdminStep(a) PROVE Typed'
  <2>1. AdminTypes' /\ FileTypes' /\ HistoryTypes' /\ StepInv'
    BY <1>1, AdminTypesNext, FileTypesNext, StepNext
  <2>2. ClientTypes' /\ GotInv'
    BY <1>1, ClientsStay DEF clientVars, Typed, TypeOK, ClientTypes, GotInv
  <2>3. TypeOK'
    BY <2>1, <2>2 DEF TypeOK, AdminTypes, FileTypes, HistoryTypes, ClientTypes
  <2> QED BY <2>1, <2>2, <2>3 DEF Typed
<1>2. ASSUME NEW r \in Readers, ReaderStep(r) PROVE Typed'
  <2>1. ClientTypes' /\ GotInv'
    BY <1>2, ClientTypesNext
  <2>2. UNCHANGED <<secret, manifest, flags, pc, todo, copy, hand, received, last, promised, trouble>>
    BY <1>2, FilesStay DEF fileVars, adminVars, historyVars
  <2>3. AdminTypes' /\ FileTypes' /\ HistoryTypes'
    BY <2>2 DEF Typed, TypeOK, AdminTypes, FileTypes, HistoryTypes
  <2>4. StepInv'
    BY <2>2 DEF Typed, StepInv, Now, OnFlags
  <2>5. TypeOK'
    BY <2>1, <2>3 DEF TypeOK, AdminTypes, FileTypes, HistoryTypes, ClientTypes
  <2> QED BY <2>1, <2>4, <2>5 DEF Typed
<1>3. CASE UNCHANGED vars
  BY <1>3 DEF vars, fileVars, adminVars, historyVars, clientVars, Typed, TypeOK, StepInv, GotInv,
              Now, OnFlags
<1> QED BY <1>1, <1>2, <1>3, RestartTypes, NextIsSomebodys

-----------------------------------------------------------------------------
(* The client and its configuration.                                       *)

ClientInv ==
    ~ crossed =>
        /\ \A r, o \in Readers : Making(r) /\ Making(o) => r = o
        /\ (\A r \in Readers : rpc[r] # "keep") => client = config
        /\ \A r \in Readers : rpc[r] = "keep" => client = got[r]
        /\ \A r \in Readers : rpc[r] = "take" /\ ~ disturbed[r] => client = got[r]

LEMMA ClientMoves ==
    ASSUME TypeOK, ClientInv, NEW r \in Readers, ReaderStep(r)
    PROVE  ClientInv'
<1> SUFFICES ASSUME ~ crossed' PROVE ClientInv'
  BY DEF ClientInv
<1> USE DEF Making
<1>0. /\ \A x, o \in Readers : Making(x) /\ Making(o) => x = o
      /\ (\A x \in Readers : rpc[x] # "keep") => client = config
      /\ \A x \in Readers : rpc[x] = "keep" => client = got[x]
      /\ \A x \in Readers : rpc[x] = "take" /\ ~ disturbed[x] => client = got[x]
  <2>1. ~ crossed
    BY DEF ReaderStep, NeedClient, ReadKey, ReadHost, Compare, Build, MakeFails, KeepConfig, Take
  <2> QED BY <2>1 DEF ClientInv
<1>1. \A o \in Readers \ {r} :
        /\ rpc'[o] = rpc[o] /\ got'[o] = got[o]
        /\ IF Build(r) THEN disturbed'[o] = (disturbed[o] \/ rpc[o] # "idle")
                       ELSE disturbed'[o] = disturbed[o]
  BY OtherReadersStay
<1>2. CASE NeedClient(r) \/ ReadKey(r) \/ ReadHost(r)
  <2>1. /\ rpc[r] \notin {"build", "keep", "take"} /\ rpc'[r] \notin {"build", "keep", "take"}
        /\ client' = client /\ config' = config /\ ~ Build(r)
    <3>1. NeedClient(r) => rpc[r] = "idle"
      BY DEF NeedClient
    <3>2. ReadKey(r) => client' = client /\ config' = config
      BY DEF ReadKey
    <3> QED BY <1>2, <3>1, <3>2, ReaderEffect
  <2> QED BY <1>0, <1>1, <2>1 DEF ClientInv
<1>3. CASE Compare(r)
  <2>1. /\ rpc[r] = "compare" /\ rpc'[r] = IF Fits(r) THEN "take" ELSE "build"
        /\ UNCHANGED <<got, client, config, disturbed>> /\ ~ Build(r)
    BY <1>3, ReaderEffect
  <2>2. \A o \in Readers \ {r} : ~ Making(o)
    BY <1>3 DEF Compare
  <2>3. client = config
    BY <1>0, <2>1, <2>2
  <2>4. Fits(r) => client = got[r]
    BY <2>3 DEF Fits
  <2> QED BY <1>0, <1>1, <2>1, <2>2, <2>3, <2>4 DEF ClientInv
<1>4. CASE Build(r)
  <2>1. rpc[r] = "build" /\ rpc'[r] = "keep" /\ client' = got[r] /\ got' = got
    BY <1>4, ReaderEffect
  <2>2. \A o \in Readers \ {r} : ~ Making(o)
    BY <1>0, <2>1
  <2>3. \A o \in Readers \ {r} : rpc'[o] = "take" => disturbed'[o]
    BY <1>1, <1>4
  <2> QED BY <1>1, <2>1, <2>2, <2>3 DEF ClientInv
<1>5. CASE MakeFails(r)
  <2>1. rpc[r] = "build" /\ rpc'[r] = "idle" /\ client' = client /\ config' = config /\ ~ Build(r)
    BY <1>5, ReaderEffect DEF MakeFails
  <2> QED BY <1>0, <1>1, <2>1 DEF ClientInv
<1>6. CASE KeepConfig(r)
  <2>1. /\ rpc[r] = "keep" /\ rpc'[r] = "take" /\ ~ Build(r)
        /\ config' = got[r] /\ UNCHANGED <<got, client, disturbed>>
    BY <1>6, ReaderEffect
  <2>2. client = got[r]
    BY <1>0, <2>1
  <2> QED BY <1>0, <1>1, <2>1, <2>2 DEF ClientInv
<1>7. CASE Take(r)
  <2>1. rpc[r] = "take" /\ rpc'[r] = "idle" /\ client' = client /\ config' = config /\ ~ Build(r)
    BY <1>7, ReaderEffect DEF Take
  <2> QED BY <1>0, <1>1, <2>1 DEF ClientInv
<1> QED BY <1>2, <1>3, <1>4, <1>5, <1>6, <1>7 DEF ReaderStep

LEMMA ClientNext == TypeOK /\ ClientInv /\ [Next]_vars => ClientInv'
<1> SUFFICES ASSUME TypeOK, ClientInv, [Next]_vars PROVE ClientInv'
  OBVIOUS
<1>1. ASSUME NEW a \in Admins, AdminStep(a) PROVE ClientInv'
  BY <1>1, ClientsStay DEF clientVars, ClientInv, Making
<1>2. CASE Restart
  BY <1>2 DEF Restart, ClientInv, Making
<1>3. CASE UNCHANGED vars
  BY <1>3 DEF vars, clientVars, ClientInv, Making
<1> QED BY <1>1, <1>2, <1>3, ClientMoves, NextIsSomebodys

-----------------------------------------------------------------------------
(* Credentials whose requests did not overlap.                             *)

OwnersInv ==
    \A k \in Creds \ trouble : \A a, b \in Admins :
        k \in Names(todo[a]) /\ k \in Names(todo[b]) => a = b

\* a is between the file of k and its record.
Busy(a, k) == pc[a] \in {"write", "read", "truncate", "put"} /\ Now(a).name = k

SecretInv ==
    \A k \in Creds \ trouble :
        /\ (\A a \in Admins : ~ Busy(a, k)) => secret[k] = last[k]
        /\ \A a \in Admins : Busy(a, k) =>
              IF pc[a] = "write" THEN hand[a] = "own" ELSE secret[k] = Now(a).value

LEMMA BusyIsNamed ==
    ASSUME TypeOK, NEW a \in Admins, NEW k \in Creds, Busy(a, k)
    PROVE  k \in Names(todo[a])
BY NowIs DEF Busy

LEMMA FirstIsNotBusy ==
    ASSUME NEW a \in Admins, NEW s \in Seq(Changes), NEW k \in Creds,
           todo'[a] = s, pc'[a] = FirstStep(s)
    PROVE  ~ Busy(a, k)'
<1>1. CASE pc'[a] = "read"
  <2>1. Head(s) \in Changes /\ Head(s).kind = "set"
    BY <1>1, FirstStepIs
  <2> QED BY <2>1, ChangeForms DEF Busy, Now
<1>2. CASE pc'[a] # "read"
  BY <1>2, FirstStepIs DEF Busy
<1> QED BY <1>1, <1>2

LEMMA DropEffect ==
    ASSUME TypeOK, NEW A \in SUBSET Admins, Dropped(A)
    PROVE  /\ \A a \in A : pc'[a] = "idle" /\ todo'[a] = <<>> /\ Names(todo[a]) \subseteq trouble'
           /\ \A a \in Admins \ A :
                pc'[a] = pc[a] /\ todo'[a] = todo[a] /\ copy'[a] = copy[a] /\ hand'[a] = hand[a]
           /\ trouble \subseteq trouble' /\ "any" \in trouble'
           /\ UNCHANGED <<fileVars, last, promised>>
BY DEF Dropped, TypeOK

LEMMA TroubleGrows == TypeOK /\ [Next]_vars => trouble \subseteq trouble'
<1> SUFFICES ASSUME TypeOK, [Next]_vars PROVE trouble \subseteq trouble'
  OBVIOUS
<1>1. ASSUME NEW a \in Admins, AdminStep(a) PROVE trouble \subseteq trouble'
  <2>1. CASE \E request \in Requests : Receive(a, request)
    BY <2>1 DEF Receive
  <2>2. CASE OpenSecret(a) \/ WriteSecret(a) \/ Unlink(a)
    BY <2>2, SecretEffect
  <2>3. CASE ReadFile(a) \/ Truncate(a) \/ Put(a)
    BY <2>3, FileEffect DEF historyVars
  <2>4. CASE Fails(a)
    BY <2>4 DEF Fails, Dropped
  <2> QED BY <1>1, <2>1, <2>2, <2>3, <2>4 DEF AdminStep
<1>2. ASSUME NEW r \in Readers, ReaderStep(r) PROVE trouble \subseteq trouble'
  BY <1>2, FilesStay DEF historyVars
<1>3. CASE Restart \/ UNCHANGED vars
  BY <1>3 DEF Restart, Dropped, vars, historyVars
<1> QED BY <1>1, <1>2, <1>3, NextIsSomebodys

\* What an administrator has left to do names ever less, unless it receives a request.
LEMMA OwnersNext == TypeOK /\ OwnersInv /\ [Next]_vars => OwnersInv'
<1> SUFFICES ASSUME TypeOK, OwnersInv, [Next]_vars PROVE OwnersInv'
  OBVIOUS
<1>0. trouble \subseteq trouble'
  BY TroubleGrows
<1>1. ASSUME \A a \in Admins : Names(todo'[a]) \subseteq Names(todo[a])
      PROVE  OwnersInv'
  BY <1>0, <1>1 DEF OwnersInv
<1>2. ASSUME NEW a \in Admins, AdminStep(a) PROVE OwnersInv'
  <2>1. \A b \in Admins \ {a} : todo'[b] = todo[b]
    BY <1>2, OthersStay
  <2>2. ASSUME NEW request \in Requests, Receive(a, request) PROVE OwnersInv'
    <3>1. todo'[a] = request
      BY <2>2, ReceiveEffect
    <3>2. ASSUME NEW k \in Creds \ trouble', NEW b \in Admins \ {a}, k \in Names(todo[b])
          PROVE  k \notin Names(request)
      <4>1. pc[b] # "idle"
        BY <3>2, NamesOfNone DEF TypeOK
      <4>2. Names(request) \cap UNION {Names(todo[x]) : x \in {y \in Admins : pc[y] # "idle"}}
                \subseteq trouble'
        BY <2>2 DEF Receive
      <4> QED BY <3>2, <4>1, <4>2
    <3> QED BY <1>0, <2>1, <3>1, <3>2 DEF OwnersInv
  <2>3. CASE OpenSecret(a) \/ WriteSecret(a) \/ Unlink(a)
    BY <1>1, <2>3, SecretEffect
  <2>4. CASE ReadFile(a) \/ Truncate(a)
    BY <1>1, <2>4, FileEffect
  <2>5. CASE Put(a)
    <3>1. todo'[a] = Tail(todo[a]) /\ Names(Tail(todo[a])) \subseteq Names(todo[a])
      BY <2>5, FileEffect, NowIs
    <3> QED BY <1>1, <2>1, <3>1
  <2>6. CASE Fails(a)
    <3>1. \A b \in Admins : todo'[b] = <<>> \/ todo'[b] = todo[b]
      BY <2>6, DropEffect DEF Fails
    <3> QED BY <1>1, <3>1, NamesOfNone
  <2> QED BY <1>2, <2>2, <2>3, <2>4, <2>5, <2>6 DEF AdminStep
<1>3. ASSUME NEW r \in Readers, ReaderStep(r) PROVE OwnersInv'
  BY <1>1, <1>3, FilesStay DEF adminVars
<1>4. CASE Restart
  <2>1. \A b \in Admins : todo'[b] = <<>> \/ todo'[b] = todo[b]
    <3>1. Dropped({a \in Admins : pc[a] # "idle"})
      BY <1>4 DEF Restart
    <3> QED BY <3>1, DropEffect
  <2> QED BY <1>1, <2>1, NamesOfNone
<1>5. CASE UNCHANGED vars
  BY <1>1, <1>5 DEF vars, adminVars
<1> QED BY <1>2, <1>3, <1>4, <1>5, NextIsSomebodys

SecretOf(k) ==
    /\ (\A a \in Admins : ~ Busy(a, k)) => secret[k] = last[k]
    /\ \A a \in Admins : Busy(a, k) =>
          IF pc[a] = "write" THEN hand[a] = "own" ELSE secret[k] = Now(a).value

\* Its owner is the only one that can change a credential, or make others find
\* its file changed.
LEMMA SecretMoves ==
    ASSUME Typed, OwnersInv, SecretInv, NEW a \in Admins, AdminStep(a),
           NEW k \in Creds, k \notin trouble'
    PROVE  SecretOf(k)'
<1> USE DEF Typed
<1>0. k \notin trouble /\ SecretOf(k)
  <2>1. [Next]_vars
    BY DEF Next, AdminStep
  <2> QED BY <2>1, TroubleGrows DEF SecretInv, SecretOf
<1>1. \A b \in Admins \ {a} :
        pc'[b] = pc[b] /\ Now(b)' = Now(b) /\ (Busy(b, k)' <=> Busy(b, k))
  BY OthersStay DEF Busy, Now
<1>2. ASSUME k \in Names(todo[a]), NEW b \in Admins \ {a} PROVE ~ Busy(b, k)
  BY <1>0, <1>2, BusyIsNamed DEF OwnersInv
<1>3. ASSUME secret'[k] = secret[k], last'[k] = last[k], ~ Busy(a, k), ~ Busy(a, k)',
             \A b \in Admins \ {a} : Busy(b, k) /\ pc[b] = "write" => hand'[b] = hand[b]
      PROVE  SecretOf(k)'
  BY <1>0, <1>1, <1>3 DEF SecretOf
<1>4. ASSUME NEW request \in Requests, Receive(a, request) PROVE SecretOf(k)'
  <2>1. pc[a] = "idle" /\ ~ Busy(a, k)' /\ hand' = hand
    BY <1>4, ReceiveEffect, FirstIsNotBusy
  <2>2. UNCHANGED <<secret, last>>
    BY <1>4 DEF Receive, fileVars
  <2> QED BY <1>3, <2>1, <2>2 DEF Busy
<1>5. CASE OpenSecret(a) \/ WriteSecret(a) \/ Unlink(a)
  <2>1. /\ pc[a] # "idle" /\ pc'[a] \in {"write", "read"} /\ last' = last /\ Now(a)' = Now(a)
        /\ Now(a) \in Changes /\ Now(a).name \in Creds
    <3>1. /\ pc[a] \in {"open", "write", "unlink"} /\ pc'[a] \in {"write", "read"}
          /\ last' = last /\ Now(a)' = Now(a)
      BY <1>5, SecretEffect DEF Now
    <3>2. Now(a) \in Changes /\ (Now(a).kind = "save" \/ Now(a).kind = "drop")
      BY <3>1, NowIs DEF StepInv
    <3> QED BY <3>1, <3>2, ChangeForms
  <2>2. CASE Now(a).name # k
    <3>1. \A b \in Admins \ {a} : Busy(b, k) /\ pc[b] = "write" => hand'[b] = hand[b]
      BY <1>5, <2>2 DEF OpenSecret, WriteSecret, Unlink, Tell, SharingSecret, Busy, TypeOK
    <3>2. secret'[k] = secret[k]
      BY <1>5, <2>1, <2>2 DEF OpenSecret, WriteSecret, Unlink, TypeOK
    <3> QED BY <1>3, <2>1, <2>2, <3>1, <3>2 DEF Busy
  <2>3. CASE Now(a).name = k
    <3>1. \A b \in Admins \ {a} : ~ Busy(b, k)'
      BY <1>1, <1>2, <2>1, <2>3, NowIs
    <3>2. Busy(a, k)'
      BY <2>1, <2>3 DEF Busy
    <3>3. CASE OpenSecret(a)
      <4>1. pc'[a] = "write" /\ hand'[a] = "own"
        BY <3>3, SecretEffect
      <4> QED BY <3>1, <3>2, <4>1 DEF SecretOf
    <3>4. CASE WriteSecret(a)
      <4>1. hand[a] = "own" /\ pc[a] = "write" /\ pc'[a] = "read"
        BY <1>0, <2>3, <3>4, SecretEffect DEF SecretOf, Busy
      <4>2. secret' = [secret EXCEPT ![k] = Now(a).value]
        BY <2>3, <3>4, <4>1 DEF WriteSecret
      <4>3. secret'[k] = Now(a)'.value
        BY <2>1, <4>2 DEF TypeOK
      <4> QED BY <3>1, <3>2, <4>1, <4>3 DEF SecretOf
    <3>5. CASE Unlink(a)
      <4>1. pc[a] = "unlink" /\ pc'[a] = "read"
        BY <3>5, SecretEffect
      <4>2. Now(a).value = Missing
        BY <2>1, <4>1, ChangeForms DEF StepInv
      <4>3. secret'[k] = Missing
        BY <2>3, <3>5 DEF Unlink, TypeOK
      <4> QED BY <2>1, <3>1, <3>2, <4>1, <4>2, <4>3 DEF SecretOf
    <3> QED BY <1>5, <3>3, <3>4, <3>5
  <2> QED BY <2>2, <2>3
<1>6. CASE ReadFile(a) \/ Truncate(a)
  <2>1. /\ pc[a] \in {"read", "truncate"} /\ pc'[a] \in {"truncate", "put"}
        /\ Now(a)' = Now(a) /\ UNCHANGED <<secret, last>>
    BY <1>6, FileEffect DEF Now, fileVars, historyVars
  <2>2. \A b \in Admins \ {a} : hand'[b] = hand[b]
    BY <1>6 DEF ReadFile, Truncate, TypeOK
  <2>3. Busy(a, k)' <=> Busy(a, k)
    BY <2>1 DEF Busy
  <2> QED BY <1>0, <1>1, <2>1, <2>2, <2>3 DEF SecretOf
<1>7. CASE Put(a)
  <2>1. /\ pc[a] = "put" /\ todo'[a] = Tail(todo[a]) /\ pc'[a] = FirstStep(Tail(todo[a]))
        /\ secret' = secret
    BY <1>7, FileEffect
  <2>2. Tail(todo[a]) \in Seq(Changes) /\ Now(a) \in Changes
    BY <2>1, NowIs
  <2>3. ~ Busy(a, k)'
    BY <2>1, <2>2, FirstIsNotBusy
  <2>4. CASE Now(a).name = k
    <3>1. ~ OnFlags(a)
      BY <2>2, <2>4, ChangeForms DEF OnFlags
    <3>2. last'[k] = Now(a).value
      BY <1>7, <2>4, <3>1 DEF Put, TypeOK
    <3>3. secret[k] = Now(a).value
      BY <1>0, <2>1, <2>4 DEF SecretOf, Busy
    <3>4. \A b \in Admins \ {a} : ~ Busy(b, k)'
      BY <1>1, <1>2, <2>1, <2>4, NowIs
    <3> QED BY <2>1, <2>3, <3>2, <3>3, <3>4 DEF SecretOf
  <2>5. CASE Now(a).name # k
    <3>1. last'[k] = last[k]
      BY <1>7, <2>5 DEF Put, TypeOK
    <3>2. \A b \in Admins \ {a} : pc[b] = "write" => hand'[b] = hand[b]
      BY <1>7 DEF Put, Tell, TypeOK
    <3> QED BY <1>3, <2>1, <2>3, <2>5, <3>1, <3>2 DEF Busy
  <2> QED BY <2>4, <2>5
<1>8. CASE Fails(a)
  <2>1. Dropped({a})
    BY <1>8 DEF Fails
  <2>2. /\ pc'[a] = "idle" /\ Names(todo[a]) \subseteq trouble'
        /\ \A b \in Admins \ {a} : hand'[b] = hand[b]
        /\ UNCHANGED <<fileVars, last>>
    BY <2>1, DropEffect
  <2>3. ~ Busy(a, k)
    BY <2>2, BusyIsNamed
  <2> QED BY <1>3, <2>2, <2>3 DEF Busy, fileVars
<1> QED BY <1>4, <1>5, <1>6, <1>7, <1>8 DEF AdminStep

LEMMA SecretNext == Typed /\ OwnersInv /\ SecretInv /\ [Next]_vars => SecretInv'
<1> SUFFICES ASSUME Typed, OwnersInv, SecretInv, [Next]_vars, NEW k \in Creds, k \notin trouble'
             PROVE  SecretOf(k)'
  BY DEF SecretInv, SecretOf
<1> USE DEF Typed
<1>0. SecretOf(k)
  BY TroubleGrows DEF SecretInv, SecretOf
<1>1. ASSUME NEW r \in Readers, ReaderStep(r) PROVE SecretOf(k)'
  BY <1>0, <1>1, FilesStay DEF fileVars, adminVars, historyVars, SecretOf, Busy, Now
<1>2. CASE UNCHANGED vars
  BY <1>0, <1>2 DEF vars, fileVars, adminVars, historyVars, SecretOf, Busy, Now
<1>3. CASE Restart
  <2>1. Dropped({a \in Admins : pc[a] # "idle"})
    BY <1>3 DEF Restart
  <2>2. /\ \A a \in Admins : pc[a] # "idle" => Names(todo[a]) \subseteq trouble'
        /\ \A a \in Admins : pc'[a] = "idle"
        /\ UNCHANGED <<fileVars, last>>
    BY <2>1, DropEffect
  <2>3. \A a \in Admins : ~ Busy(a, k)
    BY <2>2, BusyIsNamed DEF Busy
  <2> QED BY <1>0, <2>2, <2>3 DEF SecretOf, Busy, fileVars
<1>4. ASSUME NEW a \in Admins, AdminStep(a) PROVE SecretOf(k)'
  BY <1>4, SecretMoves
<1> QED BY <1>1, <1>2, <1>3, <1>4, NextIsSomebodys

-----------------------------------------------------------------------------
(* Files that were never changed by two requests at a time.                *)

AloneInv ==
    "any" \notin trouble =>
        /\ \A a, b \in Admins : pc[a] # "idle" /\ pc[b] # "idle" => a = b
        /\ \A a \in Admins : hand[a] = "own"

Configured == {k \in Creds : secret[k] # Missing}
Ready == manifest = Configured /\ flags = promised
Changed(a, S) == IF Now(a).kind = "drop" THEN S \ {Now(a).name} ELSE S \cup {Now(a).name}

\* How far the files are from agreeing while a is at one of its steps.
AgreesAt(a) ==
    /\ pc[a] \in {"open", "unlink"} => Ready
    /\ pc[a] \in {"write", "read", "truncate"} /\ OnFlags(a) => Ready
    /\ pc[a] \in {"write", "read"} /\ ~ OnFlags(a) =>
          flags = promised /\ manifest \in SUBSET Creds /\ Configured = Changed(a, manifest)
    /\ pc[a] = "truncate" /\ OnFlags(a) => copy[a] = flags
    /\ pc[a] \in {"truncate", "put"} /\ ~ OnFlags(a) =>
          flags = promised /\ Configured = Changed(a, copy[a])
    /\ pc[a] = "put" /\ OnFlags(a) => manifest = Configured /\ copy[a] = promised

AgreeInv ==
    "any" \notin trouble =>
        /\ (\A a \in Admins : pc[a] = "idle") => Ready
        /\ \A a \in Admins : pc[a] # "idle" => AgreesAt(a)

LEMMA AloneNext == TypeOK /\ AloneInv /\ [Next]_vars => AloneInv'
<1> SUFFICES ASSUME TypeOK, AloneInv, [Next]_vars, "any" \notin trouble'
             PROVE  /\ \A a, b \in Admins : pc'[a] # "idle" /\ pc'[b] # "idle" => a = b
                    /\ \A a \in Admins : hand'[a] = "own"
  BY DEF AloneInv
<1>0. /\ "any" \notin trouble
      /\ \A a, b \in Admins : pc[a] # "idle" /\ pc[b] # "idle" => a = b
      /\ \A a \in Admins : hand[a] = "own"
  BY TroubleGrows DEF AloneInv
<1>1. ASSUME NEW a \in Admins, AdminStep(a)
      PROVE  /\ \A x, b \in Admins : pc'[x] # "idle" /\ pc'[b] # "idle" => x = b
             /\ \A b \in Admins : hand'[b] = "own"
  <2>1. \A b \in Admins \ {a} : pc'[b] = pc[b] /\ pc[b] = "idle"
    <3>1. CASE \E request \in Requests : Receive(a, request)
      <4>1. {b \in Admins : pc[b] # "idle"} = {}
        BY <3>1 DEF Receive
      <4> QED BY <1>1, <4>1, OthersStay
    <3>2. CASE pc[a] # "idle"
      BY <1>0, <1>1, <3>2, OthersStay
    <3> QED BY <1>1, <3>1, <3>2, SecretEffect, FileEffect DEF AdminStep, Fails
  <2>2. \A b \in Admins : hand'[b] = "own"
    <3>1. CASE OpenSecret(a) \/ WriteSecret(a) \/ Unlink(a)
      <4>1. hand'[a] = "own"
        BY <3>1, SecretEffect
      <4>2. \A b \in Admins \ {a} : hand'[b] = hand[b]
        BY <2>1, <3>1 DEF OpenSecret, WriteSecret, Unlink, Tell, SharingSecret, TypeOK
      <4> QED BY <1>0, <4>1, <4>2
    <3>2. CASE ReadFile(a) \/ Truncate(a) \/ Put(a)
      <4>1. hand'[a] = "own"
        BY <1>0, <3>2, FileEffect
      <4>2. \A b \in Admins \ {a} : hand'[b] = hand[b]
        BY <2>1, <3>2 DEF ReadFile, Truncate, Put, Tell, TypeOK
      <4> QED BY <1>0, <4>1, <4>2
    <3>3. CASE \E request \in Requests : Receive(a, request)
      BY <1>0, <3>3, ReceiveEffect
    <3>4. ~ Fails(a)
      BY DropEffect DEF Fails
    <3> QED BY <1>1, <3>1, <3>2, <3>3, <3>4 DEF AdminStep
  <2> QED BY <2>1, <2>2
<1>2. ASSUME NEW r \in Readers, ReaderStep(r)
      PROVE  pc' = pc /\ hand' = hand
  BY <1>2, FilesStay DEF adminVars
<1>3. ~ Restart
  BY DropEffect DEF Restart
<1>4. CASE UNCHANGED vars
  BY <1>0, <1>4 DEF vars, adminVars
<1> QED BY <1>0, <1>1, <1>2, <1>3, <1>4, NextIsSomebodys

\* From one step to the next of the only administrator that is not idle.
LEMMA AgreeMoves ==
    ASSUME Typed, AloneInv, AgreeInv, NEW a \in Admins, AdminStep(a), "any" \notin trouble',
           \A b \in Admins \ {a} : pc[b] = "idle"
    PROVE  /\ pc'[a] = "idle" => Ready'
           /\ pc'[a] # "idle" => AgreesAt(a)'
<1> USE DEF Typed
<1>0. /\ "any" \notin trouble /\ hand[a] = "own"
      /\ pc[a] = "idle" => Ready
      /\ pc[a] # "idle" => AgreesAt(a)
  <2>1. [Next]_vars
    BY DEF Next, AdminStep
  <2> QED BY <2>1, TroubleGrows DEF AloneInv, AgreeInv
<1>1. ASSUME NEW s \in Seq(Changes), todo'[a] = s, pc'[a] = FirstStep(s), Ready'
      PROVE  pc'[a] # "idle" => AgreesAt(a)'
  BY <1>1, FirstStepIs DEF AgreesAt, OnFlags, Now
<1>2. ASSUME NEW request \in Requests, Receive(a, request)
      PROVE  Ready' /\ (pc'[a] # "idle" => AgreesAt(a)')
  <2>1. /\ pc[a] = "idle" /\ request \in Seq(Changes)
        /\ todo'[a] = request /\ pc'[a] = FirstStep(request)
    BY <1>2, ReceiveEffect
  <2>2. Ready'
    BY <1>0, <1>2, <2>1 DEF Ready, Configured, Receive, fileVars
  <2> QED BY <1>1, <2>1, <2>2
<1>3. CASE OpenSecret(a)
  <2>1. /\ pc[a] = "open" /\ pc'[a] = "write" /\ todo' = todo
        /\ UNCHANGED <<manifest, flags, promised>>
    BY <1>3, SecretEffect
  <2>2. Ready /\ Now(a).kind = "save" /\ Now(a).name \in Creds /\ Now(a)' = Now(a)
    BY <1>0, <2>1, NowIs, ChangeForms DEF AgreesAt, StepInv, Now
  <2>3. secret' = [secret EXCEPT ![Now(a).name] = Empty] /\ Empty # Missing
    BY <1>3, MissingIsApart DEF OpenSecret
  <2>4. Configured' = Configured \cup {Now(a).name}
    BY <2>2, <2>3 DEF Configured, TypeOK
  <2>5. manifest \in SUBSET Creds
    BY <2>2 DEF Ready, Configured
  <2> QED BY <2>1, <2>2, <2>4, <2>5 DEF AgreesAt, OnFlags, Changed, Ready
<1>4. CASE WriteSecret(a)
  <2>1. /\ pc[a] = "write" /\ pc'[a] = "read" /\ todo' = todo
        /\ UNCHANGED <<manifest, flags, promised>>
    BY <1>4, SecretEffect
  <2>2. /\ Now(a).kind = "save" /\ Now(a).name \in Creds /\ Now(a)' = Now(a)
        /\ Now(a).value \in Values /\ Now(a).value # Missing
    BY <2>1, NowIs, ChangeForms, MissingIsApart DEF StepInv, Now
  <2>3. secret' = [secret EXCEPT ![Now(a).name] = Now(a).value]
    BY <1>0, <1>4 DEF WriteSecret
  <2>4. /\ flags = promised /\ manifest \in SUBSET Creds
        /\ Configured = manifest \cup {Now(a).name}
    BY <1>0, <2>1, <2>2 DEF AgreesAt, OnFlags, Changed
  <2>5. Configured' = Configured \cup {Now(a).name}
    BY <2>2, <2>3 DEF Configured, TypeOK
  <2> QED BY <2>1, <2>2, <2>4, <2>5 DEF AgreesAt, OnFlags, Changed
<1>5. CASE Unlink(a)
  <2>1. /\ pc[a] = "unlink" /\ pc'[a] = "read" /\ todo' = todo
        /\ UNCHANGED <<manifest, flags, promised>>
    BY <1>5, SecretEffect
  <2>2. Ready /\ Now(a).kind = "drop" /\ Now(a).name \in Creds /\ Now(a)' = Now(a)
    BY <1>0, <2>1, NowIs, ChangeForms DEF AgreesAt, StepInv, Now
  <2>3. secret' = [secret EXCEPT ![Now(a).name] = Missing]
    BY <1>5 DEF Unlink
  <2>4. Configured' = Configured \ {Now(a).name}
    BY <2>2, <2>3 DEF Configured, TypeOK
  <2>5. manifest \in SUBSET Creds
    BY <2>2 DEF Ready, Configured
  <2> QED BY <2>1, <2>2, <2>4, <2>5 DEF AgreesAt, OnFlags, Changed, Ready
<1>6. CASE ReadFile(a)
  <2>1. /\ pc[a] = "read" /\ pc'[a] = "truncate"
        /\ copy'[a] = Readable(IF OnFlags(a) THEN flags ELSE manifest)
        /\ UNCHANGED <<secret, manifest, flags, promised, todo>>
    BY <1>6, FileEffect DEF fileVars, historyVars
  <2>2. Now(a)' = Now(a) /\ Configured' = Configured /\ (OnFlags(a)' <=> OnFlags(a))
    BY <2>1 DEF Now, Configured, OnFlags
  <2>3. CASE OnFlags(a)
    <3>1. Ready /\ flags # Torn
      BY <1>0, <2>1, <2>3 DEF AgreesAt, Ready, TypeOK, Torn, Flags
    <3>2. copy'[a] = flags /\ Ready'
      BY <2>1, <2>2, <2>3, <3>1 DEF Readable, Ready
    <3> QED BY <2>1, <2>2, <2>3, <3>2 DEF AgreesAt
  <2>4. CASE ~ OnFlags(a)
    <3>1. flags = promised /\ manifest \in SUBSET Creds /\ Configured = Changed(a, manifest)
      BY <1>0, <2>1, <2>4 DEF AgreesAt
    <3>2. copy'[a] = manifest
      BY <2>1, <2>4, <3>1 DEF Readable, Torn, Creds
    <3> QED BY <2>1, <2>2, <2>4, <3>1, <3>2 DEF AgreesAt, Changed
  <2> QED BY <2>3, <2>4
<1>7. CASE Truncate(a)
  <2>1. /\ pc[a] = "truncate" /\ pc'[a] = "put" /\ Write(a, Torn)
        /\ UNCHANGED <<secret, todo, copy, promised>>
    BY <1>7, FileEffect DEF historyVars
  <2>2. Now(a)' = Now(a) /\ Configured' = Configured /\ (OnFlags(a)' <=> OnFlags(a))
    BY <2>1 DEF Now, Configured, OnFlags
  <2>3. CASE OnFlags(a)
    <3>1. Ready /\ copy[a] = flags
      BY <1>0, <2>1, <2>3 DEF AgreesAt
    <3>2. manifest' = manifest
      BY <2>1, <2>3 DEF Write
    <3> QED BY <2>1, <2>2, <2>3, <3>1, <3>2 DEF AgreesAt, Ready
  <2>4. CASE ~ OnFlags(a)
    <3>1. flags = promised /\ Configured = Changed(a, copy[a])
      BY <1>0, <2>1, <2>4 DEF AgreesAt
    <3>2. flags' = flags
      BY <2>1, <2>4 DEF Write
    <3> QED BY <2>1, <2>2, <2>4, <3>1, <3>2 DEF AgreesAt, Changed
  <2> QED BY <2>3, <2>4
<1>8. ASSUME Put(a) PROVE Ready' /\ (pc'[a] # "idle" => AgreesAt(a)')
  <2>1. /\ pc[a] = "put" /\ todo'[a] = Tail(todo[a]) /\ pc'[a] = FirstStep(Tail(todo[a]))
        /\ secret' = secret /\ Tail(todo[a]) \in Seq(Changes)
    BY <1>8, FileEffect, NowIs
  <2>2. Write(a, Revised(a)) /\ Revised(a) = Changed(a, copy[a]) /\ Configured' = Configured
    BY <1>0, <1>8, <2>1 DEF Put, Revised, Changed, Configured
  <2>3. Ready'
    <3>1. CASE OnFlags(a)
      <4>1. manifest = Configured /\ copy[a] = promised
        BY <1>0, <2>1, <3>1 DEF AgreesAt
      <4>2. flags' = promised \cup {Now(a).name} /\ manifest' = manifest
        BY <2>2, <3>1, <4>1 DEF Write, Changed, OnFlags
      <4>3. promised' = promised \cup {Now(a).name}
        BY <1>8, <3>1 DEF Put
      <4> QED BY <2>2, <4>1, <4>2, <4>3 DEF Ready
    <3>2. CASE ~ OnFlags(a)
      <4>1. flags = promised /\ Configured = Changed(a, copy[a])
        BY <1>0, <2>1, <3>2 DEF AgreesAt
      <4>2. manifest' = Changed(a, copy[a]) /\ flags' = flags
        BY <2>2, <3>2 DEF Write
      <4>3. promised' = promised
        BY <1>8, <3>2 DEF Put
      <4> QED BY <2>2, <4>1, <4>2, <4>3 DEF Ready
    <3> QED BY <3>1, <3>2
  <2> QED BY <1>1, <2>1, <2>3
<1>9. ~ Fails(a)
  BY DropEffect DEF Fails
<1>10. pc'[a] # "idle" \/ Put(a) \/ \E request \in Requests : Receive(a, request)
  BY <1>9, SecretEffect, FileEffect DEF AdminStep
<1> QED BY <1>2, <1>3, <1>4, <1>5, <1>6, <1>7, <1>8, <1>9, <1>10 DEF AdminStep

LEMMA AgreeNext == Typed /\ AloneInv /\ AgreeInv /\ [Next]_vars => AgreeInv'
<1> SUFFICES ASSUME Typed, AloneInv, AgreeInv, [Next]_vars, "any" \notin trouble'
             PROVE  /\ (\A a \in Admins : pc'[a] = "idle") => Ready'
                    /\ \A a \in Admins : pc'[a] # "idle" => AgreesAt(a)'
  BY DEF AgreeInv
<1> USE DEF Typed
<1>0. /\ "any" \notin trouble
      /\ (\A a \in Admins : pc[a] = "idle") => Ready
      /\ \A a \in Admins : pc[a] # "idle" => AgreesAt(a)
  BY TroubleGrows DEF AgreeInv
<1>1. ASSUME NEW a \in Admins, AdminStep(a)
      PROVE  /\ (\A b \in Admins : pc'[b] = "idle") => Ready'
             /\ \A b \in Admins : pc'[b] # "idle" => AgreesAt(b)'
  <2>1. \A b \in Admins \ {a} : pc[b] = "idle" /\ pc'[b] = "idle"
    <3>1. ASSUME NEW b \in Admins \ {a} PROVE pc[b] = "idle" /\ pc'[b] = pc[b]
      <4>1. pc'[b] = pc[b]
        BY <1>1, OthersStay
      <4>2. CASE \E request \in Requests : Receive(a, request)
        BY <4>1, <4>2 DEF Receive
      <4>3. CASE pc[a] # "idle"
        BY <1>0, <4>1, <4>3 DEF AloneInv
      <4> QED BY <1>1, <4>1, <4>2, <4>3, SecretEffect, FileEffect DEF AdminStep, Fails
    <3> QED BY <3>1
  <2>2. /\ pc'[a] = "idle" => Ready'
        /\ pc'[a] # "idle" => AgreesAt(a)'
    BY <1>1, <2>1, AgreeMoves
  <2> QED BY <2>1, <2>2
<1>2. ASSUME UNCHANGED <<fileVars, adminVars, historyVars>>
      PROVE  /\ (\A b \in Admins : pc'[b] = "idle") => Ready'
             /\ \A b \in Admins : pc'[b] # "idle" => AgreesAt(b)'
  BY <1>0, <1>2 DEF fileVars, adminVars, historyVars, AgreesAt, Ready, Configured, Changed, OnFlags, Now
<1>3. ~ Restart
  BY DropEffect DEF Restart
<1> QED BY <1>1, <1>2, <1>3, FilesStay, NextIsSomebodys DEF vars

-----------------------------------------------------------------------------
IInv == Typed /\ ClientInv /\ OwnersInv /\ SecretInv /\ AloneInv /\ AgreeInv

LEMMA InitInv == Init => IInv
<1> SUFFICES ASSUME Init PROVE IInv
  OBVIOUS
<1>1. Typed
  BY TypeInit
<1>2. ClientInv
  BY DEF Init, ClientInv, Making
<1>3. OwnersInv /\ SecretInv
  BY NamesOfNone DEF Init, OwnersInv, SecretInv, Busy
<1>4. AloneInv
  BY DEF Init, AloneInv
<1>5. AgreeInv
  <2>1. Configured = {}
    BY DEF Init, Configured
  <2> QED BY <2>1 DEF Init, AgreeInv, Ready
<1> QED BY <1>1, <1>2, <1>3, <1>4, <1>5 DEF IInv

\* The invariant behind the others: who is at which file, and what it has written.
THEOREM Invariance == Spec => []IInv
<1>1. IInv /\ [Next]_vars => IInv'
  BY TypeNext, ClientNext, OwnersNext, SecretNext, AloneNext, AgreeNext DEF IInv, Typed
<1> QED BY <1>1, InitInv, PTL DEF Spec

\* Files of credentials, manifest and flags: what is read back is a value, nothing,
\* or text that two writers left, and only a whole configuration makes a client.
THEOREM TypeCorrect == Spec => []TypeOK
<1>1. IInv => TypeOK
  BY DEF IInv, Typed
<1> QED BY <1>1, Invariance, PTL

\* RuntimeCredentialStore.save and delete: a credential whose own requests did not
\* overlap or fail is what the last of them asked for.
THEOREM SecretsAlwaysStand == Spec => []SecretsStand
<1>1. IInv => SecretsStand
  <2> SUFFICES ASSUME IInv, NEW k \in Creds, k \notin trouble,
                      \A a \in Admins : k \notin Names(todo[a])
               PROVE  secret[k] = last[k]
    BY DEF SecretsStand
  <2>1. \A a \in Admins : ~ Busy(a, k)
    BY BusyIsNamed DEF IInv, Typed
  <2> QED BY <2>1 DEF IInv, SecretInv
<1> QED BY <1>1, Invariance, PTL

\* Routes of credentials: if none overlapped or failed, what is listed is what the
\* manifest dates, and every flag that was applied is in force.
THEOREM SettledFilesAgree == Spec => []SettledAgrees
<1>1. IInv => SettledAgrees
  <2> SUFFICES ASSUME IInv, "any" \notin trouble, \A a \in Admins : pc[a] = "idle"
               PROVE  /\ \A k \in Creds : Status(k).configured = Status(k).dated
                      /\ flags = promised
    BY DEF SettledAgrees
  <2>1. Ready
    BY DEF IInv, AgreeInv
  <2>2. manifest = Configured /\ Configured # Torn
    BY <2>1 DEF Ready, Configured, Torn, Creds
  <2>3. ASSUME NEW k \in Creds PROVE Status(k).configured = Status(k).dated
    <3>1. (secret[k] # Missing) = (k \in Readable(manifest))
      BY <2>2 DEF Readable, Configured
    <3> QED BY <3>1 DEF Status
  <2> QED BY <2>1, <2>3 DEF Ready
<1> QED BY <1>1, Invariance, PTL

\* Mem0V1Adapter._get_client: unless two threads crossed, the client belongs to its
\* configuration, and a thread gets the one made from what it read.
THEOREM ClientStaysCurrent == Spec => []ClientIsCurrent
<1>1. IInv => ClientIsCurrent
  BY DEF IInv, ClientInv, ClientIsCurrent, Making
<1> QED BY <1>1, Invariance, PTL

=============================================================================
