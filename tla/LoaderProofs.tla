---------------------------- MODULE LoaderProofs ----------------------------
(***************************************************************************)
(* Proofs about module Loader, for every bucket and any number of clients. *)
(***************************************************************************)
EXTENDS Loader, TLAPS

USE LoaderAssumption

\* What the control of a client says of its request.
Control(c) ==
  /\ pc[c] \in Uploading \cup {"stored"} => Uploads(c)
  /\ pc[c] \in Downloading \cup {"fetched"} => ~Uploads(c)
  /\ pc[c] \in {"clear", "walk", "send"} =>
       call[c].pfx /\ call[c].path = "dir"
  /\ pc[c] \in {"look", "delete", "open", "put"} => call[c].path # "dir"
  /\ pc[c] = "send" => todo[c] \subseteq Targets(c)

Typed == TypeOK /\ \A c \in Client : Control(c)

LEMMA RequestType ==
  ASSUME NEW q \in Request
  PROVE  /\ q.pfx \in BOOLEAN
         /\ q.key \in Key /\ q.key[1] \in Prefix \cup {Root}
         /\ q.files \subseteq Name
  BY DEF Request, Key

\* The depth that Upload leaves out is 0: nothing is listed.
LEMMA NothingListed == Listing(0) = {}
  BY DEF Listing

LEMMA TypedStep == Typed /\ [Next]_vars => Typed'
<1> SUFFICES ASSUME Typed, [Next]_vars PROVE Typed'
  OBVIOUS
<1> USE DEF Typed, TypeOK, Control, Uploads, Goto, Write, Lost, Fault,
            Uploading, Downloading, Ended
<1>0. call' = call => \A c \in Client : Targets(c)' = Targets(c)
  BY DEF Targets
<1>1. ASSUME NEW c \in Client, Upload(c) PROVE Typed'
  BY <1>0, <1>1, RequestType DEF Upload
<1>2. ASSUME NEW c \in Client, DeletePrefix(c) PROVE Typed'
  BY <1>0, <1>2, NothingListed DEF DeletePrefix
<1>3. ASSUME NEW c \in Client, Walk(c) PROVE Typed'
  BY <1>3, RequestType DEF Walk, Key, Targets
<1>4. ASSUME NEW c \in Client, Send(c) PROVE Typed'
  <2>1. TypeOK'
    <3>1. bucket' \in [Key -> Client \cup {Before, Nobody}]
      BY <1>4 DEF Send
    <3>2. todo' \in [Client -> SUBSET Key]
      BY <1>4 DEF Send
    <3>3. erred' \in [Client -> BOOLEAN]
      BY <1>4 DEF Send
    <3>4. faults' \in 0..MaxFaults
      BY <1>4 DEF Send
    <3> QED BY <1>4, <3>1, <3>2, <3>3, <3>4 DEF Send
  <2>2. \A d \in Client : Control(d)'
    BY <1>0, <1>4 DEF Send
  <2> QED BY <2>1, <2>2
<1>5. ASSUME NEW c \in Client, SendEnds(c) PROVE Typed'
  BY <1>0, <1>5 DEF SendEnds
<1>6. ASSUME NEW c \in Client, Look(c) PROVE Typed'
  BY <1>0, <1>6 DEF Look
<1>7. ASSUME NEW c \in Client, Delete(c) PROVE Typed'
  <2>1. TypeOK'
    <3>1. bucket' \in [Key -> Client \cup {Before, Nobody}]
      BY <1>7, RequestType DEF Delete
    <3>2. pc' \in [Client -> {"idle"} \cup Uploading \cup Downloading
                           \cup Ended]
      BY <1>7, RequestType DEF Delete
    <3>3. faults' \in 0..MaxFaults
      BY <1>7, RequestType DEF Delete
    <3> QED BY <1>7, <3>1, <3>2, <3>3 DEF Delete
  <2>2. \A d \in Client : Control(d)'
    BY <1>0, <1>7 DEF Delete
  <2> QED BY <2>1, <2>2
<1>8. ASSUME NEW c \in Client, Open(c) PROVE Typed'
  BY <1>0, <1>8 DEF Open
<1>9. ASSUME NEW c \in Client, Put(c) PROVE Typed'
  <2>1. TypeOK'
    <3>1. bucket' \in [Key -> Client \cup {Before, Nobody}]
      BY <1>9, RequestType DEF Put
    <3>2. pc' \in [Client -> {"idle"} \cup Uploading \cup Downloading
                           \cup Ended]
      BY <1>9, RequestType DEF Put
    <3>3. faults' \in 0..MaxFaults
      BY <1>9, RequestType DEF Put
    <3> QED BY <1>9, <3>1, <3>2, <3>3 DEF Put
  <2>2. \A d \in Client : Control(d)'
    BY <1>0, <1>9 DEF Put
  <2> QED BY <2>1, <2>2
<1>10. ASSUME NEW c \in Client, Download(c) PROVE Typed'
  <2>1. TypeOK'
    <3>1. todo' \in [Client -> SUBSET Key]
      BY <1>10, RequestType DEF Download
    <3>2. pc' \in [Client -> {"idle"} \cup Uploading \cup Downloading
                           \cup Ended]
      BY <1>10, RequestType DEF Download
    <3> QED BY <1>10, <3>1, <3>2 DEF Download
  <2>2. \A d \in Client : Control(d)'
    BY <1>0, <1>10 DEF Download
  <2> QED BY <2>1, <2>2
<1>11. ASSUME NEW c \in Client, List(c) PROVE Typed'
  BY <1>0, <1>11 DEF List, Listing
<1>12. ASSUME NEW c \in Client, Create(c) PROVE Typed'
  <2>1. \A n \in Name : Opened(local[c][n]) \in File /\ local[c][n] \in File
    BY DEF Opened, File
  <2>2. local' \in [Client -> [Name -> File]]
    BY <1>12, <2>1 DEF Create
  <2> QED BY <1>0, <1>12, <2>2 DEF Create
<1>13. ASSUME NEW c \in Client, Fetch(c) PROVE Typed'
  <2>1. \A k \in todo[c] : k[2] \in Name
    BY <1>13 DEF Key
  <2>2. TypeOK'
    <3>1. todo' \in [Client -> SUBSET Key]
      BY <1>13, <2>1 DEF Fetch
    <3>2. erred' \in [Client -> BOOLEAN]
      BY <1>13, <2>1 DEF Fetch, FetchObject, MissObject
    <3>3. local' \in [Client -> [Name -> File]]
      <4>1. PICK k \in todo[c], file \in {"whole", "torn"} :
              local' \in {[local EXCEPT ![c][k[2]] = file], local}
        BY <1>13 DEF Fetch, FetchObject, MissObject
      <4>2. [local[c] EXCEPT ![k[2]] = file] \in [Name -> File]
        BY <2>1 DEF File
      <4> QED BY <4>1, <4>2
    <3>4. faults' \in 0..MaxFaults
      BY <1>13, <2>1 DEF Fetch, FetchObject, MissObject
    <3> QED BY <1>13, <3>1, <3>2, <3>3, <3>4 DEF Fetch, FetchObject, MissObject
  <2>3. \A d \in Client : Control(d)'
    BY <1>0, <1>13 DEF Fetch, FetchObject, MissObject
  <2> QED BY <2>2, <2>3
<1>14. ASSUME NEW c \in Client, FetchEnds(c) PROVE Typed'
  BY <1>0, <1>14 DEF FetchEnds
<1>15. ASSUME NEW c \in Client, CallFails(c) PROVE Typed'
  <2>1. /\ UNCHANGED <<bucket, call, todo, erred, local>>
        /\ faults' \in 0..MaxFaults
    BY <1>15 DEF CallFails
  <2>2. \E s \in {"failed", "dead"} : pc' = [pc EXCEPT ![c] = s]
    BY <1>15 DEF CallFails
  <2> QED BY <1>0, <2>1, <2>2
<1>16. ASSUME NEW c \in Client, Die(c) PROVE Typed'
  BY <1>0, <1>16 DEF Die
<1>17. CASE UNCHANGED vars
  BY <1>0, <1>17 DEF vars
<1> QED BY <1>1, <1>2, <1>3, <1>4, <1>5, <1>6, <1>7, <1>8, <1>9, <1>10, <1>11,
           <1>12, <1>13, <1>14, <1>15, <1>16, <1>17 DEF Next

THEOREM AlwaysTyped == Spec => []Typed
<1>1. Init => Typed
  BY DEF Init, Typed, TypeOK, Control, Uploading, Downloading, Ended, Key,
         File
<1> QED BY <1>1, TypedStep, PTL DEF Spec

\* Every variable keeps its type, and a call the path its request put it on.
THEOREM TypeCorrect == Spec => []TypeOK
<1>1. Typed => TypeOK
  BY DEF Typed
<1> QED BY <1>1, AlwaysTyped, PTL
-----------------------------------------------------------------------------
(***************************************************************************)
(* What a step may do to the bucket.                                       *)
(***************************************************************************)

Acts(c) ==
  \/ Upload(c) \/ DeletePrefix(c) \/ Walk(c) \/ Send(c) \/ SendEnds(c)
  \/ Look(c) \/ Delete(c) \/ Open(c) \/ Put(c)
  \/ Download(c) \/ List(c) \/ Create(c) \/ Fetch(c) \/ FetchEnds(c)
  \/ CallFails(c) \/ Die(c)

\* An upload writes to its targets, and deletes only ahead of its own put.
Writes(c) ==
  \E k \in Targets(c) :
    /\ Uploads(c) /\ pc[c] \in {"send", "put"} /\ Moves(c)
    /\ bucket' = [bucket EXCEPT ![k] = c]

Deletes(c) ==
  /\ Uploads(c) /\ pc[c] = "delete" /\ call[c].path # "dir"
  /\ pc'[c] \in {"open", "failed"}
  /\ bucket' = [bucket EXCEPT ![call[c].key] = Nobody]

LEMMA BucketStep ==
  ASSUME Typed, NEW c \in Client, Acts(c)
  PROVE  UNCHANGED bucket \/ Writes(c) \/ Deletes(c)
<1> USE DEF Goto, Write, Lost
<1>1. CASE DeletePrefix(c)
  <2>1. bucket' = [k \in Key |-> bucket[k]]
    BY <1>1, NothingListed DEF DeletePrefix
  <2> QED BY <2>1 DEF Typed, TypeOK
<1>2. CASE Send(c)
  <2>1. todo[c] \subseteq Targets(c) /\ Uploads(c) /\ pc[c] = "send"
    BY <1>2 DEF Send, Typed, Control, Uploading
  <2>2. Moves(c)
    BY <1>2 DEF Send, Moves, Typed, TypeOK
  <2> QED BY <1>2, <2>1, <2>2 DEF Send, Writes
<1>3. CASE Put(c)
  <2>1. Uploads(c) /\ pc[c] = "put" /\ call[c].key \in Targets(c)
    BY <1>3 DEF Put, Typed, Control, Uploading, Targets
  <2>2. Moves(c)
    BY <1>3 DEF Put, Moves, Typed, TypeOK
  <2> QED BY <1>3, <2>1, <2>2 DEF Put, Writes
<1>4. CASE Delete(c)
  <2>1. Uploads(c) /\ pc[c] = "delete" /\ call[c].path # "dir"
    BY <1>4 DEF Delete, Typed, Control, Uploading
  <2>2. pc'[c] \in {"open", "failed"}
    BY <1>4 DEF Delete, Typed, TypeOK
  <2> QED BY <1>4, <2>1, <2>2 DEF Delete, Deletes
<1> QED BY <1>1, <1>2, <1>3, <1>4
        DEF Acts, Upload, Walk, SendEnds, Look, Open, Download, List, Create,
            Fetch, FetchEnds, CallFails, Die

\* No upload touches what it is not about: DeletePrefix spares the bucket.
THEOREM OnlyTargetsChange == Spec => OnlyTargets
<1>1. Typed /\ [Next]_vars =>
        [\A k \in Key :
           bucket'[k] # bucket[k] =>
             \E c \in Client : Uploads(c) /\ Moves(c) /\ k \in Targets(c)]_vars
  <2> SUFFICES ASSUME Typed, Next, NEW k \in Key, bucket'[k] # bucket[k]
               PROVE  \E c \in Client :
                        Uploads(c) /\ Moves(c) /\ k \in Targets(c)
    BY DEF vars
  <2>1. PICK c \in Client : Writes(c) \/ Deletes(c)
    BY BucketStep DEF Next, Acts
  <2>2. CASE Writes(c)
    BY <2>2 DEF Writes, Typed, TypeOK
  <2>3. CASE Deletes(c)
    BY <2>3 DEF Deletes, Moves, Typed, TypeOK, Targets
  <2> QED BY <2>1, <2>2, <2>3
<1> QED BY <1>1, AlwaysTyped, PTL DEF Spec, OnlyTargets
-----------------------------------------------------------------------------
(***************************************************************************)
(* What is stored stays stored.                                            *)
(***************************************************************************)

\* The step of one client leaves the others where they are.
Alone(c) ==
  /\ call' = call
  /\ \A d \in Client \ {c} :
       /\ pc'[d] = pc[d] /\ todo'[d] = todo[d] /\ erred'[d] = erred[d]
       /\ local'[d] = local[d]

LEMMA OthersStay ==
  ASSUME Typed, NEW c \in Client, Acts(c)
  PROVE  Alone(c)
  BY DEF Typed, TypeOK, Acts, Alone, Goto, Upload, DeletePrefix, Walk, Send,
         SendEnds, Look, Delete, Open, Put, Download, List, Create, Fetch,
         FetchObject, MissObject, FetchEnds, CallFails, Die

\* Client c has sent k without having met an error.
HasSent(c, k) ==
  /\ k \in Targets(c)
  /\ \/ pc[c] = "send" /\ ~erred[c] /\ k \notin todo[c]
     \/ pc[c] = "stored"

LEMMA HasSentStep ==
  ASSUME Typed, NEW c \in Client, Acts(c), NEW d \in Client, NEW k \in Key,
         HasSent(d, k)'
  PROVE  HasSent(d, k) \/ bucket'[k] = d
<1>1. Targets(d)' = Targets(d)
  BY OthersStay DEF Alone, Targets
<1>2. CASE d # c
  BY <1>1, <1>2, OthersStay DEF Alone, HasSent
<1>3. CASE d = c
  <2> USE <1>3 DEF Typed, TypeOK, Goto
  <2>1. CASE Walk(c)
    BY <1>1, <2>1 DEF Walk, HasSent, Targets, Control
  <2>2. CASE Send(c)
    BY <1>1, <2>2 DEF Send, Write, HasSent
  <2>3. CASE SendEnds(c)
    BY <1>1, <2>3 DEF SendEnds, HasSent
  <2>4. CASE Put(c)
    <3>1. k = call[c].key
      BY <1>1, <2>4 DEF Put, HasSent, Targets, Control
    <3> QED BY <1>1, <2>4, <3>1 DEF Put, Write, HasSent
  <2>5. CASE \/ Upload(c) \/ DeletePrefix(c) \/ Look(c) \/ Delete(c)
             \/ Open(c) \/ Download(c) \/ List(c) \/ Create(c) \/ Fetch(c)
             \/ FetchEnds(c) \/ CallFails(c) \/ Die(c)
    <3>1. pc'[c] \notin {"send", "stored"}
      BY <2>5 DEF Upload, DeletePrefix, Look, Delete, Open, Download, List,
        Create, Fetch, FetchEnds, CallFails, Die
    <3> QED BY <3>1 DEF HasSent
  <2> QED BY <2>1, <2>2, <2>3, <2>4, <2>5 DEF Acts
<1> QED BY <1>2, <1>3

\* An upload that has removed k has put it, or it still is the cause.
LEMMA RemovedStep ==
  ASSUME Typed, NEW c \in Client, Acts(c), NEW k \in Key, Removed(k)
  PROVE  Removed(k)' \/ bucket'[k] # Nobody
<1>1. PICK d \in Client :
        /\ Uploads(d) /\ call[d].path # "dir" /\ call[d].key = k
        /\ pc[d] \in {"open", "put", "failed", "dead"}
  BY DEF Removed
<1>2. call' = call
  BY OthersStay DEF Alone
<1>3. pc'[d] \in {"open", "put", "failed", "dead"} \/ bucket'[k] # Nobody
  <2>1. CASE d # c
    BY <1>1, <2>1, OthersStay DEF Alone
  <2>2. CASE d = c
    BY <1>1, <2>2 DEF Typed, TypeOK, Acts, Goto, Write, Upload, DeletePrefix,
      Walk, Send, SendEnds, Look, Delete, Open, Put, Download, List, Create,
      Fetch, FetchEnds, CallFails, Die, Uploading, Downloading
  <2> QED BY <2>1, <2>2
<1> QED BY <1>1, <1>2, <1>3 DEF Removed, Uploads

\* The inductive forms of StoredStays and StoredIsSent: they hold of what was
\* sent, before the call returns.
SentStays ==
  \A k \in Key :
    /\ k \in Present \/ \E c \in Client : HasSent(c, k)
    /\ bucket[k] = Nobody
    => Removed(k)

SentIsNew ==
  \A c \in Client, k \in Key : HasSent(c, k) => bucket[k] # Before

LEMMA SentStep ==
  ASSUME Typed, SentStays, SentIsNew, NEW c \in Client, Acts(c)
  PROVE  SentStays' /\ SentIsNew'
<1>1. UNCHANGED bucket \/ Writes(c) \/ Deletes(c)
  BY BucketStep
<1>2. ASSUME NEW k \in Key, bucket'[k] = Nobody,
             k \in Present \/ \E d \in Client : HasSent(d, k)'
      PROVE  Removed(k)'
  <2>1. k \in Present \/ \E d \in Client : HasSent(d, k)
    BY <1>2, HasSentStep
  <2>2. CASE bucket[k] = Nobody
    BY <1>2, <2>1, <2>2, RemovedStep DEF SentStays
  <2>3. CASE bucket[k] # Nobody
    <3>1. Deletes(c) /\ call[c].key = k
      BY <1>1, <1>2, <2>3 DEF Writes, Deletes, Typed, TypeOK
    <3>2. call' = call
      BY OthersStay DEF Alone
    <3> QED BY <3>1, <3>2 DEF Deletes, Removed, Uploads
  <2> QED BY <2>2, <2>3
<1>3. ASSUME NEW d \in Client, NEW k \in Key, HasSent(d, k)'
      PROVE  bucket'[k] # Before
  <2>1. CASE bucket'[k] = d
    BY <2>1
  <2>2. CASE HasSent(d, k)
    <3>1. bucket[k] # Before
      BY <2>2 DEF SentIsNew
    <3> QED BY <1>1, <3>1 DEF Writes, Deletes, Typed, TypeOK
  <2> QED BY <1>3, <2>1, <2>2, HasSentStep
<1> QED BY <1>2, <1>3 DEF SentStays, SentIsNew

LEMMA AlwaysSent == Spec => [](SentStays /\ SentIsNew)
<1>1. Init => SentStays /\ SentIsNew
  BY DEF Init, SentStays, SentIsNew, HasSent
<1>2. Typed /\ SentStays /\ SentIsNew /\ [Next]_vars
        => (SentStays /\ SentIsNew)'
  <2> SUFFICES ASSUME Typed, SentStays, SentIsNew, [Next]_vars
               PROVE  (SentStays /\ SentIsNew)'
    OBVIOUS
  <2>1. CASE UNCHANGED vars
    BY <2>1 DEF vars, SentStays, SentIsNew, HasSent, Targets, Removed, Uploads
  <2>2. CASE Next
    BY <2>2, SentStep DEF Next, Acts
  <2> QED BY <2>1, <2>2
<1> QED BY <1>1, <1>2, AlwaysTyped, PTL DEF Spec

\* An object that was there or was stored is absent only because of an upload
\* that has deleted it and is about to put it, failed or died.
THEOREM StoredObjectsStay == Spec => []StoredStays
<1>1. SentStays => StoredStays
  BY DEF SentStays, StoredStays, HasSent
<1> QED BY <1>1, AlwaysSent, PTL

\* An upload that returns without an error has sent all of its files.
THEOREM OkUploadsAreSent == Spec => []StoredIsSent
<1>1. Typed /\ SentIsNew => StoredIsSent
  <2> SUFFICES ASSUME Typed, SentIsNew, NEW c \in Client, pc[c] = "stored",
                      NEW k \in Targets(c)
               PROVE  bucket[k] # Before
    BY DEF StoredIsSent
  <2>1. k \in Key
    <3>1. call[c] \in Request
      BY DEF Typed, TypeOK
    <3>2. call[c].key[1] \in Prefix \cup {Root} /\ call[c].key \in Key
      BY <3>1, RequestType
    <3> QED BY <3>1, <3>2, RequestType DEF Targets, Key
  <2> QED BY <2>1 DEF SentIsNew, HasSent
<1> QED BY <1>1, AlwaysSent, AlwaysTyped, PTL
-----------------------------------------------------------------------------
(***************************************************************************)
(* What is fetched is whole.                                               *)
(***************************************************************************)

\* A file that is open but not fetched waits for that, or its call does not end
\* well.
Awaited(c) ==
  /\ \A n \in Name :
       \/ erred[c] \/ pc[c] \in {"failed", "dead"}
       \/ /\ local[c][n] \in {"empty", "kept"} =>
               pc[c] = "fetch" /\ \E k \in todo[c] : k[2] = n
          /\ local[c][n] \in {"old", "kept", "torn"} => Existed(c, n)
  /\ pc[c] \in {"idle", "list", "create"} =>
       \A n \in Name : local[c][n] \in {"none", "old"}
  /\ pc[c] = "fetched" => ~erred[c]

LEMMA AwaitedStep ==
  ASSUME Typed, NEW c \in Client, Acts(c), NEW d \in Client, Awaited(d)
  PROVE  Awaited(d)'
<1>0. call' = call /\ \A n \in Name : Existed(d, n)' = Existed(d, n)
  BY OthersStay DEF Alone, Existed
<1>1. CASE d # c
  BY <1>0, <1>1, OthersStay DEF Alone, Awaited
<1>2. CASE d = c
  <2> USE <1>2 DEF Typed, TypeOK, Goto, Awaited
  <2>1. CASE Create(c)
    <3>1. /\ erred' = erred /\ todo' = todo
          /\ pc[c] = "create" /\ pc'[c] = "fetch"
      BY <2>1 DEF Create
    <3>2. ASSUME NEW n \in Name
          PROVE  \/ /\ local'[c][n] \in {"empty", "kept"}
                    /\ \E k \in todo[c] : k[2] = n
                    /\ local'[c][n] = "kept" => local[c][n] # "none"
                 \/ local'[c][n] = local[c][n]
      BY <2>1 DEF Create, Opened
    <3> QED BY <1>0, <3>1, <3>2 DEF File
  <2>2. CASE Fetch(c)
    <3>1. PICK k \in todo[c] :
            /\ todo' = [todo EXCEPT ![c] = @ \ {k}]
            /\ FetchObject(c, k) \/ MissObject(c, k)
      BY <2>2 DEF Fetch
    <3>2. pc' = pc /\ pc[c] = "fetch"
      BY <2>2 DEF Fetch
    <3>3. k[2] \in Name
      BY <3>1 DEF Key
    <3>4. CASE MissObject(c, k)
      BY <3>2, <3>4 DEF MissObject
    <3>5. CASE FetchObject(c, k)
      <4>1. \A n \in Name \ {k[2]} : local'[c][n] = local[c][n]
        BY <3>3, <3>5 DEF FetchObject
      <4>2. \/ local'[c][k[2]] = "whole"
            \/ local'[c][k[2]] = "torn" /\ local[c][k[2]] = "kept"
        BY <3>3, <3>5 DEF FetchObject
      <4>3. todo'[c] = todo[c] \ {k} /\ erred' = erred
        BY <3>1, <3>5 DEF FetchObject
      <4> QED BY <1>0, <3>2, <3>3, <4>1, <4>2, <4>3
    <3> QED BY <3>1, <3>4, <3>5
  <2>3. CASE FetchEnds(c)
    BY <1>0, <2>3 DEF FetchEnds
  <2>4. CASE Send(c)
    BY <1>0, <2>4 DEF Send
  <2>5. CASE \/ Upload(c) \/ DeletePrefix(c) \/ Walk(c) \/ SendEnds(c)
             \/ Look(c) \/ Delete(c) \/ Open(c) \/ Put(c)
             \/ Download(c) \/ List(c) \/ CallFails(c) \/ Die(c)
    <3>1. local' = local /\ erred' = erred /\ pc'[c] # "fetched"
      BY <2>5 DEF Upload, DeletePrefix, Walk, SendEnds, Look, Delete, Open,
        Put, Download, List, CallFails, Die
    <3>2. /\ pc[c] # "fetch" \/ pc'[c] = "dead"
          /\ pc'[c] \in {"list", "create"} => pc[c] \in {"idle", "list"}
          /\ pc'[c] # "idle"
      BY <2>5 DEF Upload, DeletePrefix, Walk, SendEnds, Look, Delete, Open,
        Put, Download, List, CallFails, Die
    <3>3. pc[c] \in {"failed", "dead"} => pc'[c] \in {"failed", "dead"}
      BY <2>5 DEF Upload, DeletePrefix, Walk, SendEnds, Look, Delete, Open,
        Put, Download, List, CallFails, Die, Uploading, Downloading
    <3> QED BY <1>0, <3>1, <3>2, <3>3
  <2> QED BY <2>1, <2>2, <2>3, <2>4, <2>5 DEF Acts
<1> QED BY <1>1, <1>2

\* A download that returns without an error leaves no file as it opened it,
\* whatever was deleted since it listed the bucket, and tears none that it made.
THEOREM OkDownloadsAreWhole == Spec => []FetchedIsWhole
<1> DEFINE Inv == \A c \in Client : Awaited(c)
<1>1. Init => Inv
  BY DEF Init, Awaited
<1>2. Typed /\ Inv /\ [Next]_vars => Inv'
  <2>1. Typed /\ Inv /\ Next => Inv'
    BY AwaitedStep DEF Next, Acts
  <2>2. Inv /\ UNCHANGED vars => Inv'
    BY DEF vars, Awaited, Existed
  <2> QED BY <2>1, <2>2
<1>3. Inv => FetchedIsWhole
  BY DEF Awaited, FetchedIsWhole
<1> HIDE DEF Inv
<1> QED BY <1>1, <1>2, <1>3, AlwaysTyped, PTL DEF Spec
=============================================================================
